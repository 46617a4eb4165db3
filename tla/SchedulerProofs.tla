--------------------------- MODULE SchedulerProofs --------------------------
(***************************************************************************)
(* The safety properties of Scheduler for any tasks, sessions, attempts    *)
(* and slots.                                                              *)
(*                                                                         *)
(* The inductive invariant says besides the types: what a row of the table *)
(* may be (RowInv), that a run stands in its session's line exactly while  *)
(* it is not free, and in front once it has begun (LineInv), that those    *)
(* who wait for a slot wait once (SlotInv), that there are no runs before  *)
(* the recovery (LifeInv), and for each task that map and table agree, who *)
(* watches it and how its starts add up (TaskInv).  On top of it: the      *)
(* count of the slots, and the refinement of TaskLife.                     *)
(***************************************************************************)
EXTENDS Scheduler, SequenceFacts, FiniteSetTheorems, TLAPS

RowInv ==
  \A t \in Tasks :
    /\ db[t].status = "absent" => db[t] = Absent
    /\ db[t].status \in Live => db[t].attempts < MaxAttempts

LineInv ==
  /\ \A s \in Sessions, r \in Runs :
       /\ In(line[s], r) <=> SessionOf[TaskOf(r)] = s /\ phase[r] # "free"
       /\ Once(line[s], r)
  /\ \A r \in Runs : /\ Begun(r) => Line(r)[1] = r
                     /\ timedOut[r] => Begun(r)

SlotInv ==
  /\ \A i \in DOMAIN waiting : phase[waiting[i]] = "slot"
  /\ \A i, j \in DOMAIN waiting : waiting[i] = waiting[j] => i = j

LifeInv ==
  /\ ticking => recovered
  /\ ~recovered => \A r \in Runs : phase[r] = "free"

\* The run of t that will record its end has begun; it is still in the line.
Works(t) == \E r \in Watchers(t) : phase[r] # "line"
Queues(t) == \E r \in Watchers(t) : phase[r] = "line"

AgreeInv(t) ==
  /\ mem[t] # Absent => mem[t] = db[t]
  /\ recovered /\ db[t].status \in Live => mem[t] # Absent

\* One run at most watches a task, also after a cancellation.
WatchInv(t) ==
  /\ \A p, q \in Watchers(t) : p = q
  /\ mem[t].status = "running" => Watchers(t) # {}
  /\ mem[t].status = "pending" \/ db[t].status \in {"absent", "completed", "dead_letter"}
       => Watchers(t) = {}

\* A start is lost in a crash, has become an attempt, or is still going on; the
\* run of a cancelled task may start once more.
CountInv(t) ==
  /\ db[t].status = "absent" => starts[t] = 0 /\ lost[t] = 0
  /\ db[t].status \in Live /\ Works(t) => starts[t] = db[t].attempts + lost[t] + 1
  /\ db[t].status \in Live /\ ~Works(t) => starts[t] = db[t].attempts + lost[t]
  /\ db[t].status \in {"completed", "cancelled"} => starts[t] <= MaxAttempts + lost[t]
  /\ db[t].status = "dead_letter" => starts[t] = MaxAttempts + lost[t]
  /\ db[t].status = "cancelled" /\ Queues(t) => starts[t] < MaxAttempts + lost[t]

TaskInv(t) == AgreeInv(t) /\ WatchInv(t) /\ CountInv(t)

IInv ==
  /\ TypeOK /\ RowInv /\ LineInv /\ SlotInv /\ LifeInv
  /\ \A t \in Tasks : TaskInv(t)

USE TasksAssumption, SessionsAssumption, AttemptsAssumption, LimitsAssumption,
    BoundsAssumption, InteractiveAssumption

-----------------------------------------------------------------------------
(* Rows, runs and frames.                                                  *)

\* A task has two runs; no run is the interactive turn.
LEMMA RunFacts ==
  /\ \A r \in Runs : TaskOf(r) \in Tasks /\ r \in Users /\ r # Interactive
  /\ \A r \in Runs : SessionOf[TaskOf(r)] \in Sessions
  /\ \A r \in Runs : r = <<TaskOf(r), 1>> \/ r = <<TaskOf(r), 2>>
  /\ \A t \in Tasks : /\ <<t, 1>> \in Runs /\ TaskOf(<<t, 1>>) = t
                      /\ <<t, 2>> \in Runs /\ TaskOf(<<t, 2>>) = t
                      /\ <<t, 1>> # <<t, 2>>
  BY DEF Runs, TaskOf, Users

\* The row of a task in the map is live and can fail once more.
LEMMA MemFacts ==
  ASSUME TypeOK, NEW t \in Tasks
  PROVE  /\ mem[t] = Absent <=> mem[t].status \notin Live
         /\ mem[t].status \in {"absent", "pending", "running"}
         /\ mem[t].attempts \in 0..(MaxAttempts - 1)
         /\ mem[t] = Row(mem[t].status, mem[t].attempts)
         /\ mem[t] \in Rows
  BY DEF TypeOK, Absent, Row, Live, Rows, Statuses

\* A row of the table.
LEMMA DbFacts ==
  ASSUME TypeOK, RowInv, NEW t \in Tasks
  PROVE  /\ db[t].status \in Statuses
         /\ db[t].attempts \in 0..MaxAttempts
         /\ db[t] = Row(db[t].status, db[t].attempts)
         /\ db[t] = Absent <=> db[t].status = "absent"
         /\ db[t].status \in Live => db[t].attempts \in 0..(MaxAttempts - 1)
  BY DEF TypeOK, RowInv, Absent, Row, Rows

\* A row with another status.
LEMMA Restated == \A row \in Rows, st \in Statuses :
                    [row EXCEPT !.status = st] = Row(st, row.attempts)
  BY DEF Rows, Row

\* Nothing about the run q changes that the line or a task depends on.
Same(q) ==
  /\ phase'[q] = "free" <=> phase[q] = "free"
  /\ phase'[q] = "line" <=> phase[q] = "line"
  /\ timedOut'[q] = timedOut[q]

\* A task whose row, counts and runs stay as they are.
LEMMA TaskFrame ==
  ASSUME NEW t \in Tasks, TaskInv(t), recovered' => recovered,
         mem'[t] = mem[t], db'[t] = db[t], starts'[t] = starts[t], lost'[t] = lost[t],
         \A q \in Runs : TaskOf(q) = t => Same(q)
  PROVE  TaskInv(t)'
  <1>1. Watchers(t)' = Watchers(t)
    BY DEF Watchers, Same
  <1>2. \A q \in Watchers(t) : phase'[q] = "line" <=> phase[q] = "line"
    BY DEF Watchers, Same
  <1>3. Works(t)' <=> Works(t)
    BY <1>1, <1>2 DEF Works
  <1>4. Queues(t)' <=> Queues(t)
    BY <1>1, <1>2 DEF Queues
  <1>5. AgreeInv(t)'
    BY DEF TaskInv, AgreeInv
  <1>6. WatchInv(t)'
    BY <1>1 DEF TaskInv, WatchInv
  <1>7. CountInv(t)'
    BY <1>3, <1>4 DEF TaskInv, CountInv
  <1> QED  BY <1>5, <1>6, <1>7 DEF TaskInv

\* A step that leaves the line and the places of all runs alone.
LEMMA LineFrame ==
  ASSUME LineInv, line' = line, \A q \in Runs : Same(q)
  PROVE  LineInv'
  BY DEF LineInv, Same, Begun, Line

\* The same for the recovery flag.
LEMMA LifeFrame ==
  ASSUME LifeInv, recovered' = recovered, ticking' => recovered,
         \A q \in Runs : Same(q)
  PROVE  LifeInv'
  BY DEF LifeInv, Same

-----------------------------------------------------------------------------
(* The slots.                                                              *)

SlotTyped == active \in Nat /\ limit \in Limits /\ waiting \in Seq(Users)

\* _tryFulfillWaiting() serves the first waiters and leaves the others.
LEMMA GrantEffect ==
  ASSUME SlotTyped, SlotInv, NEW used \in Nat, NEW max \in Limits,
         NEW moved \in [Users -> Phases],
         \A i \in DOMAIN waiting : moved[waiting[i]] = "slot",
         TryFulfillWaiting(used, max, moved)
  PROVE  /\ SlotTyped' /\ SlotInv' /\ phase' \in [Users -> Phases]
         /\ \A u \in Users : \/ phase'[u] = moved[u]
                             \/ moved[u] = "slot" /\ phase'[u] = "working"
  <1> DEFINE n == Grants(max - used)
  <1>1. n \in 0..Len(waiting) /\ max \in Nat /\ Len(waiting) \in Nat
    BY DEF SlotTyped, Grants
  <1>2. /\ active' = used + n /\ limit' = max
        /\ waiting' = SubSeq(waiting, n + 1, Len(waiting))
        /\ phase' = [u \in Users |->
                       IF \E k \in 1..n : waiting[k] = u THEN "working" ELSE moved[u]]
    BY DEF TryFulfillWaiting
  <1> HIDE DEF n
  <1>3. /\ waiting' \in Seq(Users) /\ Len(waiting') = Len(waiting) - n
        /\ \A i \in 1..(Len(waiting) - n) : waiting'[i] = waiting[n + i]
    BY <1>1, <1>2, SubSeqProperties DEF SlotTyped
  <1>4. /\ DOMAIN waiting' = 1..(Len(waiting) - n) /\ DOMAIN waiting = 1..Len(waiting)
        /\ \A i \in DOMAIN waiting : waiting[i] \in Users
    BY <1>1, <1>3 DEF SlotTyped
  <1>5. SlotTyped'
    BY <1>1, <1>2, <1>3 DEF SlotTyped
  <1>6. phase' \in [Users -> Phases]
    BY <1>2 DEF Phases
  <1>7. \A u \in Users : \/ phase'[u] = moved[u]
                         \/ moved[u] = "slot" /\ phase'[u] = "working"
    BY <1>1, <1>2, <1>4
  <1>8. SlotInv'
    <2>1. ASSUME NEW i \in DOMAIN waiting', NEW j \in DOMAIN waiting',
                 waiting'[i] = waiting'[j]
          PROVE  i = j
      <3>1. /\ n + i \in DOMAIN waiting /\ n + j \in DOMAIN waiting
            /\ waiting[n + i] = waiting[n + j] /\ i \in Nat /\ j \in Nat /\ n \in Nat
        BY <1>1, <1>3, <1>4, <2>1
      <3>2. n + i = n + j
        BY <3>1 DEF SlotInv
      <3> QED  BY <3>1, <3>2
    <2>2. ASSUME NEW i \in DOMAIN waiting'
          PROVE  phase'[waiting'[i]] = "slot"
      <3>1. n + i \in DOMAIN waiting /\ waiting'[i] = waiting[n + i]
        BY <1>1, <1>3, <1>4
      <3>2. ~\E k \in 1..n : waiting[k] = waiting[n + i]
        BY <1>1, <1>4, <3>1 DEF SlotInv
      <3> QED  BY <1>2, <1>4, <3>1, <3>2
    <2> QED  BY <2>1, <2>2 DEF SlotInv
  <1> QED  BY <1>5, <1>6, <1>7, <1>8

\* acquire() gives u a slot or a place at the end of the waiters.
LEMMA AcquireEffect ==
  ASSUME SlotTyped, SlotInv, phase \in [Users -> Phases], NEW u \in Users,
         phase[u] # "slot", Acquire(u)
  PROVE  /\ SlotTyped' /\ SlotInv' /\ phase' \in [Users -> Phases]
         /\ phase' = [phase EXCEPT ![u] = phase'[u]]
         /\ phase'[u] \in {"working", "slot"}
  <1>1. CASE active < limit /\ active' = active + 1
               /\ phase' = [phase EXCEPT ![u] = "working"] /\ UNCHANGED <<limit, waiting>>
    BY <1>1 DEF SlotTyped, SlotInv, Phases
  <1>2. CASE waiting' = Append(waiting, u)
               /\ phase' = [phase EXCEPT ![u] = "slot"] /\ UNCHANGED <<limit, active>>
    <2>1. \A i \in DOMAIN waiting : waiting[i] # u /\ waiting[i] \in Users
      BY DEF SlotInv, SlotTyped
    <2>2. /\ waiting' \in Seq(Users) /\ DOMAIN waiting' = 1..(Len(waiting) + 1)
          /\ DOMAIN waiting = 1..Len(waiting) /\ Len(waiting) \in Nat
          /\ waiting'[Len(waiting) + 1] = u
          /\ \A i \in DOMAIN waiting : waiting'[i] = waiting[i]
      BY <1>2 DEF SlotTyped
    <2>3. \A i \in DOMAIN waiting' : i \in DOMAIN waiting \/ i = Len(waiting) + 1
      BY <2>2
    <2>4. SlotInv'
      BY <1>2, <2>1, <2>2, <2>3 DEF SlotInv
    <2> QED  BY <1>2, <2>2, <2>4 DEF SlotTyped, Phases
  <1> QED  BY <1>1, <1>2 DEF Acquire

\* release() frees u and serves the next waiters.
LEMMA ReleaseEffect ==
  ASSUME SlotTyped, SlotInv, phase \in [Users -> Phases], NEW u \in Users,
         phase[u] = "working", Release(u)
  PROVE  /\ SlotTyped' /\ SlotInv' /\ phase' \in [Users -> Phases]
         /\ phase'[u] = "free"
         /\ \A v \in Users \ {u} : \/ phase'[v] = phase[v]
                                   \/ phase[v] = "slot" /\ phase'[v] = "working"
  <1> DEFINE used == IF active > 0 THEN active - 1 ELSE 0
             moved == [phase EXCEPT ![u] = "free"]
  <1>1. used \in Nat /\ limit \in Limits /\ moved \in [Users -> Phases]
    BY DEF SlotTyped, Phases
  <1>2. \A i \in DOMAIN waiting : waiting[i] # u /\ waiting[i] \in Users
    BY DEF SlotInv, SlotTyped
  <1>3. \A i \in DOMAIN waiting : moved[waiting[i]] = "slot"
    BY <1>2 DEF SlotInv
  <1>4. TryFulfillWaiting(used, limit, moved)
    BY DEF Release
  <1>5. moved[u] = "free" /\ \A v \in Users \ {u} : moved[v] = phase[v]
    OBVIOUS
  <1> HIDE DEF used, moved
  <1>6. /\ SlotTyped' /\ SlotInv' /\ phase' \in [Users -> Phases]
        /\ \A v \in Users : \/ phase'[v] = moved[v]
                            \/ moved[v] = "slot" /\ phase'[v] = "working"
    BY <1>1, <1>3, <1>4, GrantEffect
  <1> QED  BY <1>5, <1>6

-----------------------------------------------------------------------------
(* The parts of the type invariant, and steps on the rows.                 *)

TaskTyped ==
  /\ mem \in [Tasks -> {Absent} \cup [status : Live, attempts : 0..(MaxAttempts - 1)]]
  /\ db \in [Tasks -> Rows] /\ due \in [Tasks -> BOOLEAN]
LockTyped ==
  /\ phase \in [Users -> Phases] /\ timedOut \in [Runs -> BOOLEAN]
  /\ line \in [Sessions -> Seq(Runs)]
LifeTyped ==
  /\ ticking \in BOOLEAN /\ recovered \in BOOLEAN
  /\ turns \in 0..MaxTurns /\ halts \in 0..MaxHalts
GhostTyped == starts \in [Tasks -> Nat] /\ lost \in [Tasks -> Nat]

\* The type invariant by parts.
LEMMA TypeParts ==
  TypeOK <=> TaskTyped /\ SlotTyped /\ LockTyped /\ LifeTyped /\ GhostTyped
  BY DEF TypeOK, TaskTyped, SlotTyped, LockTyped, LifeTyped, GhostTyped

\* The same in the next state.
LEMMA TypePartsNext ==
  TypeOK' <=> TaskTyped' /\ SlotTyped' /\ LockTyped' /\ LifeTyped' /\ GhostTyped'
  BY DEF TypeOK, TaskTyped, SlotTyped, LockTyped, LifeTyped, GhostTyped

\* upsertTask() of a live row.
LEMMA SaveEffect ==
  ASSUME TaskTyped, RowInv, NEW t \in Tasks, NEW st \in Live, NEW n \in 0..(MaxAttempts - 1),
         Save(t, Row(st, n))
  PROVE  /\ TaskTyped' /\ RowInv'
         /\ mem'[t] = Row(st, n) /\ db'[t] = Row(st, n)
         /\ \A u \in Tasks \ {t} : mem'[u] = mem[u] /\ db'[u] = db[u]
  <1>1. Row(st, n) \in [status : Live, attempts : 0..(MaxAttempts - 1)]
    BY DEF Row
  <1>2. Row(st, n) \in Rows
    BY DEF Row, Rows, Statuses
  <1>3. Row(st, n).status = st /\ Row(st, n).attempts = n /\ st # "absent"
    BY DEF Row, Live
  <1>4. /\ mem' = [mem EXCEPT ![t] = Row(st, n)] /\ db' = [db EXCEPT ![t] = Row(st, n)]
        /\ due' = [due EXCEPT ![t] = FALSE]
    BY DEF Save
  <1>5. TaskTyped'
    BY <1>1, <1>2, <1>4 DEF TaskTyped
  <1>6. RowInv'
    BY <1>3, <1>4 DEF RowInv, TaskTyped
  <1> QED  BY <1>4, <1>5, <1>6 DEF TaskTyped

\* upsertTask() of a terminal row and delete() from the map.
LEMMA FinishEffect ==
  ASSUME TaskTyped, RowInv, NEW t \in Tasks, NEW st \in Terminal, NEW n \in 0..MaxAttempts,
         Finish(t, Row(st, n))
  PROVE  /\ TaskTyped' /\ RowInv'
         /\ mem'[t] = Absent /\ db'[t] = Row(st, n)
         /\ \A u \in Tasks \ {t} : mem'[u] = mem[u] /\ db'[u] = db[u]
  <1>2. Row(st, n) \in Rows
    BY DEF Row, Rows, Statuses
  <1>3. Row(st, n).status = st /\ Row(st, n).attempts = n /\ st # "absent" /\ st \notin Live
    BY DEF Row, Live, Terminal
  <1>4. /\ mem' = [mem EXCEPT ![t] = Absent] /\ db' = [db EXCEPT ![t] = Row(st, n)]
        /\ due' = [due EXCEPT ![t] = FALSE]
    BY DEF Finish
  <1>5. TaskTyped'
    BY <1>2, <1>4 DEF TaskTyped
  <1>6. RowInv'
    BY <1>3, <1>4 DEF RowInv, TaskTyped
  <1> QED  BY <1>4, <1>5, <1>6 DEF TaskTyped

\* A step that leaves the runs, the slots and the process alone.
LEMMA QuietFrame ==
  ASSUME IInv, UNCHANGED <<lockVars, slotVars, ticking, recovered>>
  PROVE  /\ LineInv' /\ SlotInv' /\ LifeInv' /\ SlotTyped' /\ LockTyped'
         /\ \A q \in Runs : Same(q)
         /\ \A t \in Tasks : Watchers(t)' = Watchers(t)
         /\ \A t \in Tasks : (Works(t)' <=> Works(t)) /\ (Queues(t)' <=> Queues(t))
  <1>1. UNCHANGED <<phase, timedOut, line, active, limit, waiting>>
    BY DEF lockVars, slotVars
  <1>2. \A q \in Runs : Same(q)
    BY <1>1 DEF Same
  <1>3. LineInv' /\ LifeInv'
    BY <1>1, <1>2, LineFrame, LifeFrame DEF IInv, LifeInv
  <1>4. SlotInv'
    BY <1>1 DEF IInv, SlotInv
  <1>5. SlotTyped' /\ LockTyped'
    BY <1>1, TypeParts DEF IInv, SlotTyped, LockTyped
  <1>6. \A t \in Tasks : Watchers(t)' = Watchers(t)
    BY <1>1 DEF Watchers
  <1>7. \A t \in Tasks : (Works(t)' <=> Works(t)) /\ (Queues(t)' <=> Queues(t))
    BY <1>1, <1>6 DEF Works, Queues
  <1> QED  BY <1>2, <1>3, <1>4, <1>5, <1>6, <1>7

\* schedule()
LEMMA ScheduleStep == \A t \in Tasks : IInv /\ Schedule(t) => IInv'
  <1> SUFFICES ASSUME NEW t \in Tasks, IInv, Schedule(t)  PROVE IInv'
    OBVIOUS
  <1>1. /\ UNCHANGED <<lockVars, slotVars, ticking, recovered>>
        /\ UNCHANGED <<starts, lost, turns, halts, recovered>>
    BY DEF Schedule, ghostVars, lifeVars
  <1>2. /\ TaskTyped' /\ RowInv'
        /\ mem'[t] = Row("pending", 0) /\ db'[t] = Row("pending", 0)
        /\ \A u \in Tasks \ {t} : mem'[u] = mem[u] /\ db'[u] = db[u]
    BY SaveEffect, TypeParts DEF IInv, Schedule, Live
  <1>3. TypeOK'
    BY <1>1, <1>2, QuietFrame, TypeParts, TypePartsNext DEF IInv, LifeTyped, GhostTyped
  <1>4. \A u \in Tasks \ {t} : TaskInv(u)'
    BY <1>1, <1>2, QuietFrame, TaskFrame DEF IInv
  <1>5. TaskInv(t)'
    <2>1. db[t].status = "absent" /\ TaskInv(t) /\ t \in Tasks
      BY DEF Schedule, Absent, Row, IInv
    <2>2. Watchers(t)' = {} /\ ~Works(t)'
      BY <1>1, <2>1, QuietFrame DEF TaskInv, WatchInv, Works
    <2>3. mem'[t].status = "pending" /\ db'[t].attempts = 0 /\ db'[t].status = "pending"
      BY <1>2 DEF Row
    <2>4. starts'[t] = 0 /\ lost'[t] = 0
      BY <1>1, <2>1 DEF TaskInv, CountInv
    <2>5. mem'[t] # Absent
      BY <2>3 DEF Absent, Row
    <2>6. AgreeInv(t)' /\ WatchInv(t)' /\ CountInv(t)'
      BY <1>2, <2>2, <2>3, <2>4, <2>5 DEF AgreeInv, WatchInv, CountInv, Live
    <2> QED  BY <2>6 DEF TaskInv
  <1> QED  BY <1>1, <1>2, <1>3, <1>4, <1>5, QuietFrame DEF IInv

\* A task becomes due.
LEMMA ElapseStep == \A t \in Tasks : IInv /\ Elapse(t) => IInv'
  <1> SUFFICES ASSUME NEW t \in Tasks, IInv, Elapse(t)  PROVE IInv'
    OBVIOUS
  <1>1. /\ UNCHANGED <<lockVars, slotVars, ticking, recovered>>
        /\ UNCHANGED <<starts, lost, turns, halts, recovered, mem, db>>
        /\ due' = [due EXCEPT ![t] = TRUE]
    BY DEF Elapse, ghostVars, lifeVars
  <1>2. TaskTyped' /\ RowInv'
    BY <1>1, TypeParts DEF IInv, TaskTyped, RowInv
  <1>3. TypeOK'
    BY <1>1, <1>2, QuietFrame, TypeParts, TypePartsNext DEF IInv, LifeTyped, GhostTyped
  <1>4. \A u \in Tasks : TaskInv(u)'
    BY <1>1, QuietFrame, TaskFrame DEF IInv
  <1> QED  BY <1>1, <1>2, <1>3, <1>4, QuietFrame DEF IInv

\* cancelScheduled()
LEMMA CancelStep == \A t \in Tasks : IInv /\ Cancel(t) => IInv'
  <1> SUFFICES ASSUME NEW t \in Tasks, IInv, Cancel(t)  PROVE IInv'
    OBVIOUS
  <1>0. TypeOK /\ RowInv /\ TaskInv(t)
    BY DEF IInv
  <1>1. /\ UNCHANGED <<lockVars, slotVars, ticking, recovered>>
        /\ UNCHANGED <<starts, lost, turns, halts, recovered>>
    BY DEF Cancel, ghostVars, lifeVars
  <1>2. db[t].status \in Live /\ Finish(t, [db[t] EXCEPT !.status = "cancelled"])
    BY <1>0 DEF Cancel, TaskInv, AgreeInv
  <1>3. /\ [db[t] EXCEPT !.status = "cancelled"] = Row("cancelled", db[t].attempts)
        /\ db[t].attempts \in 0..(MaxAttempts - 1)
    <2>1. db[t] \in Rows /\ "cancelled" \in Statuses
      BY <1>0 DEF TypeOK, Statuses, Terminal
    <2>2. db[t].attempts \in 0..(MaxAttempts - 1)
      BY <1>0, <1>2, DbFacts
    <2> QED  BY <2>1, <2>2, Restated
  <1>4. /\ TaskTyped' /\ RowInv'
        /\ mem'[t] = Absent /\ db'[t] = Row("cancelled", db[t].attempts)
        /\ \A u \in Tasks \ {t} : mem'[u] = mem[u] /\ db'[u] = db[u]
    BY <1>0, <1>2, <1>3, FinishEffect, TypeParts DEF Terminal
  <1>5. TypeOK'
    BY <1>0, <1>1, <1>4, QuietFrame, TypeParts, TypePartsNext DEF LifeTyped, GhostTyped
  <1>6. \A u \in Tasks \ {t} : TaskInv(u)'
    BY <1>1, <1>4, QuietFrame, TaskFrame DEF IInv
  <1>7. TaskInv(t)'
    <2>1. mem'[t].status = "absent" /\ db'[t].status = "cancelled"
      BY <1>4 DEF Absent, Row
    <2>2. starts[t] \in Nat /\ lost[t] \in Nat
      BY <1>0 DEF TypeOK
    <2>3. Works(t) => ~Queues(t)
      BY <1>0 DEF TaskInv, WatchInv, Works, Queues
    <2>4. CountInv(t)'
      <3>1. /\ Works(t) => starts[t] = db[t].attempts + lost[t] + 1
            /\ ~Works(t) => starts[t] = db[t].attempts + lost[t]
        BY <1>0, <1>2 DEF TaskInv, CountInv
      <3>2. starts[t] <= MaxAttempts + lost[t] /\ (Queues(t) => starts[t] < MaxAttempts + lost[t])
        BY <1>3, <2>2, <2>3, <3>1
      <3>3. starts'[t] = starts[t] /\ lost'[t] = lost[t] /\ (Queues(t)' <=> Queues(t))
        BY <1>1, QuietFrame
      <3> QED  BY <2>1, <3>2, <3>3 DEF CountInv, Live
    <2>5. AgreeInv(t)'
      BY <1>4, <2>1 DEF AgreeInv, Live
    <2>6. WatchInv(t)'
      BY <1>0, <1>1, <2>1, QuietFrame DEF TaskInv, WatchInv
    <2> QED  BY <2>4, <2>5, <2>6 DEF TaskInv
  <1> QED  BY <1>1, <1>4, <1>5, <1>6, <1>7, QuietFrame DEF IInv

-----------------------------------------------------------------------------
(* Steps on the slots.                                                     *)

\* A step on the slots alone, in which no run changes its place.
LEMMA MoveFrame ==
  ASSUME IInv, UNCHANGED <<mem, db, due, timedOut, line, starts, lost, ticking, recovered>>,
         \A q \in Runs : Same(q),
         SlotTyped', SlotInv', phase' \in [Users -> Phases],
         turns' \in 0..MaxTurns, halts' = halts
  PROVE  IInv'
  <1>1. LineInv' /\ LifeInv'
    BY LineFrame, LifeFrame DEF IInv, LifeInv
  <1>2. RowInv'
    BY DEF IInv, RowInv
  <1>3. TypeOK'
    BY TypeParts, TypePartsNext DEF IInv, TaskTyped, LockTyped, LifeTyped, GhostTyped
  <1>4. \A t \in Tasks : TaskInv(t)'
    BY TaskFrame DEF IInv
  <1> QED  BY <1>1, <1>2, <1>3, <1>4 DEF IInv

\* An executor hangs.
LEMMA HangStep == \A u \in Users : IInv /\ Hang(u) => IInv'
  <1> SUFFICES ASSUME NEW u \in Users, IInv, Hang(u)  PROVE IInv'
    OBVIOUS
  <1>1. /\ UNCHANGED <<mem, db, due, timedOut, line, active, limit, waiting, starts, lost>>
        /\ UNCHANGED <<ticking, recovered, turns, halts>>
        /\ phase[u] = "working" /\ phase' = [phase EXCEPT ![u] = "hung"]
    BY DEF Hang, taskVars, slotVars, ghostVars, lifeVars
  <1>2. SlotTyped /\ LockTyped /\ SlotInv /\ LifeTyped
    BY TypeParts DEF IInv
  <1>3. phase' \in [Users -> Phases]
    BY <1>1, <1>2 DEF LockTyped, Phases
  <1>4. \A q \in Runs : Same(q)
    BY <1>1, <1>2, RunFacts DEF Same, LockTyped
  <1>5. SlotTyped' /\ SlotInv'
    BY <1>1, <1>2 DEF SlotTyped, SlotInv, LockTyped
  <1> QED  BY <1>1, <1>2, <1>3, <1>4, <1>5, MoveFrame DEF LifeTyped

\* An interactive turn begins and ends.
LEMMA TurnStep == IInv /\ (TurnBegin \/ TurnEnd) => IInv'
  <1> SUFFICES ASSUME IInv, TurnBegin \/ TurnEnd  PROVE IInv'
    OBVIOUS
  <1>1. SlotTyped /\ LockTyped /\ SlotInv /\ LifeTyped /\ Interactive \in Users
    BY TypeParts DEF IInv, Users
  <1>2. CASE TurnBegin
    <2>1. /\ UNCHANGED <<mem, db, due, timedOut, line, starts, lost, ticking, recovered>>
          /\ phase[Interactive] = "free" /\ Acquire(Interactive)
          /\ turns < MaxTurns /\ turns' = turns + 1 /\ halts' = halts
      BY <1>2 DEF TurnBegin, taskVars, ghostVars
    <2>2. /\ SlotTyped' /\ SlotInv' /\ phase' \in [Users -> Phases]
          /\ phase' = [phase EXCEPT ![Interactive] = phase'[Interactive]]
      BY <1>1, <2>1, AcquireEffect DEF LockTyped
    <2>3. \A q \in Runs : Same(q)
      BY <1>1, <2>1, <2>2, RunFacts DEF Same, LockTyped
    <2>4. turns' \in 0..MaxTurns
      BY <1>1, <2>1 DEF LifeTyped
    <2> QED  BY <2>1, <2>2, <2>3, <2>4, MoveFrame
  <1>3. CASE TurnEnd
    <2>1. /\ UNCHANGED <<mem, db, due, timedOut, line, starts, lost, ticking, recovered>>
          /\ UNCHANGED <<turns, halts>>
          /\ phase[Interactive] = "working" /\ Release(Interactive)
      BY <1>3 DEF TurnEnd, taskVars, ghostVars, lifeVars
    <2>2. /\ SlotTyped' /\ SlotInv' /\ phase' \in [Users -> Phases]
          /\ \A v \in Users \ {Interactive} : \/ phase'[v] = phase[v]
                                              \/ phase[v] = "slot" /\ phase'[v] = "working"
      BY <1>1, <2>1, ReleaseEffect DEF LockTyped
    <2>3. \A q \in Runs : Same(q)
      BY <2>1, <2>2, RunFacts DEF Same
    <2> QED  BY <1>1, <2>1, <2>2, <2>3, MoveFrame DEF LifeTyped
  <1> QED  BY <1>2, <1>3

\* setMaxConcurrent()
LEMMA LimitStep == \A n \in Limits : IInv /\ SetMaxConcurrent(n) => IInv'
  <1> SUFFICES ASSUME NEW n \in Limits, IInv, SetMaxConcurrent(n)  PROVE IInv'
    OBVIOUS
  <1>1. SlotTyped /\ LockTyped /\ SlotInv /\ LifeTyped
    BY TypeParts DEF IInv
  <1>2. /\ UNCHANGED <<mem, db, due, timedOut, line, starts, lost, ticking, recovered>>
        /\ UNCHANGED <<turns, halts>>
        /\ \/ TryFulfillWaiting(active, n, phase)
           \/ limit' = n /\ UNCHANGED <<active, waiting, phase>>
    BY DEF SetMaxConcurrent, taskVars, ghostVars, lifeVars
  <1>3. /\ SlotTyped' /\ SlotInv' /\ phase' \in [Users -> Phases]
        /\ \A u \in Users : \/ phase'[u] = phase[u]
                            \/ phase[u] = "slot" /\ phase'[u] = "working"
    <2>1. CASE TryFulfillWaiting(active, n, phase)
      <3>1. active \in Nat /\ phase \in [Users -> Phases]
        BY <1>1 DEF SlotTyped, LockTyped
      <3>2. \A i \in DOMAIN waiting : phase[waiting[i]] = "slot"
        BY <1>1 DEF SlotInv
      <3> QED  BY <1>1, <2>1, <3>1, <3>2, GrantEffect
    <2>2. CASE limit' = n /\ UNCHANGED <<active, waiting, phase>>
      BY <1>1, <2>2 DEF SlotTyped, SlotInv, LockTyped
    <2> QED  BY <1>2, <2>1, <2>2
  <1>4. \A q \in Runs : Same(q)
    BY <1>2, <1>3, RunFacts DEF Same
  <1> QED  BY <1>1, <1>2, <1>3, <1>4, MoveFrame DEF LifeTyped

-----------------------------------------------------------------------------
(* The runs.                                                               *)

\* The run that watches a task of the map is alone in that.
LEMMA SoleWatcher ==
  ASSUME IInv, NEW r \in Runs, phase[r] # "free", ~timedOut[r], mem[TaskOf(r)] # Absent
  PROVE  mem[TaskOf(r)].status = "running" /\ Watchers(TaskOf(r)) = {r}
  <1> DEFINE t == TaskOf(r)
  <1>1. t \in Tasks /\ TypeOK /\ TaskInv(t)
    BY RunFacts DEF IInv
  <1>2. r \in Watchers(t)
    BY DEF Watchers
  <1>3. mem[t].status \in {"pending", "running"}
    BY <1>1, MemFacts DEF Live
  <1>4. mem[t].status # "pending"
    BY <1>1, <1>2 DEF TaskInv, WatchInv
  <1>5. Watchers(t) = {r}
    BY <1>1, <1>2 DEF TaskInv, WatchInv
  <1> QED  BY <1>3, <1>4, <1>5

\* The end of a task that was running, recorded by its only watcher.
LEMMA MarkEffect ==
  ASSUME IInv, NEW t \in Tasks, mem[t].status = "running", Works(t), Watchers(t)' = {},
         recovered' = recovered,
         MarkScheduledSuccess(t) \/ MarkScheduledFailure(t)
  PROVE  /\ TaskTyped' /\ RowInv' /\ GhostTyped' /\ TaskInv(t)'
         /\ \A u \in Tasks \ {t} : /\ mem'[u] = mem[u] /\ db'[u] = db[u]
                                   /\ starts'[u] = starts[u] /\ lost'[u] = lost[u]
  <1> DEFINE n == mem[t].attempts
  <1>1. TaskTyped /\ RowInv /\ GhostTyped /\ TypeOK
    BY TypeParts DEF IInv
  <1>2. n \in 0..(MaxAttempts - 1) /\ MaxAttempts \in Nat /\ mem[t] \in Rows /\ mem[t] # Absent
    BY <1>1, MemFacts DEF Live
  <1>3. starts[t] = n + lost[t] + 1 /\ starts[t] \in Nat /\ lost[t] \in Nat
    <2>1. TaskInv(t) /\ mem[t] = db[t]
      BY <1>2 DEF IInv, TaskInv, AgreeInv
    <2> QED  BY <1>1, <2>1 DEF TaskInv, CountInv, Live, GhostTyped
  <1>4. ~Works(t)' /\ ~Queues(t)'
    BY DEF Works, Queues
  <1> HIDE DEF n
  <1>5. ASSUME NEW k \in 0..(MaxAttempts - 1), Save(t, Row("pending", k)),
               GhostTyped', starts'[t] = k + lost'[t],
               \A u \in Tasks \ {t} : starts'[u] = starts[u] /\ lost'[u] = lost[u]
        PROVE  /\ TaskTyped' /\ RowInv' /\ GhostTyped' /\ TaskInv(t)'
               /\ \A u \in Tasks \ {t} : /\ mem'[u] = mem[u] /\ db'[u] = db[u]
                                         /\ starts'[u] = starts[u] /\ lost'[u] = lost[u]
    <2>1. /\ TaskTyped' /\ RowInv'
          /\ mem'[t] = Row("pending", k) /\ db'[t] = Row("pending", k)
          /\ \A u \in Tasks \ {t} : mem'[u] = mem[u] /\ db'[u] = db[u]
      BY <1>1, <1>5, SaveEffect DEF Live
    <2>2. mem'[t].status = "pending" /\ db'[t].status = "pending" /\ db'[t].attempts = k
      BY <2>1 DEF Row
    <2>3. mem'[t] # Absent
      BY <2>2 DEF Absent, Row
    <2>4. TaskInv(t)'
      BY <1>4, <1>5, <2>1, <2>2, <2>3 DEF TaskInv, AgreeInv, WatchInv, CountInv, Live
    <2> QED  BY <1>5, <2>1, <2>4
  <1>6. ASSUME NEW st \in {"completed", "dead_letter"}, NEW k \in 0..MaxAttempts,
               Finish(t, Row(st, k)), UNCHANGED ghostVars,
               st = "dead_letter" => starts[t] = MaxAttempts + lost[t]
        PROVE  /\ TaskTyped' /\ RowInv' /\ GhostTyped' /\ TaskInv(t)'
               /\ \A u \in Tasks \ {t} : /\ mem'[u] = mem[u] /\ db'[u] = db[u]
                                         /\ starts'[u] = starts[u] /\ lost'[u] = lost[u]
    <2>1. /\ TaskTyped' /\ RowInv'
          /\ mem'[t] = Absent /\ db'[t] = Row(st, k)
          /\ \A u \in Tasks \ {t} : mem'[u] = mem[u] /\ db'[u] = db[u]
      BY <1>1, <1>6, FinishEffect DEF Terminal
    <2>2. mem'[t].status = "absent" /\ db'[t].status = st
      BY <2>1 DEF Row, Absent
    <2>3. UNCHANGED <<starts, lost>> /\ GhostTyped'
      BY <1>1, <1>6 DEF ghostVars, GhostTyped
    <2>4. starts'[t] <= MaxAttempts + lost'[t]
      BY <1>2, <1>3, <2>3
    <2>5. TaskInv(t)'
      BY <1>4, <1>6, <2>1, <2>2, <2>3, <2>4 DEF TaskInv, AgreeInv, WatchInv, CountInv, Live
    <2> QED  BY <2>1, <2>3, <2>5
  <1>7. CASE MarkScheduledSuccess(t) /\ t \in Cron
    <2>1. /\ Save(t, Row("pending", 0))
          /\ starts' = [starts EXCEPT ![t] = 0] /\ lost' = [lost EXCEPT ![t] = 0]
      BY <1>7 DEF MarkScheduledSuccess
    <2>2. /\ GhostTyped' /\ starts'[t] = 0 + lost'[t]
          /\ \A u \in Tasks \ {t} : starts'[u] = starts[u] /\ lost'[u] = lost[u]
      BY <1>1, <2>1 DEF GhostTyped
    <2>3. 0 \in 0..(MaxAttempts - 1)
      BY <1>2
    <2> QED  BY <1>5, <2>1, <2>2, <2>3
  <1>8. CASE MarkScheduledSuccess(t) /\ t \notin Cron
    <2>1. Finish(t, [mem[t] EXCEPT !.status = "completed"]) /\ UNCHANGED ghostVars
      BY <1>8 DEF MarkScheduledSuccess
    <2>2. [mem[t] EXCEPT !.status = "completed"] = Row("completed", n)
      BY <1>2, Restated DEF n, Statuses, Terminal
    <2>3. n \in 0..MaxAttempts
      BY <1>2
    <2> QED  BY <1>6, <2>1, <2>2, <2>3
  <1>9. CASE MarkScheduledFailure(t)
    <2>1. /\ IF n + 1 < MaxAttempts THEN Save(t, Row("pending", n + 1))
                                    ELSE Finish(t, Row("dead_letter", n + 1))
          /\ UNCHANGED ghostVars
      BY <1>9 DEF MarkScheduledFailure, n
    <2>2. CASE n + 1 < MaxAttempts
      <3>1. /\ GhostTyped' /\ starts'[t] = (n + 1) + lost'[t]
            /\ \A u \in Tasks \ {t} : starts'[u] = starts[u] /\ lost'[u] = lost[u]
        BY <1>1, <1>2, <1>3, <2>1 DEF GhostTyped, ghostVars
      <3>2. n + 1 \in 0..(MaxAttempts - 1)
        BY <1>2, <2>2
      <3> QED  BY <1>5, <2>1, <2>2, <3>1, <3>2
    <2>3. CASE ~(n + 1 < MaxAttempts)
      <3>1. n + 1 = MaxAttempts /\ n + 1 \in 0..MaxAttempts /\ starts[t] = MaxAttempts + lost[t]
        BY <1>2, <1>3, <2>3
      <3>2. Finish(t, Row("dead_letter", n + 1)) /\ UNCHANGED ghostVars
        BY <2>1, <2>3
      <3> HIDE DEF n
      <3> QED  BY <1>6, <3>1, <3>2
    <2> QED  BY <2>2, <2>3
  <1> QED  BY <1>7, <1>8, <1>9

\* `consume` settles: the run leaves the front of its session's line.
LEMMA LeaveEffect ==
  ASSUME IInv, NEW r \in Runs, LeaveLock(r)
  PROVE  /\ phase[r] \in {"working", "refused"}
         /\ SlotTyped' /\ SlotInv' /\ LockTyped' /\ LineInv'
         /\ phase'[r] = "free"
         /\ \A q \in Runs \ {r} : Same(q)
  <1> DEFINE s == SessionOf[TaskOf(r)]
  <1>1. SlotTyped /\ LockTyped /\ SlotInv /\ LineInv /\ r \in Users /\ s \in Sessions
    BY TypeParts, RunFacts DEF IInv
  <1>2. /\ phase[r] \in {"working", "refused"} /\ SlotTyped' /\ SlotInv'
        /\ phase' \in [Users -> Phases] /\ phase'[r] = "free"
        /\ \A v \in Users \ {r} : \/ phase'[v] = phase[v]
                                  \/ phase[v] = "slot" /\ phase'[v] = "working"
    <2>1. CASE phase[r] = "working" /\ Release(r)
      BY <1>1, <2>1, ReleaseEffect DEF LockTyped
    <2>2. CASE phase[r] = "refused" /\ phase' = [phase EXCEPT ![r] = "free"] /\ UNCHANGED slotVars
      <3>1. UNCHANGED <<active, limit, waiting>>
        BY <2>2 DEF slotVars
      <3>2. SlotTyped' /\ SlotInv'
        BY <1>1, <2>2, <3>1 DEF SlotTyped, SlotInv, LockTyped
      <3> QED  BY <1>1, <2>2, <3>2 DEF LockTyped, Phases
    <2> QED  BY <2>1, <2>2 DEF LeaveLock
  <1>3. timedOut' = [timedOut EXCEPT ![r] = FALSE]
    BY DEF LeaveLock
  <1>4. \A q \in Runs \ {r} : Same(q)
    BY <1>1, <1>2, <1>3, RunFacts DEF Same, LockTyped
  <1>5. /\ line[s] \in Seq(Runs) /\ line[s] # <<>> /\ Head(line[s]) = r
        /\ line' = [line EXCEPT ![s] = Tail(line[s])]
    <2>1. In(line[s], r) /\ Begun(r) /\ Line(r)[1] = r
      BY <1>1, <1>2 DEF LineInv, Begun
    <2>2. line[s] \in Seq(Runs) /\ line[s] # <<>> /\ Head(line[s]) = r
      BY <1>1, <2>1, EmptyIn DEF LockTyped, Line
    <2>3. line' = [line EXCEPT ![s] = IF line[s] = <<>> THEN line[s] ELSE Tail(line[s])]
      BY <1>1 DEF LeaveLock, Unlock, LockTyped
    <2> QED  BY <2>2, <2>3
  <1>6. /\ Tail(line[s]) \in Seq(Runs)
        /\ \A q \in Runs : /\ In(line[s], q) <=> (q = r \/ In(Tail(line[s]), q))
                           /\ Once(line[s], q) => Once(Tail(line[s]), q)
                           /\ Once(line[s], q) /\ q = r => ~In(Tail(line[s]), q)
    BY <1>5, TailIn
  <1>7. LockTyped'
    BY <1>1, <1>2, <1>3, <1>5, <1>6 DEF LockTyped
  <1>8. line'[s] = Tail(line[s]) /\ \A z \in Sessions \ {s} : line'[z] = line[z]
    BY <1>1, <1>5 DEF LockTyped
  <1> HIDE DEF s
  <1>9. ASSUME NEW z \in Sessions, NEW q \in Runs
        PROVE  /\ In(line'[z], q) <=> SessionOf[TaskOf(q)] = z /\ phase'[q] # "free"
               /\ Once(line'[z], q)
    <2>1. /\ In(line[z], q) <=> SessionOf[TaskOf(q)] = z /\ phase[q] # "free"
          /\ Once(line[z], q)
      BY <1>1 DEF LineInv
    <2>2. CASE z # s
      <3>1. q = r => SessionOf[TaskOf(q)] # z
        BY <2>2 DEF s
      <3> QED  BY <1>4, <1>8, <2>1, <2>2, <3>1 DEF Same
    <2>3. CASE z = s /\ q = r
      BY <1>2, <1>6, <1>8, <2>1, <2>3
    <2>4. CASE z = s /\ q # r
      BY <1>4, <1>6, <1>8, <2>1, <2>4 DEF Same
    <2> QED  BY <2>2, <2>3, <2>4
  <1>10. ASSUME NEW q \in Runs
         PROVE  (Begun(q)' => Line(q)'[1] = q) /\ (timedOut'[q] => Begun(q)')
    <2>1. CASE q = r
      BY <1>1, <1>2, <1>3, <2>1 DEF Begun, LockTyped
    <2>2. CASE q # r
      <3>1. (Begun(q)' <=> Begun(q)) /\ timedOut'[q] = timedOut[q]
        BY <1>4, <2>2 DEF Same, Begun
      <3>2. Begun(q) => Line(q)[1] = q
        BY <1>1 DEF LineInv
      <3>3. Begun(q) => SessionOf[TaskOf(q)] # s
        BY <1>5, <2>2, <3>2 DEF Line
      <3>4. Begun(q) => Line(q)' = Line(q)
        BY <1>8, <3>3, RunFacts DEF Line
      <3> QED  BY <1>1, <3>1, <3>2, <3>4 DEF LineInv
    <2> QED  BY <2>1, <2>2
  <1>11. LineInv'
    BY <1>9, <1>10 DEF LineInv
  <1> QED  BY <1>2, <1>4, <1>7, <1>11

\* A run that ends and is not the one that records the end of its task.
LEMMA OrphanLeaves ==
  ASSUME IInv, NEW r \in Runs, LeaveLock(r), ~StillOwner(r),
         UNCHANGED <<mem, db, due, starts, lost, recovered>>
  PROVE  TaskInv(TaskOf(r))'
  <1> DEFINE t == TaskOf(r)
  <1>1. t \in Tasks /\ TaskInv(t) /\ TypeOK
    BY RunFacts DEF IInv
  <1>2. phase'[r] = "free" /\ \A q \in Runs \ {r} : Same(q)
    BY LeaveEffect
  <1>3. Watchers(t)' = Watchers(t) \ {r}
    BY <1>2 DEF Watchers, Same
  <1>4. \A q \in Watchers(t)' : phase'[q] = "line" <=> phase[q] = "line"
    BY <1>2, <1>3 DEF Watchers, Same
  <1>5. CASE timedOut[r]
    <2>1. Watchers(t)' = Watchers(t)
      BY <1>3, <1>5 DEF Watchers
    <2>2. (Works(t)' <=> Works(t)) /\ (Queues(t)' <=> Queues(t))
      BY <1>4, <2>1 DEF Works, Queues
    <2> QED  BY <1>1, <2>1, <2>2 DEF TaskInv, AgreeInv, WatchInv, CountInv
  <1>6. CASE mem[t] = Absent
    <2>1. recovered /\ db[t].status \notin Live
      <3>1. phase[r] # "free"
        BY LeaveEffect
      <3> QED  BY <1>1, <1>6, <3>1 DEF IInv, LifeInv, TaskInv, AgreeInv
    <2>2. mem[t].status = "absent"
      BY <1>6 DEF Absent, Row
    <2>3. Queues(t)' => Queues(t)
      BY <1>3, <1>4 DEF Queues
    <2>4. AgreeInv(t)' /\ CountInv(t)'
      BY <1>1, <2>1, <2>3 DEF TaskInv, AgreeInv, CountInv
    <2>5. WatchInv(t)'
      BY <1>1, <1>3, <2>2 DEF TaskInv, WatchInv
    <2> QED  BY <2>4, <2>5 DEF TaskInv
  <1> QED  BY <1>5, <1>6 DEF StillOwner

\* The executor ends.
LEMMA SettleStep == \A r \in Runs : IInv /\ Settle(r) => IInv'
  <1> SUFFICES ASSUME NEW r \in Runs, IInv, Settle(r)  PROVE IInv'
    OBVIOUS
  <1> DEFINE t == TaskOf(r)
  <1>1. /\ LeaveLock(r) /\ UNCHANGED <<ticking, recovered, turns, halts>>
        /\ IF StillOwner(r) THEN MarkScheduledSuccess(t) \/ MarkScheduledFailure(t)
                            ELSE UNCHANGED <<mem, db, due, starts, lost>>
    BY DEF Settle, lifeVars, taskVars, ghostVars
  <1>2. t \in Tasks /\ TypeOK /\ TaskTyped /\ GhostTyped /\ LifeTyped /\ RowInv /\ LifeInv
    BY RunFacts, TypeParts DEF IInv
  <1>3. /\ phase[r] \in {"working", "refused"}
        /\ SlotTyped' /\ SlotInv' /\ LockTyped' /\ LineInv'
        /\ phase'[r] = "free"
        /\ \A q \in Runs \ {r} : Same(q)
    BY <1>1, LeaveEffect
  <1>4. LifeInv' /\ LifeTyped'
    BY <1>1, <1>2, <1>3 DEF LifeInv, LifeTyped, Same
  <1>5. /\ TaskTyped' /\ RowInv' /\ GhostTyped' /\ TaskInv(t)'
        /\ \A u \in Tasks \ {t} : /\ mem'[u] = mem[u] /\ db'[u] = db[u]
                                  /\ starts'[u] = starts[u] /\ lost'[u] = lost[u]
    <2>1. CASE StillOwner(r)
      <3>1. mem[t].status = "running" /\ Watchers(t) = {r}
        BY <1>3, <2>1, SoleWatcher DEF StillOwner
      <3>2. Works(t)
        BY <1>3, <3>1 DEF Works
      <3>3. Watchers(t)' = {}
        <4>1. \A q \in Runs : TaskOf(q) = t /\ q # r => phase[q] = "free" \/ timedOut[q]
          BY <3>1 DEF Watchers
        <4> QED  BY <1>3, <4>1 DEF Watchers, Same
      <3> QED  BY <1>1, <1>2, <2>1, <3>1, <3>2, <3>3, MarkEffect
    <2>2. CASE ~StillOwner(r)
      <3>1. UNCHANGED <<mem, db, due, starts, lost>>
        BY <1>1, <2>2
      <3>2. TaskInv(t)'
        BY <1>1, <2>2, <3>1, OrphanLeaves
      <3> QED  BY <1>2, <3>1, <3>2 DEF TaskTyped, GhostTyped, RowInv
    <2> QED  BY <2>1, <2>2
  <1>6. \A u \in Tasks \ {t} : TaskInv(u)'
    BY <1>1, <1>3, <1>5, TaskFrame DEF IInv
  <1> QED  BY <1>3, <1>4, <1>5, <1>6, TypePartsNext DEF IInv

\* The timeout fires.
LEMMA TimeoutStep == \A r \in Runs : IInv /\ Timeout(r) => IInv'
  <1> SUFFICES ASSUME NEW r \in Runs, IInv, Timeout(r)  PROVE IInv'
    OBVIOUS
  <1> DEFINE t == TaskOf(r)
  <1>1. /\ phase[r] \in {"slot", "working", "hung"} /\ ~timedOut[r]
        /\ timedOut' = [timedOut EXCEPT ![r] = TRUE]
        /\ IF mem[t] # Absent THEN MarkScheduledFailure(t)
                              ELSE UNCHANGED <<mem, db, due, starts, lost>>
        /\ UNCHANGED <<phase, line, active, limit, waiting, ticking, recovered, turns, halts>>
    BY DEF Timeout, lifeVars, taskVars, ghostVars, slotVars
  <1>2. /\ t \in Tasks /\ TypeOK /\ TaskTyped /\ GhostTyped /\ LifeTyped /\ LockTyped
        /\ SlotTyped /\ RowInv /\ LifeInv /\ LineInv /\ SlotInv /\ TaskInv(t)
    BY RunFacts, TypeParts DEF IInv
  <1>3. timedOut'[r] /\ \A q \in Runs \ {r} : Same(q)
    BY <1>1, <1>2 DEF LockTyped, Same
  <1>4. LifeInv' /\ LifeTyped' /\ SlotTyped' /\ SlotInv' /\ LockTyped'
    BY <1>1, <1>2 DEF LifeInv, LifeTyped, SlotTyped, SlotInv, LockTyped
  <1>5. LineInv'
    BY <1>1, <1>2, <1>3 DEF LineInv, Begun, Line, Same
  <1>6. Watchers(t)' = Watchers(t) \ {r}
    BY <1>3 DEF Watchers, Same
  <1>7. /\ TaskTyped' /\ RowInv' /\ GhostTyped' /\ TaskInv(t)'
        /\ \A u \in Tasks \ {t} : /\ mem'[u] = mem[u] /\ db'[u] = db[u]
                                  /\ starts'[u] = starts[u] /\ lost'[u] = lost[u]
    <2>1. CASE mem[t] # Absent
      <3>1. mem[t].status = "running" /\ Watchers(t) = {r}
        BY <1>1, <2>1, SoleWatcher
      <3>2. Works(t) /\ Watchers(t)' = {}
        BY <1>1, <1>6, <3>1 DEF Works
      <3> QED  BY <1>1, <1>2, <2>1, <3>1, <3>2, MarkEffect
    <2>2. CASE mem[t] = Absent
      <3>1. UNCHANGED <<mem, db, due, starts, lost>>
        BY <1>1, <2>2
      <3>2. recovered /\ db[t].status \notin Live
        BY <1>1, <1>2, <2>2 DEF LifeInv, TaskInv, AgreeInv
      <3>3. mem[t].status = "absent"
        BY <2>2 DEF Absent, Row
      <3>4. Queues(t)' => Queues(t)
        BY <1>1, <1>6 DEF Queues
      <3>5. AgreeInv(t)' /\ CountInv(t)'
        BY <1>1, <1>2, <3>1, <3>2, <3>4 DEF TaskInv, AgreeInv, CountInv
      <3>6. WatchInv(t)'
        BY <1>2, <1>6, <3>1, <3>3 DEF TaskInv, WatchInv
      <3> QED  BY <1>2, <3>1, <3>5, <3>6 DEF TaskInv, TaskTyped, GhostTyped, RowInv
    <2> QED  BY <2>1, <2>2
  <1>8. \A u \in Tasks \ {t} : TaskInv(u)'
    BY <1>1, <1>3, <1>7, TaskFrame DEF IInv
  <1> QED  BY <1>4, <1>5, <1>7, <1>8, TypePartsNext DEF IInv

\* The lock is granted and the executor starts.
LEMMA BeginStep == \A r \in Runs : IInv /\ Begin(r) => IInv'
  <1> SUFFICES ASSUME NEW r \in Runs, IInv, Begin(r)  PROVE IInv'
    OBVIOUS
  <1> DEFINE t == TaskOf(r)
  <1>1. /\ phase[r] = "line" /\ Line(r)[1] = r
        /\ starts' = [starts EXCEPT ![t] = @ + 1]
        /\ Acquire(r) \/ (phase' = [phase EXCEPT ![r] = "refused"] /\ UNCHANGED slotVars)
        /\ UNCHANGED <<mem, db, due, timedOut, line, lost, ticking, recovered, turns, halts>>
    BY DEF Begin, taskVars, lifeVars
  <1>2. /\ t \in Tasks /\ TypeOK /\ TaskTyped /\ GhostTyped /\ LifeTyped /\ LockTyped
        /\ SlotTyped /\ RowInv /\ LifeInv /\ LineInv /\ SlotInv /\ TaskInv(t) /\ r \in Users
    BY RunFacts, TypeParts DEF IInv
  <1>3. /\ SlotTyped' /\ SlotInv' /\ phase' \in [Users -> Phases]
        /\ phase' = [phase EXCEPT ![r] = phase'[r]] /\ phase'[r] \in {"working", "slot", "refused"}
    <2>1. CASE Acquire(r)
      BY <1>1, <1>2, <2>1, AcquireEffect DEF LockTyped
    <2>2. CASE phase' = [phase EXCEPT ![r] = "refused"] /\ UNCHANGED slotVars
      <3>1. UNCHANGED <<active, limit, waiting>>
        BY <2>2 DEF slotVars
      <3>2. SlotTyped' /\ SlotInv'
        BY <1>1, <1>2, <2>2, <3>1 DEF SlotTyped, SlotInv, LockTyped
      <3> QED  BY <1>2, <2>2, <3>2 DEF LockTyped, Phases
    <2> QED  BY <1>1, <2>1, <2>2
  <1>4. \A q \in Runs \ {r} : Same(q)
    BY <1>1, <1>2, <1>3, RunFacts DEF Same, LockTyped
  <1>5. LifeInv' /\ LifeTyped' /\ LockTyped'
    BY <1>1, <1>2, <1>3, <1>4 DEF LifeInv, LifeTyped, LockTyped, Same
  <1>6. LineInv'
    BY <1>1, <1>2, <1>3, <1>4 DEF LineInv, Begun, Line, Same
  <1>7. TaskTyped' /\ RowInv' /\ GhostTyped'
    BY <1>1, <1>2 DEF TaskTyped, RowInv, GhostTyped
  <1>8. TaskInv(t)'
    <2>1. ~timedOut[r] /\ r \in Watchers(t)
      BY <1>1, <1>2 DEF LineInv, Begun, Watchers
    <2>2. Watchers(t)' = Watchers(t) /\ Watchers(t) = {r}
      BY <1>1, <1>2, <1>3, <1>4, <2>1 DEF Watchers, Same, TaskInv, WatchInv
    <2>3. Works(t)' /\ ~Queues(t)' /\ ~Works(t) /\ Queues(t)
      BY <1>1, <1>3, <2>2 DEF Works, Queues
    <2>4. starts'[t] = starts[t] + 1 /\ lost'[t] = lost[t] /\ starts[t] \in Nat /\ lost[t] \in Nat
      BY <1>1, <1>2 DEF GhostTyped
    <2>5. AgreeInv(t)' /\ WatchInv(t)'
      BY <1>1, <1>2, <2>2 DEF TaskInv, AgreeInv, WatchInv
    <2>6. db[t].status \in Statuses /\ db[t].attempts \in 0..MaxAttempts
      BY <1>2, DbFacts
    <2>7. db[t].status \notin {"absent", "completed", "dead_letter"}
      BY <1>2, <2>2 DEF TaskInv, WatchInv
    <2>8. CASE db[t].status \in Live
      <3>1. starts[t] = db[t].attempts + lost[t]
        BY <1>2, <2>3, <2>8 DEF TaskInv, CountInv
      <3>2. starts'[t] = db[t].attempts + lost[t] + 1
        BY <2>4, <2>6, <3>1
      <3>3. CountInv(t)'
        BY <1>1, <2>3, <2>4, <2>8, <3>2 DEF CountInv, Live
      <3> QED  BY <2>5, <3>3 DEF TaskInv
    <2>9. CASE db[t].status = "cancelled"
      <3>1. starts[t] < MaxAttempts + lost[t]
        BY <1>2, <2>3, <2>9 DEF TaskInv, CountInv
      <3>2. starts'[t] <= MaxAttempts + lost[t]
        BY <2>4, <3>1
      <3>3. CountInv(t)'
        BY <1>1, <2>3, <2>4, <2>9, <3>2 DEF CountInv, Live
      <3> QED  BY <2>5, <3>3 DEF TaskInv
    <2> QED  BY <2>6, <2>7, <2>8, <2>9 DEF Statuses, Terminal
  <1>9. \A u \in Tasks \ {t} : TaskInv(u)'
    <2>1. \A u \in Tasks \ {t} : starts'[u] = starts[u]
      BY <1>1, <1>2 DEF GhostTyped
    <2> QED  BY <1>1, <1>4, <2>1, TaskFrame DEF IInv
  <1> QED  BY <1>3, <1>5, <1>6, <1>7, <1>8, <1>9, TypePartsNext DEF IInv

\* There are finitely many runs.
LEMMA RunsFinite == IsFiniteSet(Runs)
  <1>1. IsFiniteSet({1, 2})
    <2>1. IsFiniteSet({}) /\ IsFiniteSet({} \cup {1})
      BY FS_EmptySet, FS_AddElement
    <2>2. IsFiniteSet(({} \cup {1}) \cup {2})
      BY <2>1, FS_AddElement
    <2>3. ({} \cup {1}) \cup {2} = {1, 2}
      OBVIOUS
    <2> QED  BY <2>2, <2>3
  <1> QED  BY <1>1, FS_Product, TasksAssumption DEF Runs

\* The runs of one pass enter the line of a session in some order, each once.
LEMMA OrderFacts ==
  ASSUME NEW S \in SUBSET Runs, IsFiniteSet(S), NEW f \in Orders(S)
  PROVE  f \in Seq(Runs) /\ \A x : (In(f, x) <=> x \in S) /\ Once(f, x)
  <1>1. Cardinality(S) \in Nat
    BY FS_CardinalityType
  <1>2. /\ f \in [1..Cardinality(S) -> S]
        /\ \A i, j \in 1..Cardinality(S) : f[i] = f[j] => i = j
        /\ \A x \in S : \E i \in 1..Cardinality(S) : f[i] = x
    BY DEF Orders, Bijection, Injection, Surjection, IsInjective
  <1>3. f \in [1..Cardinality(S) -> Runs]
    BY <1>2
  <1>4. f \in Seq(Runs)
    BY <1>1, <1>3
  <1>5. DOMAIN f = 1..Cardinality(S)
    BY <1>2
  <1>6. \A x : (In(f, x) <=> x \in S) /\ Once(f, x)
    BY <1>2, <1>5 DEF In, Once
  <1> QED  BY <1>4, <1>6

\* A pending task has a run to start: the other one can only be abandoned.
LEMMA FreshFacts ==
  ASSUME IInv, NEW t \in Tasks, mem[t].status = "pending"
  PROVE  /\ Fresh(t) \in Runs /\ TaskOf(Fresh(t)) = t
         /\ phase[Fresh(t)] = "free" /\ ~timedOut[Fresh(t)]
  <1>1. LineInv /\ LockTyped /\ Watchers(t) = {}
    BY TypeParts DEF IInv, TaskInv, WatchInv
  <1>2. ASSUME NEW r \in Runs, TaskOf(r) = t, phase[r] # "free"
        PROVE  line[SessionOf[t]][1] = r
    <2>1. timedOut[r]
      BY <1>1, <1>2 DEF Watchers
    <2> QED  BY <1>1, <1>2, <2>1 DEF LineInv, Line
  <1>3. Fresh(t) \in Runs /\ TaskOf(Fresh(t)) = t
    BY RunFacts DEF Fresh
  <1>4. phase[Fresh(t)] = "free"
    BY <1>2, RunFacts DEF Fresh
  <1> QED  BY <1>1, <1>3, <1>4 DEF LineInv, Begun

\* _processPendingTasks()
LEMMA TickStep == IInv /\ Tick => IInv'
  <1> SUFFICES ASSUME IInv, Tick  PROVE IInv'
    OBVIOUS
  <1> DEFINE ready == {t \in Tasks : mem[t].status = "pending" /\ due[t]}
             new == {Fresh(t) : t \in ready}
             At(s) == {r \in new : SessionOf[TaskOf(r)] = s}
             run(row) == [row EXCEPT !.status = "running"]
  <1>1. /\ ticking
        /\ mem' = [t \in Tasks |-> IF t \in ready THEN run(mem[t]) ELSE mem[t]]
        /\ db' = [t \in Tasks |-> IF t \in ready THEN run(mem[t]) ELSE db[t]]
        /\ due' = [t \in Tasks |-> due[t] /\ t \notin ready]
        /\ phase' = [u \in Users |-> IF u \in new THEN "line" ELSE phase[u]]
        /\ UNCHANGED <<timedOut, active, limit, waiting, starts, lost>>
        /\ UNCHANGED <<ticking, recovered, turns, halts>>
    BY DEF Tick, slotVars, ghostVars, lifeVars
  <1>2. PICK order : /\ \A s \in Sessions : order[s] \in Orders(At(s))
                     /\ line' = [s \in Sessions |-> line[s] \o order[s]]
    BY DEF Tick
  <1>3. /\ TypeOK /\ TaskTyped /\ GhostTyped /\ LifeTyped /\ LockTyped
        /\ SlotTyped /\ RowInv /\ LifeInv /\ LineInv /\ SlotInv
    BY TypeParts DEF IInv
  <1>4. /\ \A t \in ready : /\ t \in Tasks /\ mem[t].status = "pending" /\ Fresh(t) \in new
                            /\ TaskOf(Fresh(t)) = t
        /\ \A q \in new : /\ q \in Runs /\ phase[q] = "free" /\ ~timedOut[q]
                          /\ TaskOf(q) \in ready /\ q = Fresh(TaskOf(q))
    BY FreshFacts
  <1>5. \A s \in Sessions : IsFiniteSet(At(s)) /\ At(s) \in SUBSET Runs
    BY <1>4, RunsFinite, FS_Subset
  <1>6. \A s \in Sessions : /\ order[s] \in Seq(Runs)
                            /\ \A x : (In(order[s], x) <=> x \in At(s)) /\ Once(order[s], x)
    <2> HIDE DEF At
    <2> QED  BY <1>2, <1>5, OrderFacts
  <1>7. /\ \A q \in new : phase'[q] = "line"
        /\ \A q \in Users \ new : phase'[q] = phase[q]
    BY <1>1, <1>4, RunFacts
  <1> HIDE DEF new, ready
  <1>8. LineInv' /\ LockTyped'
    <2>1. \A s \in Sessions : line[s] \in Seq(Runs) /\ line'[s] = line[s] \o order[s]
      BY <1>2, <1>3 DEF LockTyped
    <2>2. LockTyped'
      <3>1. \A s \in Sessions : line[s] \o order[s] \in Seq(Runs)
        BY <1>6, <2>1, ConcatIn
      <3>2. phase' \in [Users -> Phases]
        BY <1>1, <1>3 DEF LockTyped, Phases
      <3> QED  BY <1>1, <1>2, <1>3, <3>1, <3>2 DEF LockTyped
    <2>3. ASSUME NEW s \in Sessions, NEW r \in Runs
          PROVE  /\ In(line'[s], r) <=> SessionOf[TaskOf(r)] = s /\ phase'[r] # "free"
                 /\ Once(line'[s], r)
      <3>1. /\ In(line[s], r) <=> SessionOf[TaskOf(r)] = s /\ phase[r] # "free"
            /\ Once(line[s], r)
        BY <1>3 DEF LineInv
      <3>2. /\ In(order[s], r) <=> r \in new /\ SessionOf[TaskOf(r)] = s
            /\ Once(order[s], r)
        BY <1>6
      <3>3. ~(In(line[s], r) /\ In(order[s], r))
        BY <1>4, <3>1, <3>2
      <3>4. /\ In(line'[s], r) <=> In(line[s], r) \/ In(order[s], r)
            /\ Once(line'[s], r)
        <4>1. line[s] \in Seq(Runs) /\ order[s] \in Seq(Runs)
          BY <1>6, <2>1
        <4>2. /\ In(line[s] \o order[s], r) <=> In(line[s], r) \/ In(order[s], r)
              /\ Once(line[s] \o order[s], r)
          BY <3>1, <3>2, <3>3, <4>1, ConcatIn
        <4> QED  BY <2>1, <4>2
      <3>5. phase'[r] # "free" <=> phase[r] # "free" \/ r \in new
        BY <1>7, RunFacts
      <3> QED  BY <3>1, <3>2, <3>4, <3>5
    <2>4. ASSUME NEW r \in Runs
          PROVE  (Begun(r)' => Line(r)'[1] = r) /\ (timedOut'[r] => Begun(r)')
      <3>1. CASE r \in new
        BY <1>1, <1>4, <1>7, <3>1 DEF Begun
      <3>2. CASE r \notin new
        <4>1. phase'[r] = phase[r] /\ timedOut'[r] = timedOut[r]
          BY <1>1, <1>7, <3>2, RunFacts
        <4>2. SessionOf[TaskOf(r)] \in Sessions
          BY RunFacts
        <4>3. Begun(r) => In(Line(r), r) /\ Line(r)[1] = r
          BY <1>3, <4>2 DEF LineInv, Begun, Line
        <4>4. Begun(r) => Line(r)'[1] = Line(r)[1]
          <5>1. Begun(r) => Len(Line(r)) >= 1
            BY <2>1, <4>2, <4>3 DEF In, Line
          <5>2. Line(r)' = Line(r) \o order[SessionOf[TaskOf(r)]]
            BY <2>1, <4>2 DEF Line
          <5>3. Line(r) \in Seq(Runs) /\ order[SessionOf[TaskOf(r)]] \in Seq(Runs)
            BY <1>6, <2>1, <4>2 DEF Line
          <5> QED  BY <5>1, <5>2, <5>3
        <4> QED  BY <1>3, <4>1, <4>3, <4>4 DEF LineInv, Begun
      <3> QED  BY <3>1, <3>2
    <2> QED  BY <2>2, <2>3, <2>4 DEF LineInv
  <1>9. SlotInv' /\ SlotTyped'
    <2>1. \A i \in DOMAIN waiting : waiting[i] \in Users \ new
      BY <1>3, <1>4 DEF SlotTyped, SlotInv
    <2> QED  BY <1>1, <1>3, <1>7, <2>1 DEF SlotTyped, SlotInv
  <1>10. LifeInv' /\ LifeTyped' /\ GhostTyped'
    BY <1>1, <1>3 DEF LifeInv, LifeTyped, GhostTyped
  <1>11. \A t \in ready : /\ run(mem[t]) = Row("running", mem[t].attempts)
                          /\ mem[t].attempts \in 0..(MaxAttempts - 1)
    BY <1>3, <1>4, MemFacts, Restated DEF Statuses, Live
  <1>12. \A t \in ready : /\ run(mem[t]) \in Rows
                          /\ run(mem[t]) \in [status : Live, attempts : 0..(MaxAttempts - 1)]
                          /\ run(mem[t]).status = "running"
                          /\ run(mem[t]).attempts = mem[t].attempts
    <2> HIDE DEF run
    <2>1. ASSUME NEW n \in 0..(MaxAttempts - 1)
          PROVE  /\ Row("running", n) \in Rows
                 /\ Row("running", n) \in [status : Live, attempts : 0..(MaxAttempts - 1)]
                 /\ Row("running", n).status = "running" /\ Row("running", n).attempts = n
      BY DEF Row, Rows, Statuses, Live
    <2> QED  BY <1>11, <2>1
  <1> HIDE DEF run
  <1>13. TaskTyped' /\ RowInv'
    <2>1. TaskTyped'
      BY <1>1, <1>3, <1>12 DEF TaskTyped
    <2>2. ASSUME NEW t \in Tasks
          PROVE  /\ db'[t].status = "absent" => db'[t] = Absent
                 /\ db'[t].status \in Live => db'[t].attempts < MaxAttempts
      BY <1>1, <1>3, <1>11, <1>12 DEF RowInv
    <2> QED  BY <2>1, <2>2 DEF RowInv
  <1>14. ASSUME NEW t \in Tasks, t \notin ready
         PROVE  TaskInv(t)'
    <2>1. \A q \in Runs : TaskOf(q) = t => Same(q)
      BY <1>1, <1>4, <1>7, <1>14, RunFacts DEF Same
    <2> QED  BY <1>1, <1>14, <2>1, TaskFrame DEF IInv
  <1>15. ASSUME NEW t \in Tasks, t \in ready
         PROVE  TaskInv(t)'
    <2>1. TaskInv(t) /\ mem[t].status = "pending" /\ mem[t] = db[t] /\ Watchers(t) = {}
      <3>1. TaskInv(t) /\ mem[t].status = "pending"
        BY <1>4, <1>15 DEF IInv
      <3>2. mem[t] # Absent
        BY <3>1 DEF Absent, Row
      <3> QED  BY <3>1, <3>2 DEF TaskInv, AgreeInv, WatchInv
    <2>2. mem'[t] = run(mem[t]) /\ db'[t] = run(mem[t])
      BY <1>1, <1>15
    <2>3. mem'[t].status = "running" /\ db'[t].status = "running" /\ mem'[t] # Absent
          /\ db'[t].attempts = db[t].attempts
      BY <1>12, <1>15, <2>1, <2>2 DEF Absent, Row
    <2>4. Watchers(t)' = {Fresh(t)}
      <3>1. \A q \in Runs : TaskOf(q) = t /\ q \notin new => phase'[q] = "free" \/ timedOut'[q]
        BY <1>1, <1>7, <2>1, RunFacts DEF Watchers
      <3>2. Fresh(t) \in new /\ \A q \in new : TaskOf(q) = t => q = Fresh(t)
        BY <1>4, <1>15
      <3>3. Fresh(t) \in Runs /\ TaskOf(Fresh(t)) = t /\ phase'[Fresh(t)] = "line"
            /\ ~timedOut'[Fresh(t)]
        BY <1>1, <1>4, <1>7, <1>15, <3>2
      <3> QED  BY <3>1, <3>2, <3>3 DEF Watchers
    <2>5. ~Works(t)' /\ ~Works(t)
      BY <1>4, <1>7, <1>15, <2>1, <2>4 DEF Works
    <2>6. starts[t] = db[t].attempts + lost[t]
      BY <2>1, <2>5 DEF TaskInv, CountInv, Live
    <2>7. CountInv(t)'
      BY <1>1, <2>3, <2>5, <2>6 DEF CountInv, Live
    <2>8. AgreeInv(t)' /\ WatchInv(t)'
      BY <2>2, <2>3, <2>4 DEF AgreeInv, WatchInv
    <2> QED  BY <2>7, <2>8 DEF TaskInv
  <1>16. TypeOK'
    BY <1>8, <1>9, <1>10, <1>13, TypePartsNext
  <1> QED  BY <1>8, <1>9, <1>10, <1>13, <1>14, <1>15, <1>16 DEF IInv

-----------------------------------------------------------------------------
(* The process.                                                            *)

\* start() with the recovery.
LEMMA StartStep == IInv /\ Start => IInv'
  <1> SUFFICES ASSUME IInv, Start  PROVE IInv'
    OBVIOUS
  <1>1. /\ ~ticking /\ ticking' = TRUE
        /\ UNCHANGED <<phase, timedOut, line, active, limit, waiting, starts, lost, turns, halts>>
        /\ IF recovered THEN UNCHANGED <<mem, db, due, recovered>> ELSE RecoverPersistedTasks
    BY DEF Start, lockVars, slotVars, ghostVars
  <1>2. /\ TypeOK /\ TaskTyped /\ GhostTyped /\ LifeTyped /\ LockTyped
        /\ SlotTyped /\ RowInv /\ LifeInv /\ LineInv /\ SlotInv
    BY TypeParts DEF IInv
  <1>3. \A q \in Runs : Same(q)
    BY <1>1 DEF Same
  <1>4. LineInv' /\ LockTyped' /\ SlotTyped' /\ SlotInv' /\ GhostTyped'
    BY <1>1, <1>2, <1>3, LineFrame DEF LockTyped, SlotTyped, SlotInv, GhostTyped
  <1>5. CASE recovered
    <2>1. UNCHANGED <<mem, db, due, recovered>>
      BY <1>1, <1>5
    <2>2. TaskTyped' /\ RowInv' /\ LifeInv' /\ LifeTyped'
      BY <1>1, <1>2, <1>5, <2>1 DEF TaskTyped, RowInv, LifeInv, LifeTyped
    <2>3. \A t \in Tasks : TaskInv(t)'
      BY <1>1, <1>3, <2>1, TaskFrame DEF IInv
    <2> QED  BY <1>4, <2>2, <2>3, TypePartsNext DEF IInv
  <1>6. CASE ~recovered
    <2>1. /\ recovered' = TRUE /\ due' = due
          /\ db' = [t \in Tasks |-> IF db[t].status = "running"
                                      THEN [db[t] EXCEPT !.status = "pending"] ELSE db[t]]
          /\ mem' = [t \in Tasks |-> IF db[t].status \in Live THEN db'[t] ELSE mem[t]]
      BY <1>1, <1>6 DEF RecoverPersistedTasks
    <2>2. LifeInv' /\ LifeTyped'
      BY <1>1, <1>2, <2>1 DEF LifeInv, LifeTyped
    <2>3. ASSUME NEW t \in Tasks
          PROVE  /\ db[t].status \in Live => /\ db'[t] = Row("pending", db[t].attempts)
                                             /\ mem'[t] = Row("pending", db[t].attempts)
                                             /\ db[t].attempts \in 0..(MaxAttempts - 1)
                 /\ db[t].status \notin Live => db'[t] = db[t] /\ mem'[t] = Absent
      <3>1. /\ db[t] \in Rows /\ "pending" \in Statuses
            /\ db[t] = Row(db[t].status, db[t].attempts)
            /\ db[t].status \in Live => db[t].attempts \in 0..(MaxAttempts - 1)
        BY <1>2, DbFacts DEF TaskTyped, Statuses, Live
      <3>2. db[t].status = "running" => db'[t] = Row("pending", db[t].attempts)
        BY <2>1, <3>1, Restated
      <3>3. db[t].status = "pending" => db'[t] = Row("pending", db[t].attempts)
        BY <2>1, <3>1
      <3>4. db[t].status \notin Live => db'[t] = db[t] /\ mem'[t] = mem[t]
        BY <2>1 DEF Live
      <3>5. db[t].status \in Live => mem'[t] = db'[t]
        BY <2>1
      <3>6. db[t].status \notin Live => mem[t] = Absent
        <4>1. mem[t] # Absent => mem[t] = db[t] /\ mem[t].status \in Live
          BY <1>2, MemFacts DEF IInv, TaskInv, AgreeInv
        <4> QED  BY <4>1
      <3> QED  BY <3>1, <3>2, <3>3, <3>4, <3>5, <3>6 DEF Live
    <2>4. \A k \in 0..(MaxAttempts - 1) :
            /\ Row("pending", k) \in Rows
            /\ Row("pending", k) \in [status : Live, attempts : 0..(MaxAttempts - 1)]
            /\ Row("pending", k).status = "pending" /\ Row("pending", k).attempts = k
            /\ Row("pending", k) # Absent
      BY DEF Row, Rows, Statuses, Live, Absent
    <2>5. TaskTyped'
      <3>1. \A t \in Tasks : db'[t] \in Rows /\ mem'[t] \in {Absent} \cup [status : Live, attempts : 0..(MaxAttempts - 1)]
        BY <1>2, <2>3, <2>4 DEF TaskTyped
      <3>2. db' \in [Tasks -> Rows]
        BY <2>1, <3>1
      <3>3. mem' \in [Tasks -> {Absent} \cup [status : Live, attempts : 0..(MaxAttempts - 1)]]
        BY <2>1, <3>1
      <3> QED  BY <1>2, <2>1, <3>2, <3>3 DEF TaskTyped
    <2>6. RowInv'
      <3>1. ASSUME NEW t \in Tasks
            PROVE  /\ db'[t].status = "absent" => db'[t] = Absent
                   /\ db'[t].status \in Live => db'[t].attempts < MaxAttempts
        BY <1>2, <2>3, <2>4 DEF RowInv
      <3> QED  BY <3>1 DEF RowInv
    <2>7. ASSUME NEW t \in Tasks
          PROVE  TaskInv(t)'
      <3>1. /\ Watchers(t) = {} /\ Watchers(t)' = {} /\ TaskInv(t)
        BY <1>1, <1>2, <1>6 DEF LifeInv, Watchers, IInv
      <3>2. ~Works(t) /\ ~Works(t)' /\ ~Queues(t)'
        BY <3>1 DEF Works, Queues
      <3>3. CASE db[t].status \in Live
        <4>1. /\ db'[t].status = "pending" /\ mem'[t] = db'[t] /\ mem'[t] # Absent
              /\ db'[t].attempts = db[t].attempts
          BY <2>3, <2>4, <3>3
        <4>2. starts[t] = db[t].attempts + lost[t]
          BY <3>1, <3>2, <3>3 DEF TaskInv, CountInv
        <4> QED  BY <1>1, <3>1, <3>2, <4>1, <4>2
                 DEF TaskInv, AgreeInv, WatchInv, CountInv, Live
      <3>4. CASE db[t].status \notin Live
        <4>1. db'[t] = db[t] /\ mem'[t] = Absent /\ Absent.status = "absent"
          BY <2>3, <3>4 DEF Absent, Row
        <4>2. CountInv(t)'
          BY <1>1, <3>1, <3>2, <3>4, <4>1 DEF TaskInv, CountInv
        <4>3. AgreeInv(t)' /\ WatchInv(t)'
          BY <3>1, <3>4, <4>1 DEF AgreeInv, WatchInv
        <4> QED  BY <4>2, <4>3 DEF TaskInv
      <3> QED  BY <3>3, <3>4
    <2> QED  BY <1>4, <2>2, <2>5, <2>6, <2>7, TypePartsNext DEF IInv
  <1> QED  BY <1>5, <1>6

\* stop()
LEMMA StopStep == IInv /\ Stop => IInv'
  <1> SUFFICES ASSUME IInv, Stop  PROVE IInv'
    OBVIOUS
  <1>1. /\ halts < MaxHalts /\ halts' = halts + 1 /\ ticking' = FALSE
        /\ UNCHANGED <<mem, db, due, recovered, phase, timedOut, line, active, limit, waiting>>
        /\ UNCHANGED <<starts, lost, turns>>
    BY DEF Stop, taskVars, lockVars, slotVars, ghostVars
  <1>2. /\ TypeOK /\ TaskTyped /\ GhostTyped /\ LifeTyped /\ LockTyped
        /\ SlotTyped /\ RowInv /\ LifeInv /\ LineInv /\ SlotInv
    BY TypeParts DEF IInv
  <1>3. \A q \in Runs : Same(q)
    BY <1>1 DEF Same
  <1>4. LineInv' /\ LifeInv' /\ SlotInv' /\ RowInv'
    BY <1>1, <1>2, <1>3, LineFrame, LifeFrame DEF SlotInv, RowInv
  <1>5. LifeTyped'
    <2>1. ticking' \in BOOLEAN /\ recovered' \in BOOLEAN
      BY <1>1, <1>2 DEF LifeTyped
    <2>2. turns' \in 0..MaxTurns /\ halts' \in 0..MaxHalts
      BY <1>1, <1>2 DEF LifeTyped
    <2> QED  BY <2>1, <2>2 DEF LifeTyped
  <1>6. TypeOK'
    BY <1>1, <1>2, <1>5, TypePartsNext DEF TaskTyped, GhostTyped, LockTyped, SlotTyped
  <1>7. \A t \in Tasks : TaskInv(t)'
    BY <1>1, <1>3, TaskFrame DEF IInv
  <1> QED  BY <1>4, <1>6, <1>7 DEF IInv

\* A process without runs: before the first start, and after a crash.
LEMMA FreshProcess ==
  ASSUME phase = [u \in Users |-> "free"], timedOut = [r \in Runs |-> FALSE],
         line = [s \in Sessions |-> <<>>], active = 0, waiting = <<>>, limit \in Limits,
         ticking = FALSE, recovered = FALSE
  PROVE  /\ LineInv /\ SlotInv /\ LifeInv /\ LockTyped /\ SlotTyped
         /\ \A t \in Tasks : Watchers(t) = {} /\ ~Works(t) /\ ~Queues(t)
  <1>1. \A r \in Runs : phase[r] = "free" /\ ~timedOut[r]
    BY RunFacts
  <1>2. LineInv
    BY <1>1, EmptyIn DEF LineInv, Begun
  <1>3. SlotInv /\ LifeInv /\ LockTyped /\ SlotTyped
    BY <1>1 DEF SlotInv, LifeInv, LockTyped, SlotTyped, Phases
  <1>4. \A t \in Tasks : Watchers(t) = {} /\ ~Works(t) /\ ~Queues(t)
    BY <1>1 DEF Watchers, Works, Queues
  <1> QED  BY <1>2, <1>3, <1>4

\* The same in the next state.
LEMMA FreshProcessNext ==
  ASSUME phase' = [u \in Users |-> "free"], timedOut' = [r \in Runs |-> FALSE],
         line' = [s \in Sessions |-> <<>>], active' = 0, waiting' = <<>>, limit' \in Limits,
         ticking' = FALSE, recovered' = FALSE
  PROVE  /\ LineInv' /\ SlotInv' /\ LifeInv' /\ LockTyped' /\ SlotTyped'
         /\ \A t \in Tasks : Watchers(t)' = {} /\ ~Works(t)' /\ ~Queues(t)'
  <1>1. \A r \in Runs : phase'[r] = "free" /\ ~timedOut'[r]
    BY RunFacts
  <1>2. LineInv'
    BY <1>1, EmptyIn DEF LineInv, Begun
  <1>3. SlotInv' /\ LifeInv' /\ LockTyped' /\ SlotTyped'
    BY <1>1 DEF SlotInv, LifeInv, LockTyped, SlotTyped, Phases
  <1>4. \A t \in Tasks : Watchers(t)' = {} /\ ~Works(t)' /\ ~Queues(t)'
    BY <1>1 DEF Watchers, Works, Queues
  <1> QED  BY <1>2, <1>3, <1>4

\* The process dies.
LEMMA CrashStep == IInv /\ Crash => IInv'
  <1> SUFFICES ASSUME IInv, Crash  PROVE IInv'
    OBVIOUS
  <1>1. /\ halts < MaxHalts /\ halts' = halts + 1
        /\ mem' = [t \in Tasks |-> Absent]
        /\ lost' = [t \in Tasks |-> IF \E r \in Watchers(t) : Begun(r) THEN lost[t] + 1 ELSE lost[t]]
        /\ ticking' = FALSE /\ recovered' = FALSE
        /\ UNCHANGED <<db, due, starts, turns>>
    BY DEF Crash
  <1>2. /\ LineInv' /\ SlotInv' /\ LifeInv' /\ LockTyped' /\ SlotTyped'
        /\ \A t \in Tasks : Watchers(t)' = {} /\ ~Works(t)' /\ ~Queues(t)'
    BY FreshProcessNext DEF Crash
  <1>3. TypeOK /\ TaskTyped /\ GhostTyped /\ LifeTyped /\ RowInv
    BY TypeParts DEF IInv
  <1>4. TaskTyped' /\ GhostTyped' /\ LifeTyped' /\ RowInv'
    <2>1. TaskTyped'
      BY <1>1, <1>3 DEF TaskTyped
    <2>2. \A t \in Tasks : (IF \E r \in Watchers(t) : Begun(r) THEN lost[t] + 1 ELSE lost[t]) \in Nat
      BY <1>3 DEF GhostTyped
    <2>3. lost' \in [Tasks -> Nat]
      BY <1>1, <2>2
    <2>4. GhostTyped'
      BY <1>1, <1>3, <2>3 DEF GhostTyped
    <2>5. LifeTyped'
      <3>1. ticking' \in BOOLEAN /\ recovered' \in BOOLEAN
        BY <1>1
      <3>2. turns' \in 0..MaxTurns /\ halts' \in 0..MaxHalts
        BY <1>1, <1>3 DEF LifeTyped
      <3> QED  BY <3>1, <3>2 DEF LifeTyped
    <2>6. RowInv'
      BY <1>1, <1>3 DEF RowInv
    <2> QED  BY <2>1, <2>4, <2>5, <2>6
  <1>5. ASSUME NEW t \in Tasks
        PROVE  TaskInv(t)'
    <2>1. /\ TaskInv(t) /\ mem'[t] = Absent /\ Absent.status = "absent" /\ db'[t] = db[t]
          /\ starts'[t] = starts[t] /\ starts[t] \in Nat /\ lost[t] \in Nat
          /\ db[t].status \in Statuses /\ db[t].attempts \in 0..MaxAttempts
      BY <1>1, <1>3, DbFacts DEF IInv, Absent, Row, GhostTyped
    <2>2. Works(t) <=> \E r \in Watchers(t) : Begun(r)
      BY DEF Works, Begun, Watchers
    <2>3. lost'[t] = IF Works(t) THEN lost[t] + 1 ELSE lost[t]
      BY <1>1, <2>2
    <2>4. Watchers(t)' = {} /\ ~Works(t)' /\ ~Queues(t)'
      BY <1>2
    <2>5. AgreeInv(t)' /\ WatchInv(t)'
      BY <1>1, <2>1, <2>4 DEF AgreeInv, WatchInv
    <2>6. CASE db[t].status \in Live
      <3>1. starts[t] = IF Works(t) THEN db[t].attempts + lost[t] + 1 ELSE db[t].attempts + lost[t]
        BY <2>1, <2>6 DEF TaskInv, CountInv
      <3>2. starts'[t] = db[t].attempts + lost'[t]
        BY <2>1, <2>3, <3>1
      <3>3. CountInv(t)'
        BY <2>1, <2>4, <2>6, <3>2 DEF CountInv, Live
      <3> QED  BY <2>5, <3>3 DEF TaskInv
    <2>7. CASE db[t].status \in {"absent", "completed", "dead_letter"}
      <3>1. ~Works(t)
        BY <2>1, <2>7 DEF TaskInv, WatchInv, Works
      <3>2. lost'[t] = lost[t]
        BY <2>3, <3>1
      <3>3. CountInv(t)'
        BY <2>1, <2>4, <2>7, <3>2 DEF TaskInv, CountInv, Live
      <3> QED  BY <2>5, <3>3 DEF TaskInv
    <2>8. CASE db[t].status = "cancelled"
      <3>1. starts[t] <= MaxAttempts + lost'[t]
        BY <2>1, <2>3, <2>8 DEF TaskInv, CountInv
      <3>2. CountInv(t)'
        BY <2>1, <2>4, <2>8, <3>1 DEF CountInv, Live
      <3> QED  BY <2>5, <3>2 DEF TaskInv
    <2> QED  BY <2>1, <2>6, <2>7, <2>8 DEF Statuses, Terminal
  <1> QED  BY <1>2, <1>4, <1>5, TypePartsNext DEF IInv

\* The first process.
LEMMA InitIInv == Init => IInv
  <1> SUFFICES ASSUME Init  PROVE IInv
    OBVIOUS
  <1>1. /\ LineInv /\ SlotInv /\ LifeInv /\ LockTyped /\ SlotTyped
        /\ \A t \in Tasks : Watchers(t) = {} /\ ~Works(t) /\ ~Queues(t)
    BY FreshProcess DEF Init
  <1>2. Absent \in Rows /\ Absent.status = "absent"
    BY DEF Absent, Row, Rows, Statuses
  <1>3. TaskTyped /\ GhostTyped /\ LifeTyped /\ RowInv
    <2>1. TaskTyped
      BY <1>2 DEF Init, TaskTyped
    <2>2. GhostTyped
      BY DEF Init, GhostTyped
    <2>3. LifeTyped
      <3>1. ticking \in BOOLEAN /\ recovered \in BOOLEAN
        BY DEF Init
      <3>2. turns \in 0..MaxTurns /\ halts \in 0..MaxHalts
        <4>1. turns = 0 /\ halts = 0
          BY DEF Init
        <4> QED  BY <4>1
      <3> QED  BY <3>1, <3>2 DEF LifeTyped
    <2>4. RowInv
      BY <1>2 DEF Init, RowInv, Live
    <2> QED  BY <2>1, <2>2, <2>3, <2>4
  <1>4. \A t \in Tasks : TaskInv(t)
    BY <1>1, <1>2 DEF Init, TaskInv, AgreeInv, WatchInv, CountInv, Live
  <1> QED  BY <1>1, <1>3, <1>4, TypeParts DEF IInv

-----------------------------------------------------------------------------
(* The theorems.                                                           *)

\* Every step keeps the invariant.
LEMMA NextIInv == IInv /\ [Next]_vars => IInv'
  <1> SUFFICES ASSUME IInv, [Next]_vars  PROVE IInv'
    OBVIOUS
  <1>1. CASE \E t \in Tasks : Schedule(t) \/ Elapse(t) \/ Cancel(t)
    BY <1>1, ScheduleStep, ElapseStep, CancelStep
  <1>2. CASE Tick
    BY <1>2, TickStep
  <1>3. CASE \E r \in Runs : Begin(r) \/ Settle(r) \/ Timeout(r)
    BY <1>3, BeginStep, SettleStep, TimeoutStep
  <1>4. CASE \E u \in Users : Hang(u)
    BY <1>4, HangStep
  <1>5. CASE TurnBegin \/ TurnEnd
    BY <1>5, TurnStep
  <1>6. CASE \E n \in Limits : SetMaxConcurrent(n)
    BY <1>6, LimitStep
  <1>7. CASE Start \/ Stop \/ Crash
    BY <1>7, StartStep, StopStep, CrashStep
  <1>8. CASE UNCHANGED vars
    <2>1. UNCHANGED <<lockVars, slotVars, ticking, recovered>>
      BY <1>8 DEF vars, lockVars, slotVars
    <2>2. UNCHANGED <<mem, db, due, ticking, recovered, starts, lost, turns, halts>>
      BY <1>8 DEF vars
    <2>3. /\ LineInv' /\ SlotInv' /\ LifeInv' /\ SlotTyped' /\ LockTyped'
          /\ \A q \in Runs : Same(q)
      BY <2>1, QuietFrame
    <2>4. TaskTyped' /\ GhostTyped' /\ LifeTyped' /\ RowInv'
      BY <2>2, TypeParts DEF IInv, TaskTyped, GhostTyped, LifeTyped, RowInv
    <2>5. \A t \in Tasks : TaskInv(t)'
      BY <2>2, <2>3, TaskFrame DEF IInv
    <2> QED  BY <2>3, <2>4, <2>5, TypePartsNext DEF IInv
  <1> QED  BY <1>1, <1>2, <1>3, <1>4, <1>5, <1>6, <1>7, <1>8 DEF Next

\* The invariant holds in every reachable state.
LEMMA SpecIInv == Spec => []IInv
  <1> QED  BY InitIInv, NextIInv, PTL DEF Spec

\* The fields of the scheduler, the table and the concurrency manager keep
\* their types, and a task in the map can always fail once more.
THEOREM SchedulerTyped == Spec => []TypeOK
  <1>1. IInv => TypeOK
    BY DEF IInv
  <1> QED  BY <1>1, SpecIInv, PTL

\* scheduler.ts writes every change of a task to the map and the table in the
\* same step: a crash at any moment loses no live task.
THEOREM MapAndTableAgree == Spec => []StoreAgrees
  <1>1. IInv => StoreAgrees
    BY DEF IInv, TaskInv, AgreeInv, StoreAgrees
  <1> QED  BY <1>1, SpecIInv, PTL

\* _runScheduledTask(): however timeouts, retries and abandoned runs follow one
\* another, one run records the end of a running task.
THEOREM RunningTasksWatched == Spec => []RunningIsWatched
  <1>1. ASSUME IInv, NEW t \in Tasks
        PROVE  /\ mem[t].status = "running" => Cardinality(Watchers(t)) = 1
               /\ mem[t].status = "pending" => Watchers(t) = {}
    <2>1. WatchInv(t)
      BY <1>1 DEF IInv, TaskInv
    <2>2. \A p, q \in Watchers(t) : p = q
      BY <2>1 DEF WatchInv
    <2>3. Cardinality(Watchers(t)) = IF Watchers(t) = {} THEN 0 ELSE 1
      BY <2>2, SmallSet
    <2> QED  BY <2>1, <2>3 DEF WatchInv
  <1>2. IInv => RunningIsWatched
    BY <1>1 DEF RunningIsWatched
  <1> QED  BY <1>2, SpecIInv, PTL

\* The turn lock held over the executor (scheduler.ts:307): no two executors of
\* a session, the abandoned one of a timed-out run included.
THEOREM ExecutorsExclude == Spec => []OneExecutorPerSession
  <1>1. ASSUME IInv, NEW s \in Sessions
        PROVE  Cardinality({r \in Runs : SessionOf[TaskOf(r)] = s /\ Begun(r)}) <= 1
    <2> DEFINE S == {r \in Runs : SessionOf[TaskOf(r)] = s /\ Begun(r)}
    <2>1. \A p \in S : p = line[s][1]
      BY <1>1 DEF IInv, LineInv, Line
    <2>2. \A p, q \in S : p = q
      BY <2>1
    <2> HIDE DEF S
    <2>3. Cardinality(S) = IF S = {} THEN 0 ELSE 1
      BY <2>2, SmallSet
    <2> QED  BY <2>3 DEF S
  <1>2. IInv => OneExecutorPerSession
    BY <1>1 DEF OneExecutorPerSession
  <1> QED  BY <1>2, SpecIInv, PTL

\* _markScheduledFailure(): the attempts a task is allowed are used up exactly,
\* over timeouts, crashes and recoveries.
THEOREM AttemptsAddUp == Spec => []AttemptsExact
  <1>1. ASSUME IInv, NEW t \in Tasks
        PROVE  /\ starts[t] <= MaxAttempts + lost[t]
               /\ db[t].status = "dead_letter" => starts[t] = MaxAttempts + lost[t]
    <2>1. CountInv(t) /\ TypeOK /\ RowInv
      BY <1>1 DEF IInv, TaskInv
    <2>2. starts[t] \in Nat /\ lost[t] \in Nat
      BY <2>1 DEF TypeOK
    <2>3. /\ db[t].status \in Statuses
          /\ db[t].status \in Live => db[t].attempts \in 0..(MaxAttempts - 1)
      BY <2>1, DbFacts
    <2>4. CASE db[t].status \in Live
      <3>1. db[t].attempts \in 0..(MaxAttempts - 1) /\ db[t].status # "dead_letter"
        BY <2>3, <2>4 DEF Live
      <3>2. starts[t] = db[t].attempts + lost[t] \/ starts[t] = db[t].attempts + lost[t] + 1
        BY <2>1, <2>4 DEF CountInv
      <3> QED  BY <2>2, <3>1, <3>2
    <2>5. CASE db[t].status = "absent"
      BY <2>1, <2>2, <2>5 DEF CountInv
    <2>6. CASE db[t].status \in Terminal
      BY <2>1, <2>2, <2>6 DEF CountInv, Terminal
    <2> QED  BY <2>3, <2>4, <2>5, <2>6 DEF Statuses
  <1>2. IInv => AttemptsExact
    BY <1>1 DEF AttemptsExact
  <1> QED  BY <1>2, SpecIInv, PTL

\* A row a step writes was live, or absent, before the step.
LEMMA TerminalKept ==
  ASSUME IInv, [Next]_vars, NEW t \in Tasks, db[t].status \in Terminal
  PROVE  db'[t] = db[t]
  <1>1. TypeOK /\ RowInv /\ AgreeInv(t) /\ db \in [Tasks -> Rows]
    BY DEF IInv, TaskInv, TypeOK
  <1>2. /\ db[t].status \notin Live /\ db[t] # Absent
        /\ db[t].status # "running" /\ mem[t] = Absent /\ mem[t].status \notin Live
    <2>1. db[t].status \notin Live /\ db[t].status # "running" /\ db[t] # Absent
      BY DEF Terminal, Live, Absent, Row
    <2>2. mem[t] = Absent
      BY <1>1, <2>1, MemFacts DEF AgreeInv
    <2> QED  BY <1>1, <2>1, <2>2, MemFacts
  <1>3. CASE \E u \in Tasks : Schedule(u) \/ Cancel(u)
    <2> PICK u \in Tasks : Schedule(u) \/ Cancel(u)
      BY <1>3
    <2>1. u # t
      BY <1>2 DEF Schedule, Cancel
    <2>2. \E row : db' = [db EXCEPT ![u] = row]
      BY DEF Schedule, Cancel, Save, Finish
    <2> QED  BY <1>1, <2>1, <2>2
  <1>4. CASE Tick
    BY <1>2, <1>4 DEF Tick, Live
  <1>5. CASE \E r \in Runs : Settle(r) \/ Timeout(r)
    <2> PICK r \in Runs : Settle(r) \/ Timeout(r)
      BY <1>5
    <2>1. \/ UNCHANGED db
          \/ /\ mem[TaskOf(r)] # Absent
             /\ MarkScheduledSuccess(TaskOf(r)) \/ MarkScheduledFailure(TaskOf(r))
      BY DEF Settle, Timeout, StillOwner, taskVars
    <2>2. CASE UNCHANGED db
      BY <2>2
    <2>3. CASE /\ mem[TaskOf(r)] # Absent
               /\ MarkScheduledSuccess(TaskOf(r)) \/ MarkScheduledFailure(TaskOf(r))
      <3>1. TaskOf(r) # t
        BY <1>2, <2>3
      <3>2. \E row : db' = [db EXCEPT ![TaskOf(r)] = row]
        BY <2>3 DEF MarkScheduledSuccess, MarkScheduledFailure, Save, Finish
      <3> QED  BY <1>1, <3>1, <3>2
    <2> QED  BY <2>1, <2>2, <2>3
  <1>6. CASE Start
    BY <1>2, <1>6 DEF Start, RecoverPersistedTasks
  <1>7. CASE \/ \E u \in Tasks : Elapse(u)
             \/ \E r \in Runs : Begin(r)
             \/ \E u \in Users : Hang(u)
             \/ TurnBegin \/ TurnEnd \/ Stop \/ Crash \/ UNCHANGED vars
             \/ \E n \in Limits : SetMaxConcurrent(n)
    <2>1. UNCHANGED db
      BY <1>7 DEF Elapse, Begin, Hang, TurnBegin, TurnEnd, Stop, Crash, vars,
                  SetMaxConcurrent, taskVars
    <2> QED  BY <2>1
  <1> QED  BY <1>3, <1>4, <1>5, <1>6, <1>7 DEF Next

\* No late executor, timeout, cancellation or recovery writes over the row of a
\* task that is over.
THEOREM TerminalStays == Spec => TerminalForever
  <1>1. IInv /\ [Next]_vars
          => [\A t \in Tasks : db[t].status \in Terminal => db'[t] = db[t]]_vars
    BY TerminalKept
  <1> QED  BY <1>1, SpecIInv, PTL DEF Spec, TerminalForever

-----------------------------------------------------------------------------
(* The counter of the concurrency manager.                                 *)

\* Who holds a slot.
Occupied == {u \in Users : phase[u] \in {"working", "hung"}}

\* There are finitely many users, so every set of them can be counted.
LEMMA UsersFinite == IsFiniteSet(Users) /\ \A S \in SUBSET Users : IsFiniteSet(S)
  <1>1. IsFiniteSet(Runs \cup {Interactive})
    BY RunsFinite, FS_AddElement
  <1>2. IsFiniteSet(Users)
    BY <1>1 DEF Users
  <1> QED  BY <1>2, FS_Subset

\* The first n of a sequence that lists nothing twice are n.
LEMMA FirstCount ==
  ASSUME NEW S, NEW q \in Seq(S), NEW n \in 0..Len(q),
         \A i, j \in DOMAIN q : q[i] = q[j] => i = j,
         NEW T, \A x : x \in T <=> \E k \in 1..n : q[k] = x
  PROVE  IsFiniteSet(T) /\ Cardinality(T) = n
  <1> DEFINE f == [k \in 1..n |-> q[k]]
  <1>1. Len(q) \in Nat /\ DOMAIN q = 1..Len(q) /\ n \in Nat
    OBVIOUS
  <1>2. \A k \in 1..n : k \in DOMAIN q
    BY <1>1
  <1>3. f \in [1..n -> T]
    OBVIOUS
  <1>4. \A i, j \in 1..n : f[i] = f[j] => i = j
    BY <1>2
  <1>5. \A x \in T : \E k \in 1..n : f[k] = x
    OBVIOUS
  <1>6. f \in Bijection(1..n, T)
    <2>1. IsInjective(f)
      BY <1>4 DEF IsInjective
    <2>2. f \in Injection(1..n, T)
      BY <1>3, <2>1 DEF Injection
    <2>3. f \in Surjection(1..n, T)
      BY <1>3, <1>5 DEF Surjection
    <2> QED  BY <2>2, <2>3 DEF Bijection
  <1>7. ExistsBijection(1..n, T)
    BY <1>6 DEF ExistsBijection
  <1>8. Cardinality(T) = n
    BY <1>1, <1>7, FS_CountingElements
  <1>9. IsFiniteSet(T)
    BY <1>1, <1>7, FS_NatBijection
  <1> QED  BY <1>8, <1>9

\* _tryFulfillWaiting() counts what it grants and stops only at the limit or at
\* the end of the queue.
LEMMA GrantCounts ==
  ASSUME SlotTyped, SlotInv, NEW used \in Nat, NEW max \in Limits,
         NEW moved \in [Users -> Phases],
         \A i \in DOMAIN waiting : moved[waiting[i]] = "slot",
         used = Cardinality({u \in Users : moved[u] \in {"working", "hung"}}),
         TryFulfillWaiting(used, max, moved)
  PROVE  SlotsExact'
  <1>0. max \in Nat /\ Len(waiting) \in Nat /\ DOMAIN waiting = 1..Len(waiting)
    BY DEF SlotTyped
  <1> PICK n \in 0..Len(waiting) :
             n = Grants(max - used) /\ (n < Len(waiting) => used + n >= max)
    <2>1. Grants(max - used) \in 0..Len(waiting)
      BY <1>0 DEF Grants
    <2>2. Grants(max - used) < Len(waiting) => used + Grants(max - used) >= max
      BY <1>0 DEF Grants
    <2> QED  BY <2>1, <2>2
  <1> DEFINE G == {waiting[k] : k \in 1..n}
             M == {u \in Users : moved[u] \in {"working", "hung"}}
  <1>1. /\ n \in Nat /\ n <= Len(waiting)
        /\ n < Len(waiting) => used + n >= max
    BY <1>0
  <1>2. /\ active' = used + n /\ limit' = max
        /\ waiting' = SubSeq(waiting, n + 1, Len(waiting))
        /\ phase' = [u \in Users |->
                       IF \E k \in 1..n : waiting[k] = u THEN "working" ELSE moved[u]]
    BY DEF TryFulfillWaiting
  <1>3. \A k \in 1..n : waiting[k] \in Users /\ moved[waiting[k]] = "slot"
    BY <1>0, <1>1 DEF SlotTyped
  <1>4. Cardinality(G) = n /\ IsFiniteSet(G)
    <2>1. waiting \in Seq(Users)
      BY DEF SlotTyped
    <2>3. \A i, j \in DOMAIN waiting : waiting[i] = waiting[j] => i = j
      BY DEF SlotInv
    <2>2. \A x : x \in G <=> \E k \in 1..n : waiting[k] = x
      OBVIOUS
    <2> HIDE DEF G
    <2> QED  BY ONLY n \in 0..Len(waiting), <2>1, <2>2, <2>3, FirstCount
  <1>5. G \subseteq Users /\ M \subseteq Users /\ M \cap G = {}
    BY <1>3
  <1>6. Occupied' = M \cup G
    <2>1. \A u \in Users : u \in G <=> \E k \in 1..n : waiting[k] = u
      OBVIOUS
    <2>2. \A u \in Users : u \in M <=> moved[u] \in {"working", "hung"}
      OBVIOUS
    <2>3. \A u \in Users : phase'[u] \in {"working", "hung"} <=> u \in M \/ u \in G
      BY <1>2, <1>3, <2>1, <2>2
    <2>4. Occupied' = {u \in Users : phase'[u] \in {"working", "hung"}}
      BY DEF Occupied
    <2> HIDE DEF M, G
    <2> QED  BY <1>5, <2>3, <2>4
  <1>7. Cardinality(M \cup G) = Cardinality(M) + Cardinality(G)
    <2>1. IsFiniteSet(M) /\ IsFiniteSet(G) /\ Cardinality({}) = 0
      BY <1>4, <1>5, UsersFinite, FS_EmptySet
    <2>2. Cardinality(M) \in Nat /\ Cardinality(G) \in Nat
      BY <2>1, FS_CardinalityType
    <2>4. Cardinality(M \cap G) = 0
      BY <1>5, <2>1
    <2> HIDE DEF M, G
    <2>3. Cardinality(M \cup G) = Cardinality(M) + Cardinality(G) - Cardinality(M \cap G)
      BY <2>1, FS_Union
    <2> QED  BY <2>2, <2>3, <2>4
  <1>8. active' = Cardinality(Occupied')
    BY <1>2, <1>4, <1>6, <1>7
  <1>9. waiting' # <<>> => active' >= limit'
    <2>1. n = Len(waiting) => waiting' = <<>>
      <3> SUFFICES ASSUME n = Len(waiting)  PROVE waiting' = <<>>
        OBVIOUS
      <3>1. waiting' \in Seq(Users) /\ Len(waiting') = 0
        BY <1>0, <1>2, SubSeqProperties DEF SlotTyped
      <3> QED  BY <3>1
    <2>2. n < Len(waiting) => active' >= limit'
      BY <1>1, <1>2
    <2>3. n = Len(waiting) \/ n < Len(waiting)
      BY <1>0, <1>1
    <2> QED  BY <2>1, <2>2, <2>3
  <1> QED  BY <1>8, <1>9 DEF SlotsExact, Occupied

\* acquire() takes the slot it counts.
LEMMA AcquireCounts ==
  ASSUME SlotTyped, SlotsExact, phase \in [Users -> Phases], NEW u \in Users,
         phase[u] \in {"free", "line"}, Acquire(u)
  PROVE  SlotsExact'
  <1>1. Occupied \subseteq Users /\ IsFiniteSet(Occupied) /\ u \notin Occupied
        /\ active = Cardinality(Occupied) /\ active \in Nat /\ limit \in Nat
    BY UsersFinite DEF Occupied, SlotsExact, SlotTyped
  <1>2. CASE /\ active < limit /\ active' = active + 1
             /\ phase' = [phase EXCEPT ![u] = "working"] /\ UNCHANGED <<limit, waiting>>
    <2>1. Occupied' = Occupied \cup {u}
      BY <1>2 DEF Occupied
    <2>2. Cardinality(Occupied \cup {u}) = Cardinality(Occupied) + 1
      BY <1>1, FS_AddElement
    <2>3. waiting = <<>>
      BY <1>1, <1>2 DEF SlotsExact
    <2>4. active' = Cardinality(Occupied')
      BY <1>1, <1>2, <2>1, <2>2
    <2> QED  BY <1>2, <2>3, <2>4 DEF SlotsExact, Occupied
  <1>3. CASE /\ active >= limit /\ waiting' = Append(waiting, u)
             /\ phase' = [phase EXCEPT ![u] = "slot"] /\ UNCHANGED <<limit, active>>
    <2>1. Occupied' = Occupied
      BY <1>1, <1>3 DEF Occupied
    <2> QED  BY <1>1, <1>3, <2>1 DEF SlotsExact, Occupied
  <1> QED  BY <1>2, <1>3 DEF Acquire

\* release() gives back the slot it held.
LEMMA ReleaseCounts ==
  ASSUME SlotTyped, SlotInv, SlotsExact, phase \in [Users -> Phases], NEW u \in Users,
         phase[u] = "working", Release(u)
  PROVE  SlotsExact'
  <1> DEFINE used == IF active > 0 THEN active - 1 ELSE 0
             moved == [phase EXCEPT ![u] = "free"]
             M == {v \in Users : moved[v] \in {"working", "hung"}}
  <1>1. Occupied \subseteq Users /\ IsFiniteSet(Occupied) /\ u \in Occupied
        /\ active = Cardinality(Occupied) /\ active \in Nat /\ limit \in Limits
    BY UsersFinite DEF Occupied, SlotsExact, SlotTyped
  <1>2. M = Occupied \ {u}
    BY DEF Occupied
  <1>3. Cardinality(Occupied \ {u}) = Cardinality(Occupied) - 1
        /\ IsFiniteSet(Occupied \ {u})
    BY <1>1, FS_RemoveElement
  <1>4. Cardinality(Occupied \ {u}) \in Nat
    BY <1>3, FS_CardinalityType
  <1>5. used = Cardinality(M) /\ used \in Nat
    <2>1. Cardinality(M) = active - 1
      BY <1>1, <1>2, <1>3
    <2>2. active - 1 \in Nat
      BY <1>1, <1>3, <1>4
    <2> HIDE DEF M
    <2> QED  BY <1>1, <2>1, <2>2
  <1>6. \A i \in DOMAIN waiting : moved[waiting[i]] = "slot"
    <2>1. \A i \in DOMAIN waiting : waiting[i] # u /\ waiting[i] \in Users
      BY DEF SlotInv, SlotTyped
    <2> QED  BY <2>1 DEF SlotInv
  <1>7. TryFulfillWaiting(used, limit, moved) /\ moved \in [Users -> Phases]
    BY DEF Release, Phases
  <1> HIDE DEF used, moved
  <1> QED  BY <1>1, <1>5, <1>6, <1>7, GrantCounts

\* A step in which nobody gets, loses or asks for a slot.
LEMMA SlotsFrame ==
  ASSUME SlotsExact, UNCHANGED <<active, limit, waiting>>,
         \A u \in Users : phase'[u] \in {"working", "hung"} <=> phase[u] \in {"working", "hung"}
  PROVE  SlotsExact'
  <1>1. Occupied' = Occupied
    BY DEF Occupied
  <1> QED  BY <1>1 DEF SlotsExact, Occupied

\* Every step keeps the count.
LEMMA NextSlots == IInv /\ SlotsExact /\ [Next]_vars => SlotsExact'
  <1> SUFFICES ASSUME IInv, SlotsExact, [Next]_vars  PROVE SlotsExact'
    OBVIOUS
  <1>1. SlotTyped /\ SlotInv /\ phase \in [Users -> Phases] /\ active \in Nat /\ limit \in Nat
    BY TypeParts DEF IInv, SlotTyped, LockTyped
  <1>2. CASE UNCHANGED <<phase, active, limit, waiting>>
    BY <1>2, SlotsFrame
  <1>3. CASE Tick
    <2> DEFINE new == {Fresh(t) : t \in {t \in Tasks : mem[t].status = "pending" /\ due[t]}}
    <2>1. \A u \in new : phase[u] = "free"
      BY FreshFacts
    <2>2. /\ phase' = [u \in Users |-> IF u \in new THEN "line" ELSE phase[u]]
          /\ UNCHANGED <<active, limit, waiting>>
      BY <1>3 DEF Tick, slotVars
    <2> HIDE DEF new
    <2> QED  BY <2>1, <2>2, SlotsFrame
  <1>4. CASE \E r \in Runs : Begin(r)
    <2> PICK r \in Runs : Begin(r)
      BY <1>4
    <2>1. r \in Users /\ phase[r] = "line"
      BY RunFacts DEF Begin
    <2>2. CASE Acquire(r)
      BY <1>1, <2>1, <2>2, AcquireCounts
    <2>3. CASE phase' = [phase EXCEPT ![r] = "refused"] /\ UNCHANGED slotVars
      <3>1. UNCHANGED <<active, limit, waiting>>
        BY <2>3 DEF slotVars
      <3> QED  BY <1>1, <2>1, <2>3, <3>1, SlotsFrame
    <2> QED  BY <2>2, <2>3 DEF Begin
  <1>5. CASE \E r \in Runs : Settle(r)
    <2> PICK r \in Runs : Settle(r)
      BY <1>5
    <2>1. r \in Users
      BY RunFacts
    <2>2. CASE phase[r] = "working" /\ Release(r)
      BY <1>1, <2>1, <2>2, ReleaseCounts
    <2>3. CASE phase[r] = "refused" /\ phase' = [phase EXCEPT ![r] = "free"] /\ UNCHANGED slotVars
      <3>1. UNCHANGED <<active, limit, waiting>>
        BY <2>3 DEF slotVars
      <3> QED  BY <1>1, <2>1, <2>3, <3>1, SlotsFrame
    <2> QED  BY <2>2, <2>3 DEF Settle, LeaveLock
  <1>6. CASE \E u \in Users : Hang(u)
    <2> PICK u \in Users : Hang(u)
      BY <1>6
    <2>1. /\ phase[u] = "working" /\ phase' = [phase EXCEPT ![u] = "hung"]
          /\ UNCHANGED <<active, limit, waiting>>
      BY DEF Hang, slotVars
    <2> QED  BY <1>1, <2>1, SlotsFrame
  <1>7. CASE TurnBegin
    <2>1. Interactive \in Users /\ phase[Interactive] = "free" /\ Acquire(Interactive)
      BY <1>7 DEF TurnBegin, Users
    <2> QED  BY <1>1, <2>1, AcquireCounts
  <1>8. CASE TurnEnd
    <2>1. Interactive \in Users /\ phase[Interactive] = "working" /\ Release(Interactive)
      BY <1>8 DEF TurnEnd, Users
    <2> QED  BY <1>1, <2>1, ReleaseCounts
  <1>9. CASE \E n \in Limits : SetMaxConcurrent(n)
    <2> PICK n \in Limits : SetMaxConcurrent(n)
      BY <1>9
    <2>1. CASE n > limit
      <3>1. TryFulfillWaiting(active, n, phase)
        BY <2>1 DEF SetMaxConcurrent
      <3>2. \A i \in DOMAIN waiting : phase[waiting[i]] = "slot"
        BY <1>1 DEF SlotInv
      <3>3. active = Cardinality({u \in Users : phase[u] \in {"working", "hung"}})
        BY DEF SlotsExact
      <3> QED  BY <1>1, <3>1, <3>2, <3>3, GrantCounts
    <2>2. CASE ~(n > limit)
      <3>1. limit' = n /\ UNCHANGED <<active, waiting, phase>> /\ n \in Nat /\ n <= limit
        BY <1>1, <2>2 DEF SetMaxConcurrent
      <3>2. Occupied' = Occupied
        BY <3>1 DEF Occupied
      <3>3. waiting' # <<>> => active' >= limit'
        BY <1>1, <3>1 DEF SlotsExact
      <3> QED  BY <3>1, <3>2, <3>3 DEF SlotsExact, Occupied
    <2> QED  BY <2>1, <2>2
  <1>10. CASE Crash
    <2>1. active' = 0 /\ waiting' = <<>> /\ phase' = [u \in Users |-> "free"]
      BY <1>10 DEF Crash
    <2>2. Occupied' = {}
      BY <2>1 DEF Occupied
    <2> QED  BY <2>1, <2>2, FS_EmptySet DEF SlotsExact, Occupied
  <1>11. CASE \/ \E t \in Tasks : Schedule(t) \/ Elapse(t) \/ Cancel(t)
              \/ \E r \in Runs : Timeout(r)
              \/ Start \/ Stop \/ UNCHANGED vars
    <2>1. UNCHANGED <<phase, active, limit, waiting>>
      BY <1>11 DEF Schedule, Elapse, Cancel, Timeout, Start, Stop, vars, lockVars, slotVars
    <2> QED  BY <1>2, <2>1
  <1> QED  BY <1>3, <1>4, <1>5, <1>6, <1>7, <1>8, <1>9, <1>10, <1>11 DEF Next

\* concurrent-manager.ts: _active counts the turns that hold a slot, and nobody
\* waits while one is free, whatever the order of acquire(), release() and
\* setMaxConcurrent().
THEOREM SlotsCounted == Spec => []SlotsExact
  <1>1. Init => SlotsExact
    <2> SUFFICES ASSUME Init  PROVE SlotsExact
      OBVIOUS
    <2>1. active = 0 /\ waiting = <<>> /\ Occupied = {}
      BY DEF Init, Occupied
    <2> QED  BY <2>1, FS_EmptySet DEF SlotsExact, Occupied
  <1> QED  BY <1>1, NextSlots, SpecIInv, PTL DEF Spec

-----------------------------------------------------------------------------
(* The scheduler implements TaskLife.                                      *)

\* An entry of the abstract table is a row.
LEMMA EntryIsRow ==
  /\ \A st, n : Life!Entry(st, n) = Row(st, n)
  /\ Absent = Life!Entry("absent", 0)
  BY DEF Life!Entry, Row, Absent

\* The watcher of a task records its end as a success or a failure of a start.
LEMMA MarkIsEnd ==
  ASSUME IInv, NEW t \in Tasks, mem[t].status = "running",
         MarkScheduledSuccess(t) \/ MarkScheduledFailure(t)
  PROVE  Life!Succeed(t) \/ Life!Fail(t)
  <1>1. mem[t] = db[t] /\ mem[t] \in Rows
    <2>1. TypeOK /\ AgreeInv(t) /\ mem[t] # Absent /\ mem[t] \in Rows
      BY MemFacts DEF IInv, TaskInv, Live, Absent, Row
    <2> QED  BY <2>1 DEF AgreeInv
  <1>2. [mem[t] EXCEPT !.status = "completed"] = Row("completed", mem[t].attempts)
    BY <1>1, Restated DEF Statuses, Terminal
  <1>3. CASE MarkScheduledSuccess(t)
    BY <1>1, <1>2, <1>3, EntryIsRow
       DEF MarkScheduledSuccess, Save, Finish, Life!Succeed, Life!Becomes
  <1>4. CASE MarkScheduledFailure(t)
    BY <1>1, <1>4, EntryIsRow
       DEF MarkScheduledFailure, Save, Finish, Life!Fail, Life!Becomes
  <1> QED  BY <1>3, <1>4

\* Every step of the scheduler is a step of the life of the rows or leaves them.
LEMMA StepOfLife ==
  ASSUME IInv, [Next]_vars
  PROVE  Life!LifeNext \/ UNCHANGED db
  <1>0. /\ TypeOK /\ db \in [Tasks -> Rows]
        /\ \A t \in Tasks : TaskInv(t) /\ (mem[t] # Absent => mem[t] = db[t])
    BY DEF IInv, TypeOK, TaskInv, AgreeInv
  <1>1. ASSUME NEW t \in Tasks, Schedule(t)
        PROVE  Life!Enter(t)
    BY <1>1, EntryIsRow DEF Schedule, Save, Life!Enter, Life!Becomes
  <1>2. ASSUME NEW t \in Tasks, Cancel(t)
        PROVE  Life!Withdraw(t)
    <2>1. db[t].status \in Live /\ db' = [db EXCEPT ![t] = [db[t] EXCEPT !.status = "cancelled"]]
      BY <1>0, <1>2 DEF Cancel, Finish
    <2>2. [db[t] EXCEPT !.status = "cancelled"] = Row("cancelled", db[t].attempts)
      BY <1>0, Restated DEF Statuses, Terminal
    <2> QED  BY <2>1, <2>2, EntryIsRow DEF Life!Withdraw, Life!Becomes, Live
  <1>3. ASSUME Tick
        PROVE  \E S \in SUBSET Tasks : Life!StartAll(S)
    <2> DEFINE ready == {t \in Tasks : mem[t].status = "pending" /\ due[t]}
    <2>1. db' = [t \in Tasks |-> IF t \in ready THEN [mem[t] EXCEPT !.status = "running"] ELSE db[t]]
      BY <1>3 DEF Tick
    <2>2. \A t \in ready : /\ mem[t] = db[t] /\ db[t].status = "pending"
                           /\ [mem[t] EXCEPT !.status = "running"] = Row("running", db[t].attempts)
      <3> SUFFICES ASSUME NEW t \in ready
                   PROVE  /\ mem[t] = db[t] /\ db[t].status = "pending"
                          /\ [mem[t] EXCEPT !.status = "running"] = Row("running", db[t].attempts)
        OBVIOUS
      <3>1. t \in Tasks /\ mem[t].status = "pending"  OBVIOUS
      <3>2. mem[t] # Absent  BY <3>1 DEF Absent, Row
      <3>3. mem[t] = db[t] /\ db[t] \in Rows  BY <1>0, <3>1, <3>2
      <3> HIDE DEF ready
      <3> QED  BY <3>1, <3>3, Restated DEF Statuses, Live
    <2>3. ready \in SUBSET Tasks  OBVIOUS
    <2> HIDE DEF ready
    <2>4. db' = [t \in Tasks |-> IF t \in ready THEN Life!Entry("running", db[t].attempts) ELSE db[t]]
      BY <2>1, <2>2, EntryIsRow
    <2>5. Life!StartAll(ready)
      BY <2>2, <2>4 DEF Life!StartAll
    <2> QED  BY <2>3, <2>5
  <1>4. ASSUME NEW r \in Runs, Settle(r) \/ Timeout(r)
        PROVE  UNCHANGED db \/ Life!Succeed(TaskOf(r)) \/ Life!Fail(TaskOf(r))
    <2>1. \/ UNCHANGED db
          \/ /\ mem[TaskOf(r)] # Absent /\ ~timedOut[r]
             /\ MarkScheduledSuccess(TaskOf(r)) \/ MarkScheduledFailure(TaskOf(r))
      BY <1>4 DEF Settle, Timeout, StillOwner, taskVars
    <2>2. phase[r] # "free"
      BY <1>4 DEF Settle, Timeout, LeaveLock
    <2>3. ASSUME mem[TaskOf(r)] # Absent, ~timedOut[r]
          PROVE  mem[TaskOf(r)].status = "running"
      <3>1. TaskOf(r) \in Tasks /\ r \in Watchers(TaskOf(r))
        BY <2>2, <2>3, RunFacts DEF Watchers
      <3>2. mem[TaskOf(r)].status # "pending"
        BY <1>0, <3>1 DEF TaskInv, WatchInv
      <3> QED  BY <1>0, <2>3, <3>1, <3>2, MemFacts DEF Live
    <2>4. TaskOf(r) \in Tasks  BY RunFacts
    <2> QED  BY <2>1, <2>3, <2>4, MarkIsEnd
  <1>5. ASSUME Start
        PROVE  UNCHANGED db \/ Life!Restart
    <2>1. CASE recovered  BY <1>5, <2>1 DEF Start
    <2>2. CASE ~recovered
      <3>1. db' = [t \in Tasks |-> IF db[t].status = "running"
                                     THEN [db[t] EXCEPT !.status = "pending"] ELSE db[t]]
        BY <1>5, <2>2 DEF Start, RecoverPersistedTasks
      <3>2. \A t \in Tasks : [db[t] EXCEPT !.status = "pending"] = Row("pending", db[t].attempts)
        BY <1>0, Restated DEF Statuses, Live
      <3>3. Life!Restart
        BY <3>1, <3>2, EntryIsRow DEF Life!Restart
      <3> QED  BY <3>3
    <2> QED  BY <2>1, <2>2
  <1>6. CASE \/ \E u \in Tasks : Elapse(u)
             \/ \E r \in Runs : Begin(r)
             \/ \E u \in Users : Hang(u)
             \/ TurnBegin \/ TurnEnd \/ Stop \/ Crash \/ UNCHANGED vars
             \/ \E n \in Limits : SetMaxConcurrent(n)
    BY <1>6 DEF Elapse, Begin, Hang, TurnBegin, TurnEnd, Stop, Crash, vars,
                SetMaxConcurrent, taskVars
  <1>7. \A r \in Runs : TaskOf(r) \in Tasks  BY RunFacts
  <1> QED
    BY <1>1, <1>2, <1>3, <1>4, <1>5, <1>6, <1>7 DEF Next, Life!LifeNext

\* The table shows the life that TaskLife promises, for any tasks, sessions,
\* attempts and slots: runs, timeouts, late executors, crashes and recoveries
\* of the scheduler are no part of what its reader sees.
THEOREM SchedulerImplementsTaskLife == Spec => RowsLiveAsPromised
  <1>1. Init => Life!LifeInit
    BY EntryIsRow DEF Init, Life!LifeInit
  <1>2. IInv /\ [Next]_vars => [Life!LifeNext]_db
    BY StepOfLife
  <1> QED  BY <1>1, <1>2, SpecIInv, PTL DEF Spec, RowsLiveAsPromised, Life!LifeSpec
=============================================================================
