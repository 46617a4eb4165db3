--------------------------- MODULE SessionTurnLock --------------------------
(***************************************************************************)
(* SessionTurnLock (packages/core/src/session-turn-lock.ts): the lock that *)
(* channel adapters (collectAgentResponse, streamAgentResponse) and the    *)
(* scheduler (_runScheduledTask, _runQueuedTask) take around one turn of   *)
(* the agent on a session.                                                 *)
(*                                                                         *)
(* acquire() and _release() are synchronous, hence atomic.  A resolved     *)
(* promise resumes its caller only in a later microtask, so a caller that  *)
(* was given the lock is "granted" before it is "running", and other       *)
(* callbacks run in between.                                               *)
(*                                                                         *)
(* A caller is one pending call of acquire() at a time; when its turn is   *)
(* over it may come back for any session.                                  *)
(***************************************************************************)
EXTENDS Sequences, FiniteSets

CONSTANTS
  Callers,     \* concurrent calls of acquire()
  Sessions,    \* session identifiers
  NoSession    \* the session of a caller that has none

ASSUME SessionTurnLockAssumption == NoSession \notin Sessions

VARIABLES
  locked,      \* the _locked Set
  queues,      \* the _queues Map; a session without entry has <<>>
  pc,          \* where each caller is
  session      \* the session each caller asked for

lockVars == <<locked, queues, pc, session>>

\* The callers of a session that have been given the lock and not released it.
Holders(s) == {c \in Callers : session[c] = s /\ pc[c] \in {"granted", "running"}}

-----------------------------------------------------------------------------
AcquireStaleSession(c, s) ==
  /\ pc[c] = "idle"
  /\ s \notin locked
  /\ locked' = locked \cup {session[c]}
  /\ session' = [session EXCEPT ![c] = s]
  /\ pc' = [pc EXCEPT ![c] = "granted"]
  /\ UNCHANGED queues

AcquireAtFront(c, s) ==
  /\ pc[c] = "idle"
  /\ session' = [session EXCEPT ![c] = s]
  /\ IF s \notin locked
     THEN /\ locked' = locked \cup {s}
          /\ pc' = [pc EXCEPT ![c] = "granted"]
          /\ UNCHANGED queues
     ELSE /\ queues' = [queues EXCEPT ![s] = <<c>> \o @]
          /\ pc' = [pc EXCEPT ![c] = "waiting"]
          /\ UNCHANGED locked

\* acquire(sessionId)
Acquire(c, s) ==
  /\ pc[c] = "idle"
  /\ session' = [session EXCEPT ![c] = s]
  /\ IF s \notin locked
     THEN /\ locked' = locked \cup {s}
          /\ pc' = [pc EXCEPT ![c] = "granted"]
          /\ UNCHANGED queues
     ELSE /\ queues' = [queues EXCEPT ![s] = Append(@, c)]
          /\ pc' = [pc EXCEPT ![c] = "waiting"]
          /\ UNCHANGED locked

\* The caller resumes after its await and starts the turn.
StartTurn(c) ==
  /\ pc[c] = "granted"
  /\ pc' = [pc EXCEPT ![c] = "running"]
  /\ UNCHANGED <<locked, queues, session>>

ReleaseUnlocks(s) ==
  /\ locked' = locked \ {s}
  /\ IF queues[s] # <<>>
     THEN queues' = [queues EXCEPT ![s] = Tail(@)]
     ELSE UNCHANGED queues

ReleaseNeverUnlocks(s) ==
  /\ IF queues[s] # <<>>
     THEN queues' = [queues EXCEPT ![s] = Tail(@)]
     ELSE UNCHANGED queues
  /\ UNCHANGED locked

ReleaseDropsQueue(s) ==
  /\ locked' = locked \ {s}
  /\ queues' = [queues EXCEPT ![s] = <<>>]

\* What _release(sessionId) does to the lock: hand it to the first in the
\* queue, which leaves the session locked, or unlock.
Release(s) ==
  IF queues[s] # <<>>
  THEN queues' = [queues EXCEPT ![s] = Tail(@)] /\ UNCHANGED locked
  ELSE locked' = locked \ {s} /\ UNCHANGED queues

\* The turn is over, by return or by exception: the finally block calls
\* release() exactly once, and the promise of the first waiter resolves.
EndTurn(c) ==
  LET s == session[c]
      resumed(d) == queues[s] # <<>> /\ d = Head(queues[s])
  IN
  /\ pc[c] = "running"
  /\ Release(s)
  /\ pc' = [d \in Callers |-> IF d = c THEN "idle" ELSE IF resumed(d) THEN "granted" ELSE pc[d]]
  /\ session' = [session EXCEPT ![c] = NoSession]

-----------------------------------------------------------------------------
LockInit ==
  /\ locked = {}
  /\ queues = [s \in Sessions |-> <<>>]
  /\ pc = [c \in Callers |-> "idle"]
  /\ session = [c \in Callers |-> NoSession]

LockNext ==
  \E c \in Callers :
    \/ \E s \in Sessions : Acquire(c, s)
    \/ StartTurn(c)
    \/ EndTurn(c)

LockSpec == LockInit /\ [][LockNext]_lockVars

\* Microtasks run, and a turn ends (the agent loop has a run deadline); nobody
\* has to ask for a turn.
LockFairness == \A c \in Callers : WF_lockVars(StartTurn(c)) /\ WF_lockVars(EndTurn(c))

FairLockSpec == LockSpec /\ LockFairness

-----------------------------------------------------------------------------
(* Properties *)

\* The shapes of the Set, the Map and the callers' states.
LockTypeOK ==
  /\ locked \subseteq Sessions
  /\ queues \in [Sessions -> Seq(Callers)]
  /\ pc \in [Callers -> {"idle", "waiting", "granted", "running"}]
  /\ session \in [Callers -> Sessions \cup {NoSession}]

\* Never two turns of one session between the grant and the release, also not
\* while the lock is handed over.
TurnMutex == \A c, d \in Callers :
  /\ pc[c] \in {"granted", "running"} /\ pc[d] \in {"granted", "running"}
  /\ session[c] = session[d]
  => c = d

\* A session is in _locked exactly while some caller is going to release it: no
\* hand-over loses the lock, and no end of a turn leaves the session locked
\* with nobody inside, which would block it for ever.
LockedIffHeld == \A s \in Sessions : s \in locked <=> Holders(s) # {}

\* The queue of a session lists exactly the callers that wait for it, each
\* once: a caller is never resumed twice, and none is forgotten.
QueueListsWaiters == \A s \in Sessions :
  /\ \A k \in DOMAIN queues[s] : pc[queues[s][k]] = "waiting" /\ session[queues[s][k]] = s
  /\ \A j, k \in DOMAIN queues[s] : queues[s][j] = queues[s][k] => j = k
  /\ \A c \in Callers : pc[c] = "waiting" /\ session[c] = s
       => \E k \in DOMAIN queues[s] : queues[s][k] = c

\* The refinement mapping: who has the session, then who waits for it.
Line == [s \in Sessions |->
           IF Holders(s) = {} THEN queues[s]
           ELSE <<CHOOSE c \in Callers : c \in Holders(s)>> \o queues[s]]

Order == INSTANCE TurnOrder WITH line <- Line

\* The lock implements the line: turns of a session run strictly in the order
\* in which acquire() was called, whoever the callers are ("whoever calls
\* acquire(sessionId) first runs first").
FirstComeFirstServed == Order!OrderSpec

\* Every call of acquire() resolves and its turn runs.
WaiterEventuallyRuns == \A c \in Callers : pc[c] = "waiting" ~> pc[c] = "running"
=============================================================================
