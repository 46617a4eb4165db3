---------------------------- MODULE SessionTurns ----------------------------
(***************************************************************************)
(* Every way a turn of the agent starts.  Channel messages and scheduled   *)
(* or queued tasks take the lock of SessionTurnLock.  The handler of       *)
(* "agent.message" jobs, which also serves the persistent timers, and the  *)
(* chat routes of the API call runAgentLoop without it                     *)
(* (packages/core/src/api/index.ts); a direct turn is one of those.        *)
(***************************************************************************)
EXTENDS SessionTurnLock, Naturals

CONSTANT DirectCallers   \* concurrent calls of runAgentLoop without the lock

VARIABLE direct          \* the session each of them works on

turnVars == <<locked, queues, pc, session, direct>>

\* runAgentLoop pushes the user message and reads the history at once.
DirectStart(d, s) ==
  /\ direct[d] = NoSession
  /\ direct' = [direct EXCEPT ![d] = s]
  /\ UNCHANGED lockVars

DirectEnd(d) ==
  /\ direct[d] # NoSession
  /\ direct' = [direct EXCEPT ![d] = NoSession]
  /\ UNCHANGED lockVars

TurnsInit == LockInit /\ direct = [d \in DirectCallers |-> NoSession]

TurnsNext ==
  \/ LockNext /\ UNCHANGED direct
  \/ \E d \in DirectCallers : DirectEnd(d) \/ \E s \in Sessions : DirectStart(d, s)

TurnsSpec == TurnsInit /\ [][TurnsNext]_turnVars

\* The comment of session-turn-lock.ts: "Two entry points can independently
\* start a turn for the same sessionId", both of which take the lock; so no two
\* turns of one session overlap.
TurnsOfSessionSerialized ==
  \A s \in Sessions :
    Cardinality({c \in Callers : pc[c] = "running" /\ session[c] = s})
      + Cardinality({d \in DirectCallers : direct[d] = s}) <= 1
=============================================================================
