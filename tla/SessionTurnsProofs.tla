------------------------- MODULE SessionTurnsProofs -------------------------
(***************************************************************************)
(* What the turns that bypass the lock can and cannot disturb: they leave  *)
(* the lock's behaviour as it was, so its guarantees stand among the       *)
(* callers that take it, and an overlap of turns always has a direct turn  *)
(* of the same session in it.                                              *)
(***************************************************************************)
EXTENDS SessionTurns, SessionTurnLockProofs, FiniteSetTheorems

\* Beside any number of direct calls of runAgentLoop the lock goes through
\* exactly the behaviours it has without them: nothing a direct turn does
\* reaches _locked, _queues or a caller of acquire().
THEOREM DirectTurnsLeaveLock == TurnsSpec => LockSpec
<1>1. TurnsInit => LockInit
  BY DEF TurnsInit
<1>2. [TurnsNext]_turnVars => [LockNext]_lockVars
  <2> SUFFICES ASSUME [TurnsNext]_turnVars
               PROVE  [LockNext]_lockVars
    OBVIOUS
  <2>1. CASE LockNext
    BY <2>1
  <2>2. CASE \E d \in DirectCallers : DirectEnd(d) \/ \E s \in Sessions : DirectStart(d, s)
    BY <2>2 DEF DirectEnd, DirectStart
  <2>3. CASE UNCHANGED turnVars
    BY <2>3 DEF turnVars, lockVars
  <2>4. QED
    BY <2>1, <2>2, <2>3 DEF TurnsNext
<1>3. QED
  BY <1>1, <1>2, PTL DEF TurnsSpec, LockSpec

\* The turns that take the lock still run strictly in the order of their
\* acquire() calls when job handlers and chat routes run turns beside them.
THEOREM OrderBesideDirectTurns == TurnsSpec => FirstComeFirstServed
  BY DirectTurnsLeaveLock, ImplementsLine, PTL

\* A set in which any two members are equal has at most one.
LEMMA AtMostOne ==
  ASSUME NEW S, \A x, y \in S : x = y
  PROVE  Cardinality(S) \in {0, 1}
<1>1. CASE S = {}
  BY <1>1, FS_EmptySet
<1>2. CASE S # {}
  <2>1. PICK x \in S : S = {x}
    BY <1>2
  <2>2. QED
    BY <2>1, FS_Singleton
<1>3. QED
  BY <1>1, <1>2

\* The turns of one session, those that hold the lock and the direct ones, are
\* serialized whenever no direct turn works on it: what the run
\* turn_entry_points finds always involves a direct turn of that session.
SerializedUnlessDirect ==
  \A s \in Sessions :
    (\A d \in DirectCallers : direct[d] # s)
      => Cardinality({c \in Callers : pc[c] = "running" /\ session[c] = s})
           + Cardinality({d \in DirectCallers : direct[d] = s}) <= 1

\* The turns of a session on which no direct turn runs never overlap, for any
\* sets of callers, direct callers and sessions.
THEOREM OverlapNeedsDirectTurn == TurnsSpec => []SerializedUnlessDirect
<1>1. TurnMutex => SerializedUnlessDirect
  <2> SUFFICES ASSUME TurnMutex, NEW s \in Sessions,
                      \A d \in DirectCallers : direct[d] # s
               PROVE  Cardinality({c \in Callers : pc[c] = "running" /\ session[c] = s})
                        + Cardinality({d \in DirectCallers : direct[d] = s}) <= 1
    BY DEF SerializedUnlessDirect
  <2> DEFINE R == {c \in Callers : pc[c] = "running" /\ session[c] = s}
             D == {d \in DirectCallers : direct[d] = s}
  <2>1. \A x, y \in R : x = y
    BY DEF TurnMutex
  <2>2. Cardinality(R) \in {0, 1}
    <3> HIDE DEF R
    <3> QED BY <2>1, AtMostOne
  <2>3. D = {}
    OBVIOUS
  <2>4. Cardinality(D) = 0
    BY <2>3, FS_EmptySet
  <2>5. QED
    BY <2>2, <2>4
<1>2. QED
  BY <1>1, DirectTurnsLeaveLock, MutualExclusion, PTL
=============================================================================
