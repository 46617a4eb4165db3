------------------------ MODULE SessionTurnLockProofs -----------------------
(***************************************************************************)
(* Theorems about SessionTurnLock for any callers and any sessions.        *)
(*                                                                         *)
(* The invariant ties the three places the code keeps the truth in (the    *)
(* _locked Set, the _queues Map and the suspended callers) to each other.  *)
(* From it follow mutual exclusion and, with the refinement mapping Line,  *)
(* that the lock implements the first-come-first-served line of TurnOrder. *)
(***************************************************************************)
EXTENDS SessionTurnLock, Integers, SequenceTheorems, TLAPS

-----------------------------------------------------------------------------
(* Sequences *)

\* What Append does to the elements of a queue.
LEMMA AppendFacts ==
  ASSUME NEW S, NEW q \in Seq(S), NEW x \in S
  PROVE  /\ Append(q, x) \in Seq(S) /\ Append(q, x) # <<>>
         /\ DOMAIN q = 1..Len(q) /\ Len(q) \in Nat
         /\ DOMAIN Append(q, x) = 1..(Len(q) + 1)
         /\ \A k \in 1..Len(q) : Append(q, x)[k] = q[k]
         /\ Append(q, x)[Len(q) + 1] = x
  OBVIOUS

\* What shift() does to the elements of a queue.
LEMMA TailFacts ==
  ASSUME NEW S, NEW q \in Seq(S), q # <<>>
  PROVE  /\ Tail(q) \in Seq(S) /\ Head(q) \in S
         /\ DOMAIN q = 1..Len(q) /\ Len(q) \in Nat \ {0} /\ Head(q) = q[1]
         /\ DOMAIN Tail(q) = 1..(Len(q) - 1)
         /\ \A k \in 1..(Len(q) - 1) : Tail(q)[k] = q[k + 1]
  OBVIOUS

\* A line is its head and its tail, and joining at the end leaves the head.
LEMMA LineFacts ==
  ASSUME NEW S, NEW q \in Seq(S), NEW h \in S, NEW x \in S
  PROVE  /\ Append(<<h>> \o q, x) = <<h>> \o Append(q, x)
         /\ Tail(<<h>> \o q) = q
         /\ <<h>> \o q # <<>>
         /\ <<h>> \o <<>> = <<h>>
         /\ Append(<<>>, x) = <<x>>
         /\ q # <<>> => q = <<Head(q)>> \o Tail(q)
  OBVIOUS

-----------------------------------------------------------------------------
(* The inductive invariant *)

\* Only callers without a pending call are without a session.
IdleIffNoSession == \A c \in Callers : pc[c] = "idle" <=> session[c] = NoSession

\* Nobody waits for a session that nobody holds: what keeps a newcomer from
\* overtaking, and the queue from being forgotten.
WaitBehindHolder == \A s \in Sessions : queues[s] # <<>> => s \in locked

LockInv ==
  /\ LockTypeOK /\ TurnMutex /\ LockedIffHeld /\ QueueListsWaiters
  /\ IdleIffNoSession /\ WaitBehindHolder

Inside(c) == pc[c] \in {"granted", "running"}

\* acquire() on a free session keeps the invariant.
LEMMA AcquireFree ==
  ASSUME LockInv, NEW c \in Callers, NEW s \in Sessions, Acquire(c, s), s \notin locked
  PROVE  LockInv'
<1>a. NoSession \notin Sessions
  BY SessionTurnLockAssumption DEF SessionTurnLockAssumption
<1>1. /\ pc[c] = "idle" /\ session[c] = NoSession /\ queues' = queues /\ locked' = locked \cup {s}
      /\ \A d \in Callers : pc'[d] = IF d = c THEN "granted" ELSE pc[d]
      /\ \A d \in Callers : session'[d] = IF d = c THEN s ELSE session[d]
  BY DEF Acquire, LockInv, LockTypeOK, IdleIffNoSession
<1>2. LockTypeOK'
  BY DEF Acquire, LockInv, LockTypeOK
<1>3. \A d \in Callers : ~(Inside(d) /\ session[d] = s)
  BY DEF LockInv, LockedIffHeld, Holders, Inside
<1>4. TurnMutex'
  BY <1>1, <1>3 DEF LockInv, TurnMutex, Inside
<1>5. LockedIffHeld'
  <2>1. \A r \in Sessions : Holders(r)' = IF r = s THEN {c} ELSE Holders(r)
    BY <1>1, <1>3, <1>a DEF Holders, Inside
  <2>2. QED
    BY <1>1, <2>1 DEF LockInv, LockedIffHeld
<1>6. QueueListsWaiters'
  <2>1. \A r \in Sessions : \A k \in DOMAIN queues[r] : queues[r][k] \in Callers
    BY DEF LockInv, LockTypeOK
  <2>2. QED
    BY <1>1, <2>1 DEF LockInv, QueueListsWaiters
<1>7. IdleIffNoSession' /\ WaitBehindHolder'
  BY <1>1, <1>a DEF LockInv, IdleIffNoSession, WaitBehindHolder
<1>8. QED
  BY <1>2, <1>4, <1>5, <1>6, <1>7 DEF LockInv

\* acquire() on a held session keeps the invariant.
LEMMA AcquireHeld ==
  ASSUME LockInv, NEW c \in Callers, NEW s \in Sessions, Acquire(c, s), s \in locked
  PROVE  LockInv'
<1>a. NoSession \notin Sessions
  BY SessionTurnLockAssumption DEF SessionTurnLockAssumption
<1>1. /\ pc[c] = "idle" /\ session[c] = NoSession /\ locked' = locked
      /\ \A d \in Callers : pc'[d] = IF d = c THEN "waiting" ELSE pc[d]
      /\ \A d \in Callers : session'[d] = IF d = c THEN s ELSE session[d]
      /\ \A r \in Sessions : queues'[r] = IF r = s THEN Append(queues[s], c) ELSE queues[r]
  BY DEF Acquire, LockInv, LockTypeOK, IdleIffNoSession
<1>b. \A r \in Sessions : queues[r] \in Seq(Callers)
  BY DEF LockInv, LockTypeOK
<1>c. \A q \in Seq(Callers) :
        /\ Append(q, c) \in Seq(Callers)
        /\ DOMAIN q = 1..Len(q) /\ Len(q) \in Nat
        /\ DOMAIN Append(q, c) = 1..(Len(q) + 1)
        /\ \A k \in 1..Len(q) : Append(q, c)[k] = q[k]
        /\ Append(q, c)[Len(q) + 1] = c
  BY AppendFacts
<1>2. LockTypeOK'
  <2>1. queues' = [queues EXCEPT ![s] = Append(queues[s], c)]
    BY DEF Acquire
  <2>2. queues' \in [Sessions -> Seq(Callers)]
    BY <1>b, <1>c, <2>1 DEF LockInv, LockTypeOK
  <2>3. QED
    BY <2>2 DEF Acquire, LockInv, LockTypeOK
<1>4. TurnMutex'
  BY <1>1 DEF LockInv, TurnMutex
<1>5. LockedIffHeld'
  <2>1. \A r \in Sessions : Holders(r)' = Holders(r)
    BY <1>1 DEF Holders
  <2>2. QED
    BY <1>1, <2>1 DEF LockInv, LockedIffHeld
<1>6. QueueListsWaiters'
  <2> SUFFICES ASSUME NEW r \in Sessions
               PROVE  /\ \A k \in DOMAIN queues'[r] : pc'[queues'[r][k]] = "waiting" /\ session'[queues'[r][k]] = r
                      /\ \A j, k \in DOMAIN queues'[r] : queues'[r][j] = queues'[r][k] => j = k
                      /\ \A d \in Callers : pc'[d] = "waiting" /\ session'[d] = r
                           => \E k \in DOMAIN queues'[r] : queues'[r][k] = d
    BY DEF QueueListsWaiters
  <2> DEFINE q == queues[r]
  <2>1. /\ \A k \in DOMAIN q : q[k] \in Callers /\ pc[q[k]] = "waiting" /\ session[q[k]] = r
        /\ \A j, k \in DOMAIN q : q[j] = q[k] => j = k
        /\ \A d \in Callers : pc[d] = "waiting" /\ session[d] = r => \E k \in DOMAIN q : q[k] = d
    BY <1>b DEF LockInv, QueueListsWaiters
  <2>2. CASE r # s
    BY <1>1, <2>1, <2>2
  <2>3. CASE r = s
    <3>1. /\ DOMAIN q = 1..Len(q) /\ Len(q) \in Nat
          /\ queues'[r] = Append(q, c)
          /\ DOMAIN queues'[r] = 1..(Len(q) + 1)
          /\ \A k \in 1..Len(q) : queues'[r][k] = q[k]
          /\ queues'[r][Len(q) + 1] = c
      <4>1. q \in Seq(Callers) /\ queues'[r] = Append(q, c)
        BY <1>1, <1>b, <2>3
      <4> HIDE DEF q
      <4>2. QED
        BY <1>c, <4>1
    <3>2. \A k \in 1..Len(q) : q[k] # c
      BY <1>1, <2>1, <3>1
    <3> HIDE DEF q
    <3>3. \A k \in DOMAIN queues'[r] : k \in 1..Len(q) \/ k = Len(q) + 1
      BY <3>1
    <3>4. \A k \in DOMAIN queues'[r] : pc'[queues'[r][k]] = "waiting" /\ session'[queues'[r][k]] = r
      BY <1>1, <2>1, <2>3, <3>1, <3>3
    <3>5. \A j, k \in DOMAIN queues'[r] : queues'[r][j] = queues'[r][k] => j = k
      BY <2>1, <3>1, <3>2, <3>3
    <3>6. \A d \in Callers : pc'[d] = "waiting" /\ session'[d] = r
            => \E k \in DOMAIN queues'[r] : queues'[r][k] = d
      <4> SUFFICES ASSUME NEW d \in Callers, pc'[d] = "waiting", session'[d] = r
                   PROVE  \E k \in DOMAIN queues'[r] : queues'[r][k] = d
        OBVIOUS
      <4>1. CASE d = c
        BY <3>1, <4>1
      <4>2. CASE d # c
        <5>1. PICK k \in 1..Len(q) : q[k] = d
          BY <1>1, <2>1, <3>1, <4>2
        <5>2. k \in DOMAIN queues'[r] /\ queues'[r][k] = d
          BY <3>1, <5>1
        <5>3. QED
          BY <5>2
      <4>3. QED
        BY <4>1, <4>2
    <3>7. QED
      BY <3>4, <3>5, <3>6
  <2>4. QED
    BY <2>2, <2>3
<1>7. IdleIffNoSession'
  BY <1>1, <1>a DEF LockInv, IdleIffNoSession
<1>8. WaitBehindHolder'
  BY <1>1 DEF LockInv, WaitBehindHolder
<1>9. QED
  BY <1>2, <1>4, <1>5, <1>6, <1>7, <1>8 DEF LockInv

\* Resuming after the await changes nothing the lock keeps.
LEMMA StartKeeps ==
  ASSUME LockInv, NEW c \in Callers, StartTurn(c)
  PROVE  LockInv'
<1>1. /\ pc[c] = "granted" /\ UNCHANGED <<locked, queues, session>>
      /\ \A d \in Callers : pc'[d] = IF d = c THEN "running" ELSE pc[d]
  BY DEF StartTurn, LockInv, LockTypeOK
<1>2. LockTypeOK'
  BY DEF StartTurn, LockInv, LockTypeOK
<1>3. TurnMutex'
  BY <1>1 DEF LockInv, TurnMutex
<1>4. LockedIffHeld'
  <2>1. \A r \in Sessions : Holders(r)' = Holders(r)
    BY <1>1 DEF Holders
  <2>2. QED
    BY <1>1, <2>1 DEF LockInv, LockedIffHeld
<1>5. QueueListsWaiters'
  <2>1. \A r \in Sessions : \A k \in DOMAIN queues[r] : queues[r][k] \in Callers
    BY DEF LockInv, LockTypeOK
  <2>2. QED
    BY <1>1, <2>1 DEF LockInv, QueueListsWaiters
<1>6. IdleIffNoSession' /\ WaitBehindHolder'
  BY <1>1 DEF LockInv, IdleIffNoSession, WaitBehindHolder
<1>7. QED
  BY <1>2, <1>3, <1>4, <1>5, <1>6 DEF LockInv

\* release() with somebody waiting hands the lock over and keeps the invariant.
LEMMA HandOverKeeps ==
  ASSUME LockInv, NEW c \in Callers, EndTurn(c), queues[session[c]] # <<>>
  PROVE  LockInv'
<1> DEFINE s == session[c]
           q == queues[s]
           n == Head(q)
<1>a. NoSession \notin Sessions
  BY SessionTurnLockAssumption DEF SessionTurnLockAssumption
<1>b. pc[c] = "running" /\ s \in Sessions
  BY DEF EndTurn, LockInv, LockTypeOK, IdleIffNoSession
<1>c. \A r \in Sessions : queues[r] \in Seq(Callers)
  BY DEF LockInv, LockTypeOK
<1>d. /\ Tail(q) \in Seq(Callers) /\ n \in Callers
      /\ DOMAIN q = 1..Len(q) /\ Len(q) \in Nat \ {0} /\ n = q[1]
      /\ DOMAIN Tail(q) = 1..(Len(q) - 1)
      /\ \A k \in 1..(Len(q) - 1) : Tail(q)[k] = q[k + 1]
  <2>1. q \in Seq(Callers) /\ q # <<>>
    BY <1>b, <1>c
  <2> HIDE DEF q
  <2>2. QED
    BY <2>1, TailFacts DEF n
<1>e. /\ \A k \in DOMAIN q : q[k] \in Callers /\ pc[q[k]] = "waiting" /\ session[q[k]] = s
      /\ \A j, k \in DOMAIN q : q[j] = q[k] => j = k
      /\ \A d \in Callers : pc[d] = "waiting" /\ session[d] = s => \E k \in DOMAIN q : q[k] = d
  BY <1>b, <1>c DEF LockInv, QueueListsWaiters
<1>f. pc[n] = "waiting" /\ session[n] = s /\ n # c
  BY <1>b, <1>d, <1>e
<1>g. queues' = [queues EXCEPT ![s] = Tail(q)] /\ locked' = locked
  BY DEF EndTurn, Release
<1>1. /\ \A d \in Callers : pc'[d] = IF d = c THEN "idle" ELSE IF d = n THEN "granted" ELSE pc[d]
      /\ \A d \in Callers : session'[d] = IF d = c THEN NoSession ELSE session[d]
      /\ \A r \in Sessions : queues'[r] = IF r = s THEN Tail(q) ELSE queues[r]
  <2>1. \A d \in Callers : session'[d] = IF d = c THEN NoSession ELSE session[d]
    BY DEF EndTurn, LockInv, LockTypeOK
  <2>2. \A d \in Callers : pc'[d] = IF d = c THEN "idle" ELSE IF d = n THEN "granted" ELSE pc[d]
    BY DEF EndTurn
  <2>3. \A r \in Sessions : queues'[r] = IF r = s THEN Tail(q) ELSE queues[r]
    BY <1>g DEF LockInv, LockTypeOK
  <2>4. QED
    BY <2>1, <2>2, <2>3
<1>2. LockTypeOK'
  <2>1. queues' \in [Sessions -> Seq(Callers)]
    BY <1>b, <1>c, <1>d, <1>g DEF LockInv, LockTypeOK
  <2>2. pc' \in [Callers -> {"idle", "waiting", "granted", "running"}]
    BY DEF EndTurn, LockInv, LockTypeOK
  <2>3. session' \in [Callers -> Sessions \cup {NoSession}]
    BY DEF EndTurn, LockInv, LockTypeOK
  <2>4. QED
    BY <1>g, <2>1, <2>2, <2>3 DEF LockInv, LockTypeOK
<1>3. \A d \in Callers : Inside(d) /\ session[d] = s => d = c
  BY <1>b DEF LockInv, TurnMutex, Inside
<1> HIDE DEF q, n, s
<1>4. TurnMutex'
  <2> SUFFICES ASSUME NEW d \in Callers, NEW e \in Callers, Inside(d)', Inside(e)',
                      session'[d] = session'[e]
               PROVE  d = e
    BY DEF TurnMutex, Inside
  <2>1. d # c /\ e # c
    BY <1>1 DEF Inside
  <2>2. session[d] = session[e]
    BY <1>1, <2>1
  <2>3. (d = n \/ Inside(d)) /\ (e = n \/ Inside(e))
    BY <1>1, <2>1 DEF Inside
  <2>4. Inside(d) /\ Inside(e) => d = e
    BY <2>2 DEF LockInv, TurnMutex, Inside
  <2>5. QED
    BY <1>3, <1>f, <2>1, <2>2, <2>3, <2>4
<1>5. LockedIffHeld'
  <2>1. \A r \in Sessions : r # s => Holders(r)' = Holders(r)
    BY <1>1, <1>f, <1>a, <1>d DEF Holders, s
  <2>2. \A r \in Sessions : r = s => n \in Holders(r)'
    BY <1>1, <1>d, <1>f DEF Holders
  <2>3. \A r \in Sessions : r = s => c \in Holders(r)
    BY <1>b DEF Holders, s
  <2>4. QED
    BY <1>b, <1>g, <2>1, <2>2, <2>3 DEF LockInv, LockedIffHeld
<1>6. QueueListsWaiters'
  <2> SUFFICES ASSUME NEW r \in Sessions
               PROVE  /\ \A k \in DOMAIN queues'[r] : pc'[queues'[r][k]] = "waiting" /\ session'[queues'[r][k]] = r
                      /\ \A j, k \in DOMAIN queues'[r] : queues'[r][j] = queues'[r][k] => j = k
                      /\ \A d \in Callers : pc'[d] = "waiting" /\ session'[d] = r
                           => \E k \in DOMAIN queues'[r] : queues'[r][k] = d
    BY DEF QueueListsWaiters
  <2>1. CASE r # s
    <3> DEFINE p == queues[r]
    <3>1. /\ \A k \in DOMAIN p : p[k] \in Callers /\ pc[p[k]] = "waiting" /\ session[p[k]] = r
          /\ \A j, k \in DOMAIN p : p[j] = p[k] => j = k
          /\ \A d \in Callers : pc[d] = "waiting" /\ session[d] = r => \E k \in DOMAIN p : p[k] = d
      BY <1>c DEF LockInv, QueueListsWaiters
    <3>2. queues'[r] = p
      BY <1>1, <2>1
    <3> HIDE DEF p
    <3>3. \A k \in DOMAIN p : p[k] # c /\ p[k] # n
      BY <1>b, <1>f, <2>1, <3>1
    <3>4. QED
      BY <1>1, <3>1, <3>2, <3>3
  <2>2. CASE r = s
    <3> DEFINE t == Tail(q)
    <3>1. queues'[r] = t
      BY <1>1, <2>2
    <3>2. \A k \in DOMAIN t : k \in DOMAIN q /\ k + 1 \in DOMAIN q /\ k + 1 # 1 /\ t[k] = q[k + 1]
      BY <1>d
    <3>3. \A k \in DOMAIN t : t[k] \in Callers /\ t[k] # c /\ t[k] # n
      BY <1>b, <1>d, <1>e, <3>2
    <3>4. \A k \in DOMAIN t : pc'[t[k]] = "waiting" /\ session'[t[k]] = r
      BY <1>1, <1>e, <2>2, <3>2, <3>3
    <3>5. \A j, k \in DOMAIN t : t[j] = t[k] => j = k
      <4> SUFFICES ASSUME NEW j \in DOMAIN t, NEW k \in DOMAIN t, t[j] = t[k]
                   PROVE  j = k
        OBVIOUS
      <4>1. j + 1 = k + 1
        BY <1>e, <3>2
      <4>2. j \in Int /\ k \in Int
        BY <1>d
      <4>3. QED
        BY <4>1, <4>2
    <3>6. \A d \in Callers : pc'[d] = "waiting" /\ session'[d] = r => \E k \in DOMAIN t : t[k] = d
      <4> SUFFICES ASSUME NEW d \in Callers, pc'[d] = "waiting", session'[d] = r
                   PROVE  \E k \in DOMAIN t : t[k] = d
        OBVIOUS
      <4>1. d # c /\ d # n /\ pc[d] = "waiting" /\ session[d] = s
        BY <1>1, <2>2
      <4>2. PICK k \in DOMAIN q : q[k] = d
        BY <1>e, <4>1
      <4>3. k # 1 /\ k \in 1..Len(q) /\ Len(q) \in Nat
        BY <1>d, <4>1, <4>2
      <4>4. k - 1 \in 1..(Len(q) - 1) /\ (k - 1) + 1 = k
        BY <4>3
      <4>5. k - 1 \in DOMAIN t /\ t[k - 1] = q[(k - 1) + 1]
        BY <1>d, <4>4
      <4>6. QED
        BY <4>2, <4>4, <4>5
    <3> HIDE DEF t
    <3>7. QED
      BY <3>1, <3>4, <3>5, <3>6
  <2>3. QED
    BY <2>1, <2>2
<1>7. IdleIffNoSession'
  <2>1. session[n] # NoSession
    BY <1>a, <1>b, <1>f
  <2>2. QED
    BY <1>1, <2>1 DEF LockInv, IdleIffNoSession
<1>8. WaitBehindHolder'
  <2>1. s \in locked
    BY <1>b DEF LockInv, LockedIffHeld, Holders, s
  <2>2. QED
    BY <1>1, <1>g, <2>1 DEF LockInv, WaitBehindHolder
<1>9. QED
  BY <1>2, <1>4, <1>5, <1>6, <1>7, <1>8 DEF LockInv

\* release() with nobody waiting unlocks the session and keeps the invariant.
LEMMA UnlockKeeps ==
  ASSUME LockInv, NEW c \in Callers, EndTurn(c), queues[session[c]] = <<>>
  PROVE  LockInv'
<1> DEFINE s == session[c]
<1>a. NoSession \notin Sessions
  BY SessionTurnLockAssumption DEF SessionTurnLockAssumption
<1>b. pc[c] = "running" /\ s \in Sessions
  BY DEF EndTurn, LockInv, LockTypeOK, IdleIffNoSession
<1>1. /\ \A d \in Callers : pc'[d] = IF d = c THEN "idle" ELSE pc[d]
      /\ \A d \in Callers : session'[d] = IF d = c THEN NoSession ELSE session[d]
      /\ queues' = queues /\ locked' = locked \ {s}
  <2>1. \A d \in Callers : session'[d] = IF d = c THEN NoSession ELSE session[d]
    BY DEF EndTurn, LockInv, LockTypeOK
  <2>2. \A d \in Callers : pc'[d] = IF d = c THEN "idle" ELSE pc[d]
    BY DEF EndTurn
  <2>3. QED
    BY <2>1, <2>2 DEF EndTurn, Release
<1>2. LockTypeOK'
  <2>1. pc' \in [Callers -> {"idle", "waiting", "granted", "running"}]
    BY DEF EndTurn, LockInv, LockTypeOK
  <2>2. QED
    BY <1>1, <2>1 DEF EndTurn, LockInv, LockTypeOK
<1>3. \A d \in Callers : Inside(d) /\ session[d] = s => d = c
  BY <1>b DEF LockInv, TurnMutex, Inside
<1>4. TurnMutex'
  BY <1>1 DEF LockInv, TurnMutex
<1>5. LockedIffHeld'
  <2>1. \A r \in Sessions : Holders(r)' = IF r = s THEN {} ELSE Holders(r)
    BY <1>1, <1>3, <1>a DEF Holders, Inside
  <2>2. QED
    BY <1>1, <2>1 DEF LockInv, LockedIffHeld
<1>6. QueueListsWaiters'
  <2>1. \A r \in Sessions : \A k \in DOMAIN queues[r] :
           queues[r][k] \in Callers /\ queues[r][k] # c
    BY <1>b DEF LockInv, LockTypeOK, QueueListsWaiters
  <2>2. QED
    BY <1>1, <2>1 DEF LockInv, QueueListsWaiters
<1>7. IdleIffNoSession' /\ WaitBehindHolder'
  BY <1>1 DEF LockInv, IdleIffNoSession, WaitBehindHolder
<1>8. QED
  BY <1>2, <1>4, <1>5, <1>6, <1>7 DEF LockInv

-----------------------------------------------------------------------------
(* The refinement mapping *)

\* Who has the session is the head of its line.
LEMMA LineOfHolder ==
  ASSUME LockInv, NEW c \in Callers, NEW s \in Sessions, c \in Holders(s)
  PROVE  Line[s] = <<c>> \o queues[s]
<1>1. Holders(s) = {c}
  BY DEF LockInv, TurnMutex, Holders
<1>2. (CHOOSE d \in Callers : d \in Holders(s)) = c
  BY <1>1
<1>3. QED
  BY <1>1, <1>2 DEF Line

\* Nobody stands in the line of a free session.
LEMMA LineOfFree ==
  ASSUME LockInv, NEW s \in Sessions, s \notin locked
  PROVE  Line[s] = <<>>
  BY DEF LockInv, LockedIffHeld, WaitBehindHolder, Line

\* A line changes only with the holders and the queue of its session.
LEMMA LineUnchanged ==
  ASSUME NEW s \in Sessions, Holders(s)' = Holders(s), queues'[s] = queues[s]
  PROVE  Line'[s] = Line[s]
  BY DEF Line

\* An idle caller stands in no line.
LEMMA IdleStandsNowhere ==
  ASSUME LockInv, NEW c \in Callers, pc[c] = "idle", NEW s \in Sessions
  PROVE  ~Order!StandsIn(c, s)
<1>1. SUFFICES ASSUME NEW k \in DOMAIN Line[s], Line[s][k] = c
               PROVE  FALSE
  BY DEF Order!StandsIn
<1>2. queues[s] \in Seq(Callers) /\ \A j \in DOMAIN queues[s] : queues[s][j] # c
  BY DEF LockInv, LockTypeOK, QueueListsWaiters
<1>3. CASE Holders(s) = {}
  BY <1>1, <1>2, <1>3 DEF Line
<1>4. CASE Holders(s) # {}
  <2>1. PICK h \in Callers : h \in Holders(s)
    BY <1>4 DEF Holders
  <2>2. h # c /\ Line[s] = <<h>> \o queues[s]
    BY <2>1, LineOfHolder DEF Holders
  <2>3. \A j \in DOMAIN (<<h>> \o queues[s]) : (<<h>> \o queues[s])[j] # c
    <3> DEFINE q == queues[s]
    <3>1. q \in Seq(Callers) /\ \A j \in DOMAIN q : q[j] # c
      BY <1>2
    <3> HIDE DEF q
    <3>2. \A j \in DOMAIN (<<h>> \o q) : (<<h>> \o q)[j] # c
      BY <3>1, <2>2
    <3>3. QED
      BY <3>2 DEF q
  <2>4. QED
    BY <1>1, <2>2, <2>3
<1>5. QED
  BY <1>3, <1>4

\* The head of a line after a step.
LEMMA LineOfNextHolder ==
  ASSUME NEW c \in Callers, NEW s \in Sessions, Holders(s)' = {c}
  PROVE  Line'[s] = <<c>> \o queues'[s]
<1>1. (CHOOSE d \in Callers : d \in Holders(s)') = c
  OBVIOUS
<1>2. Line'[s] = IF Holders(s)' = {} THEN queues'[s]
                 ELSE <<CHOOSE d \in Callers : d \in Holders(s)'>> \o queues'[s]
  BY DEF Line
<1>3. QED
  BY <1>1, <1>2

\* A step that changes the line of one session only.
LEMMA LineExcept ==
  ASSUME NEW s \in Sessions, NEW x, Line'[s] = x,
         \A r \in Sessions : r # s => Line'[r] = Line[r]
  PROVE  Line' = [Line EXCEPT ![s] = x]
<1>1. Line = [r \in Sessions |-> Line[r]] /\ Line' = [r \in Sessions |-> Line'[r]]
  BY DEF Line
<1>2. QED
  BY <1>1

\* acquire() joins the end of the line.
LEMMA AcquireAsks ==
  ASSUME LockInv, NEW c \in Callers, NEW s \in Sessions, Acquire(c, s)
  PROVE  Order!Ask(c, s)
<1>a. NoSession \notin Sessions
  BY SessionTurnLockAssumption DEF SessionTurnLockAssumption
<1>b. /\ pc[c] = "idle" /\ session[c] = NoSession
      /\ queues[s] \in Seq(Callers)
      /\ \A d \in Callers : session'[d] = IF d = c THEN s ELSE session[d]
  BY DEF Acquire, LockInv, LockTypeOK, IdleIffNoSession
<1>1. Line'[s] = Append(Line[s], c)
  <2>1. CASE s \notin locked
    <3>1. /\ queues' = queues
          /\ \A d \in Callers : pc'[d] = IF d = c THEN "granted" ELSE pc[d]
      BY <2>1 DEF Acquire, LockInv, LockTypeOK
    <3>2. Holders(s) = {} /\ queues[s] = <<>>
      BY <2>1 DEF LockInv, LockedIffHeld, WaitBehindHolder
    <3>3. Holders(s)' = {c}
      BY <1>b, <3>1, <3>2 DEF Holders
    <3>4. Line'[s] = <<c>> \o queues'[s]
      BY <3>3, LineOfNextHolder
    <3>5. Line[s] = <<>>
      BY <2>1, LineOfFree
    <3>6. <<c>> \o <<>> = Append(<<>>, c)
      BY <1>b, LineFacts
    <3>7. QED
      BY <3>1, <3>2, <3>4, <3>5, <3>6
  <2>2. CASE s \in locked
    <3>1. /\ queues'[s] = Append(queues[s], c)
          /\ \A d \in Callers : pc'[d] = IF d = c THEN "waiting" ELSE pc[d]
      BY <2>2 DEF Acquire, LockInv, LockTypeOK
    <3>2. PICK h \in Callers : h \in Holders(s)
      BY <2>2 DEF LockInv, LockedIffHeld, Holders
    <3>3. Holders(s) = {h}
      BY <3>2 DEF LockInv, TurnMutex, Holders
    <3>4. Holders(s)' = {h}
      BY <1>b, <3>1, <3>3 DEF Holders
    <3>5. Line[s] = <<h>> \o queues[s] /\ Line'[s] = <<h>> \o queues'[s]
      BY <3>2, <3>4, LineOfHolder, LineOfNextHolder
    <3>6. Append(<<h>> \o queues[s], c) = <<h>> \o Append(queues[s], c)
      BY <1>b, LineFacts
    <3>7. QED
      BY <3>1, <3>5, <3>6
  <2>3. QED
    BY <2>1, <2>2
<1>2. ASSUME NEW r \in Sessions, r # s
      PROVE  Line'[r] = Line[r]
  <2>1. queues'[r] = queues[r] /\ \A d \in Callers : d # c => pc'[d] = pc[d]
    BY <1>2 DEF Acquire, LockInv, LockTypeOK
  <2>2. Holders(r)' = Holders(r)
    BY <1>a, <1>b, <1>2, <2>1 DEF Holders
  <2>3. QED
    BY <2>1, <2>2, LineUnchanged
<1>3. Line' = [Line EXCEPT ![s] = Append(Line[s], c)]
  BY <1>1, <1>2, LineExcept
<1>4. \A r \in Sessions : ~Order!StandsIn(c, r)
  BY <1>b, IdleStandsNowhere
<1>5. QED
  BY <1>3, <1>4 DEF Order!Ask

\* Resuming after the await moves nobody.
LEMMA StartStutters ==
  ASSUME LockInv, NEW c \in Callers, StartTurn(c)
  PROVE  Line' = Line
<1>1. /\ pc[c] = "granted" /\ UNCHANGED <<queues, session>>
      /\ \A d \in Callers : pc'[d] = IF d = c THEN "running" ELSE pc[d]
  BY DEF StartTurn, LockInv, LockTypeOK
<1>2. \A r \in Sessions : Holders(r)' = Holders(r)
  BY <1>1 DEF Holders
<1>3. \A r \in Sessions : Line'[r] = Line[r]
  BY <1>1, <1>2, LineUnchanged
<1>4. QED
  BY <1>3 DEF Line

\* The end of a turn takes the head off its line, and the next in line is the
\* one the lock is handed to.
LEMMA EndLeaves ==
  ASSUME LockInv, NEW c \in Callers, EndTurn(c)
  PROVE  \E s \in Sessions : Order!Leave(s)
<1>a. NoSession \notin Sessions
  BY SessionTurnLockAssumption DEF SessionTurnLockAssumption
<1>0. PICK s \in Sessions : session[c] = s
  BY DEF EndTurn, LockInv, LockTypeOK, IdleIffNoSession
<1>b. /\ pc[c] = "running" /\ queues[s] \in Seq(Callers)
      /\ \A d \in Callers : session'[d] = IF d = c THEN NoSession ELSE session[d]
  BY <1>0 DEF EndTurn, LockInv, LockTypeOK
<1>c. Holders(s) = {c}
  BY <1>0, <1>b DEF LockInv, TurnMutex, Holders
<1>d. Line[s] = <<c>> \o queues[s]
  BY <1>c, LineOfHolder
<1>e. Tail(Line[s]) = queues[s] /\ Line[s] # <<>>
  <2>1. Tail(<<c>> \o queues[s]) = queues[s] /\ <<c>> \o queues[s] # <<>>
    BY <1>b, LineFacts
  <2>2. QED
    BY <1>d, <2>1
<1>1. CASE queues[s] = <<>>
  <2>1. queues' = queues /\ \A d \in Callers : pc'[d] = IF d = c THEN "idle" ELSE pc[d]
    <3>1. queues' = queues
      BY <1>0, <1>1 DEF EndTurn, Release
    <3>2. \A d \in Callers : pc'[d] = IF d = c THEN "idle" ELSE pc[d]
      BY <1>0, <1>1 DEF EndTurn
    <3>3. QED
      BY <3>1, <3>2
  <2>2. \A r \in Sessions : Holders(r)' = IF r = s THEN {} ELSE Holders(r)
    BY <1>a, <1>0, <1>b, <1>c, <2>1 DEF Holders
  <2>3. Line'[s] = queues[s]
    BY <2>1, <2>2 DEF Line
  <2>4. \A r \in Sessions : r # s => Line'[r] = Line[r]
    BY <2>1, <2>2, LineUnchanged
  <2>5. Line' = [Line EXCEPT ![s] = Tail(Line[s])]
    BY <1>e, <2>3, <2>4, LineExcept
  <2>6. QED
    BY <1>e, <2>5 DEF Order!Leave
<1>2. CASE queues[s] # <<>>
  <2> DEFINE q == queues[s]
             n == Head(q)
  <2>1. /\ n \in Callers /\ Tail(q) \in Seq(Callers) /\ q = <<n>> \o Tail(q)
        /\ n = q[1] /\ 1 \in DOMAIN q
    <3>1. q \in Seq(Callers) /\ q # <<>>
      BY <1>b, <1>2
    <3> HIDE DEF q
    <3>2. /\ n \in Callers /\ Tail(q) \in Seq(Callers) /\ n = q[1] /\ 1 \in DOMAIN q
      BY <3>1, TailFacts DEF n
    <3>3. q = <<n>> \o Tail(q)
      BY <3>1, <3>2, LineFacts DEF n
    <3>4. QED
      BY <3>2, <3>3
  <2>2. pc[n] = "waiting" /\ session[n] = s
    BY <2>1 DEF LockInv, QueueListsWaiters
  <2>3. /\ \A d \in Callers : pc'[d] = IF d = c THEN "idle" ELSE IF d = n THEN "granted" ELSE pc[d]
        /\ \A r \in Sessions : queues'[r] = IF r = s THEN Tail(q) ELSE queues[r]
    <3>1. \A d \in Callers : pc'[d] = IF d = c THEN "idle" ELSE IF d = n THEN "granted" ELSE pc[d]
      BY <1>0, <1>2 DEF EndTurn
    <3>2. \A r \in Sessions : queues'[r] = IF r = s THEN Tail(q) ELSE queues[r]
      BY <1>0, <1>2 DEF EndTurn, Release, LockInv, LockTypeOK
    <3>3. QED
      BY <3>1, <3>2
  <2> HIDE DEF q, n
  <2>4. PICK m \in Callers : m = n
    BY <2>1
  <2>5. Holders(s)' = {m}
    BY <1>0, <1>b, <1>c, <2>2, <2>3, <2>4, <1>a DEF Holders
  <2>6. \A r \in Sessions : r # s => Holders(r)' = Holders(r)
    BY <1>0, <1>b, <1>a, <2>2, <2>3 DEF Holders
  <2>7. Line'[s] = q
    BY <2>1, <2>3, <2>4, <2>5, LineOfNextHolder
  <2>8. \A r \in Sessions : r # s => Line'[r] = Line[r]
    BY <2>3, <2>6, LineUnchanged
  <2>9. Line' = [Line EXCEPT ![s] = Tail(Line[s])]
    BY <1>e, <2>7, <2>8, LineExcept DEF q
  <2>10. QED
    BY <1>e, <2>9 DEF Order!Leave
<1>3. QED
  BY <1>1, <1>2

-----------------------------------------------------------------------------
(* Theorems *)

\* The Set, the Map and the callers agree in every reachable state of
\* packages/core/src/session-turn-lock.ts.
THEOREM LockInvariant == LockSpec => []LockInv
<1>1. LockInit => LockInv
  <2> SUFFICES ASSUME LockInit
               PROVE  LockInv
    OBVIOUS
  <2>1. LockTypeOK
    BY DEF LockInit, LockTypeOK
  <2>2. TurnMutex /\ LockedIffHeld
    BY DEF LockInit, TurnMutex, LockedIffHeld, Holders
  <2>3. QueueListsWaiters
    BY DEF LockInit, QueueListsWaiters
  <2>4. IdleIffNoSession /\ WaitBehindHolder
    BY DEF LockInit, IdleIffNoSession, WaitBehindHolder
  <2>5. QED
    BY <2>1, <2>2, <2>3, <2>4 DEF LockInv
<1>2. LockInv /\ [LockNext]_lockVars => LockInv'
  <2>1. ASSUME LockInv, NEW c \in Callers, NEW s \in Sessions, Acquire(c, s)
        PROVE  LockInv'
    BY <2>1, AcquireFree, AcquireHeld
  <2>2. ASSUME LockInv, NEW c \in Callers, EndTurn(c)
        PROVE  LockInv'
    BY <2>2, HandOverKeeps, UnlockKeeps
  <2>3. ASSUME LockInv, UNCHANGED lockVars
        PROVE  LockInv'
    BY <2>3 DEF lockVars, LockInv, LockTypeOK, TurnMutex, LockedIffHeld, Holders,
                QueueListsWaiters, IdleIffNoSession, WaitBehindHolder
  <2>4. QED
    BY <2>1, <2>2, <2>3, StartKeeps DEF LockNext
<1>3. QED
  BY <1>1, <1>2, PTL DEF LockSpec

\* Two turns that take the lock never run on one session at the same time.
THEOREM MutualExclusion == LockSpec => []TurnMutex
<1>1. LockInv => TurnMutex
  BY DEF LockInv
<1>2. QED
  BY <1>1, LockInvariant, PTL

\* _locked, _queues and the callers' places keep their types.
THEOREM LockTyped == LockSpec => []LockTypeOK
<1>1. LockInv => LockTypeOK
  BY DEF LockInv
<1>2. QED
  BY <1>1, LockInvariant, PTL

\* _release never strands a session: it is locked exactly while somebody inside
\* is going to release it.
THEOREM NoLostHandOver == LockSpec => []LockedIffHeld
<1>1. LockInv => LockedIffHeld
  BY DEF LockInv
<1>2. QED
  BY <1>1, LockInvariant, PTL

\* acquire() and _release() lose no waiter and list none twice: the queue of a
\* session is made of its waiters, each once.
THEOREM WaitersQueuedOnce == LockSpec => []QueueListsWaiters
<1>1. LockInv => QueueListsWaiters
  BY DEF LockInv
<1>2. QED
  BY <1>1, LockInvariant, PTL

\* The lock implements the first-come-first-served line of TurnOrder.
THEOREM ImplementsLine == LockSpec => FirstComeFirstServed
<1>1. LockInit => Order!OrderInit
  BY DEF LockInit, Order!OrderInit, Line, Holders
<1>2. LockInv /\ [LockNext]_lockVars => [Order!OrderNext]_Line
  <2>1. ASSUME LockInv, NEW c \in Callers, NEW s \in Sessions, Acquire(c, s)
        PROVE  Order!OrderNext
    BY <2>1, AcquireAsks DEF Order!OrderNext
  <2>2. ASSUME LockInv, NEW c \in Callers, EndTurn(c)
        PROVE  Order!OrderNext
    BY <2>2, EndLeaves DEF Order!OrderNext
  <2>3. ASSUME UNCHANGED lockVars
        PROVE  Line' = Line
    BY <2>3 DEF lockVars, Line, Holders
  <2>4. QED
    BY <2>1, <2>2, <2>3, StartStutters DEF LockNext
<1>3. QED
  BY <1>1, <1>2, LockInvariant, PTL DEF LockSpec, FirstComeFirstServed, Order!OrderSpec
=============================================================================
