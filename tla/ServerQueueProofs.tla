-------------------------- MODULE ServerQueueProofs -------------------------
(***************************************************************************)
(* The safety invariants of ServerQueue for any requests and any number of *)
(* slots.                                                                  *)
(*                                                                         *)
(* The inductive invariant has three parts besides the types: which thread *)
(* may hold what (Control), that NEXT_RESPONSE is pending from the start of*)
(* a decode with a busy slot until the main thread looks at the queue      *)
(* again (NextPosted), and where each request is (Placed).  Sequences are  *)
(* reasoned about through the predicates In and Once of SequenceFacts.     *)
(* On top of it: the order of the pending tasks, and that no notification  *)
(* is lost.                                                                *)
(***************************************************************************)
EXTENDS ServerQueue, SequenceFacts, FiniteSetTheorems, TLAPS

-----------------------------------------------------------------------------
(* The inductive invariant.                                                *)

YieldStates == {"notify", "work", "join"}

\* Which thread may hold what, and when the server can be asleep.
Control ==
  /\ worker \in {"process", "handle", "check", "wait", "end"} => busy
  /\ busy => main \in YieldStates
  /\ yielding => main \in {"notify", "work"}
  /\ wInHand # NoItem <=> worker = "handle"
  /\ unhandled # <<>> => main \in YieldStates
  /\ inHand # NoItem => main = "handle"
  /\ sleeping => \/ main = "asleep"
                 \/ /\ ~running
                    /\ main \in {"process", "stop", "stopNotify", "joinWorker", "ended"}

NextPending == In(queue, NextResponse) \/ In(unhandled, NextResponse) \/ wInHand = NextResponse

\* NEXT_RESPONSE is pending while a slot is at work between the start of
\* update_slots() and the next look at the queue, so the main thread neither
\* waits nor sleeps.
NextPosted ==
  /\ (IdleSlots # Slots /\ main \in {"decode", "notify", "work", "join", "decoded", "idle"})
        => NextPending
  /\ (main \in {"wait", "asleep"} \/ sleeping) => IdleSlots = Slots

InSlot(t) == \E s \in Slots : slot[s] = t

Somewhere(t) ==
  \/ In(queue, Run(t)) \/ In(deferred, Run(t)) \/ In(unhandled, Run(t))
  \/ inHand = Run(t) \/ wInHand = Run(t) \/ InSlot(t)

\* A request is in one place at most.
OnePlace(t) ==
  /\ Once(queue, Run(t)) /\ Once(deferred, Run(t)) /\ Once(unhandled, Run(t))
  /\ \A s, r \in Slots : slot[s] = t /\ slot[r] = t => s = r
  /\ In(queue, Run(t)) => ~(In(deferred, Run(t)) \/ In(unhandled, Run(t)) \/ InSlot(t))
  /\ In(deferred, Run(t)) => ~(In(unhandled, Run(t)) \/ InSlot(t))
  /\ In(unhandled, Run(t)) => ~InSlot(t)
  /\ inHand = Run(t) =>
        ~(In(queue, Run(t)) \/ In(deferred, Run(t)) \/ In(unhandled, Run(t))
            \/ wInHand = Run(t) \/ InSlot(t))
  /\ wInHand = Run(t) =>
        ~(In(queue, Run(t)) \/ In(deferred, Run(t)) \/ In(unhandled, Run(t)) \/ InSlot(t))

\* Where a request is follows its client: somewhere while the client waits for
\* its result, nowhere before it was posted and after it was answered.
PlacedOf(t) ==
  /\ OnePlace(t)
  /\ client[t] = "posted" => Somewhere(t)
  /\ client[t] \in {"new", "nosleep", "ready", "answered"} => ~Somewhere(t)

Placed == \A t \in Tasks : PlacedOf(t)

CancelPending(t) ==
  \/ In(queue, Cancel(t)) \/ In(unhandled, Cancel(t))
  \/ inHand = Cancel(t) \/ wInHand = Cancel(t)

\* Only the requests of clients that left are cancelled.
CancelGone == \A t \in Tasks : CancelPending(t) => client[t] = "gone"

Core == TypeOK /\ Control /\ NextPosted /\ Placed

IInv == Core /\ CancelGone

-----------------------------------------------------------------------------
(* Items and frames.                                                       *)

USE ServerQueueAssumption DEF ServerQueueAssumption

\* The tasks of the queue are told apart by their type and id.
LEMMA ItemFacts ==
  /\ \A t \in Tasks : Run(t) \in Items /\ Cancel(t) \in Items
  /\ NextResponse \in Items /\ NoItem \notin Items /\ NextResponse # NoItem
  /\ \A t \in Tasks : /\ Run(t) # NextResponse /\ Run(t) # NoItem
                      /\ Cancel(t) # NextResponse /\ Cancel(t) # NoItem
  /\ \A t, u \in Tasks : Run(t) # Cancel(u) /\ (Run(t) = Run(u) => t = u)
  /\ \A t \in Tasks : Run(t).id = t
  BY DEF Items, Run, Cancel, NextResponse, NoItem


\* A step that moves no request keeps all in their places.
LEMMA PlacedFrame ==
  ASSUME Placed, UNCHANGED <<queue, deferred, unhandled, slot, inHand, wInHand, client>>
  PROVE  Placed'
  BY DEF Placed, PlacedOf, OnePlace, Somewhere, InSlot, In, Once

\* ... so does a client's step before it posts.
LEMMA PlacedBefore ==
  ASSUME TypeOK, Placed, NEW t \in Tasks,
         UNCHANGED <<queue, deferred, unhandled, slot, inHand, wInHand>>,
         client[t] \in {"new", "nosleep"},
         \E c \in {"nosleep", "ready", "gone"} : client' = [client EXCEPT ![t] = c]
  PROVE  Placed'
  <1>1. \A u \in Tasks : OnePlace(u)' /\ (Somewhere(u)' <=> Somewhere(u))
    BY DEF Placed, PlacedOf, OnePlace, Somewhere, InSlot, In, Once
  <1> QED  BY <1>1 DEF Placed, PlacedOf, TypeOK

\* notify_one() only takes threads out of the wait.
LEMMA NotifyOneSubset ==
  ASSUME NEW W, NEW V \in NotifyOne(W)
  PROVE  V \subseteq W
  BY DEF NotifyOne

\* The initial states satisfy the inductive invariant.
LEMMA InitIInv == Init => IInv
  <1> SUFFICES ASSUME Init PROVE IInv  OBVIOUS
  <1>1. TypeOK
    <2>1. \A S : <<>> \in Seq(S)  OBVIOUS
    <2>2. naps \in 0 .. MaxNaps  BY DEF Init
    <2>3. slot \in [Slots -> Tasks \cup {NoTask}]  BY DEF Init
    <2> QED  BY <2>1, <2>2, <2>3 DEF Init, TypeOK, MainStates, WorkerStates
  <1>2. Control  BY DEF Init, Control, YieldStates
  <1>3. NextPosted  BY DEF Init, NextPosted, IdleSlots
  <1>4. Placed
    BY EmptyIn, ItemFacts DEF Init, Placed, PlacedOf, OnePlace, Somewhere, InSlot
  <1>5. CancelGone
    BY EmptyIn, ItemFacts DEF Init, CancelGone, CancelPending
  <1> QED  BY <1>1, <1>2, <1>3, <1>4, <1>5 DEF IInv, Core

\* A step outside of the loops of the two threads keeps what Control says.
LEMMA ControlFrame ==
  ASSUME Control, UNCHANGED <<main, inHand, worker, wInHand, busy, yielding, sleeping>>,
         UNCHANGED running, unhandled # <<>> \/ unhandled' = <<>>
  PROVE  Control'
  BY DEF Control, YieldStates

\* NEXT_RESPONSE stays pending when no step takes it and no slot changes.
LEMMA NextFrame ==
  ASSUME NextPosted, UNCHANGED <<main, slot, sleeping>>, NextPending => NextPending'
  PROVE  NextPosted'
  BY DEF NextPosted, IdleSlots

-----------------------------------------------------------------------------
(* The steps of the HTTP threads, of terminate() and of the wakeups.       *)

\* A request that arrives, or waits for the end of the sleep, moves no task.
LEMMA ArriveStep == \A t \in Tasks : IInv /\ (Arrive(t) \/ Rewait(t)) => Core'
  <1> SUFFICES ASSUME NEW t \in Tasks, IInv, Arrive(t) \/ Rewait(t) PROVE Core'  OBVIOUS
  <1> USE DEF IInv, Core
  <1>0. /\ UNCHANGED <<queue, deferred, unhandled, slot, main, inHand, worker, wInHand>>
        /\ UNCHANGED <<busy, yielding, wStop, running, sleeping, naps>>
        /\ wakeReq' \in {wakeReq, TRUE}
        /\ client[t] \in {"new", "nosleep"}
        /\ client' = client \/ \E c \in {"nosleep", "ready", "gone"} : client' = [client EXCEPT ![t] = c]
    BY DEF Arrive, Rewait, qVars, workerVars, yieldVars, sleepVars
  <1>1. waiting' \subseteq waiting \cup {t}
    BY NotifyOneSubset DEF Arrive, Rewait
  <1>2. TypeOK'  BY <1>0, <1>1 DEF TypeOK
  <1>3. Control'  BY <1>0, ControlFrame DEF Control
  <1>4. NextPosted'  BY <1>0, NextFrame DEF NextPending, In
  <1>5. Placed'  BY <1>0, PlacedBefore, PlacedFrame
  <1> QED  BY <1>2, <1>3, <1>4, <1>5

\* post() puts the request in one place.
LEMMA PostStep == \A t \in Tasks : IInv /\ Post(t) => Core'
  <1> SUFFICES ASSUME NEW t \in Tasks, IInv, Post(t) PROVE Core'  OBVIOUS
  <1> USE DEF IInv, Core, Post, workerVars, yieldVars, sleepVars
  <1>1. /\ queue' \in Seq(Items)
        /\ \A x : /\ In(queue', x) <=> (In(queue, x) \/ x = Run(t))
                  /\ Once(queue, x) /\ (x = Run(t) => ~In(queue, x)) => Once(queue', x)
    <2>1. queue \in Seq(Items) /\ Run(t) \in Items  BY ItemFacts DEF TypeOK
    <2> QED  BY <2>1, AppendIn, ConsIn
  <1>2. TypeOK'  BY <1>1, NotifyOneSubset DEF TypeOK
  <1>3. Control'  BY ControlFrame DEF Control
  <1>4. NextPosted'  BY <1>1, NextFrame DEF NextPending
  <1>5. Placed'
    <2> SUFFICES ASSUME NEW u \in Tasks PROVE PlacedOf(u)'  BY DEF Placed
    <2>1. Run(u) = Run(t) <=> u = t  BY ItemFacts
    <2>2. PlacedOf(u) /\ PlacedOf(t)  BY DEF Placed
    <2>3. client'[u] = IF u = t THEN "posted" ELSE client[u]  BY DEF TypeOK
    <2>4. InSlot(u)' <=> InSlot(u)  BY DEF InSlot
    <2> QED  BY <1>1, <2>1, <2>2, <2>3, <2>4 DEF PlacedOf, OnePlace, Somewhere
  <1> QED  BY <1>2, <1>3, <1>4, <1>5

\* cleanup_pending_task() takes the cancelled request out of every queue and
\* leaves all others.
LEMMA PostCancelStep == \A t \in Tasks : IInv /\ PostCancel(t) => Core'
  <1> SUFFICES ASSUME NEW t \in Tasks, IInv, PostCancel(t) PROVE Core'  OBVIOUS
  <1> USE DEF IInv, Core, workerVars, yieldVars, sleepVars
  <1>0. /\ queue' = <<Cancel(t)>> \o RemoveFirst(queue, Run(t))
        /\ deferred' = RemoveFirst(deferred, Run(t))
        /\ unhandled' = RemoveFirst(unhandled, Run(t))
        /\ client' = [client EXCEPT ![t] = "gone"] /\ waiting' \in NotifyOne(waiting)
        /\ UNCHANGED <<slot, main, inHand, worker, wInHand, busy, yielding, wStop, running>>
        /\ UNCHANGED <<sleeping, wakeReq, naps>>
    BY DEF PostCancel, CleanupPendingTask
  <1>1. /\ queue' \in Seq(Items)
        /\ \A x : /\ x # Run(t) /\ x # Cancel(t) => (In(queue', x) <=> In(queue, x))
                  /\ x # Cancel(t) /\ Once(queue, x) => Once(queue', x)
                  /\ x # Cancel(t) /\ x = Run(t) /\ Once(queue, x) => ~In(queue', x)
    <2> DEFINE q == RemoveFirst(queue, Run(t))
    <2>1. queue \in Seq(Items) /\ Cancel(t) \in Items  BY ItemFacts DEF TypeOK
    <2>2. /\ q \in Seq(Items)
          /\ \A x : /\ x # Run(t) => (In(q, x) <=> In(queue, x))
                    /\ Once(queue, x) => Once(q, x)
                    /\ Once(queue, x) /\ x = Run(t) => ~In(q, x)
      BY <2>1, RemoveFirstIn
    <2> HIDE DEF q
    <2>3. queue' = <<Cancel(t)>> \o q  BY <1>0 DEF q
    <2> QED  BY <2>1, <2>2, <2>3, ConsIn
  <1>2. /\ deferred' \in Seq({Run(u) : u \in Tasks})
        /\ \A x : /\ x # Run(t) => (In(deferred', x) <=> In(deferred, x))
                  /\ Once(deferred, x) => Once(deferred', x)
                  /\ Once(deferred, x) /\ x = Run(t) => ~In(deferred', x)
    <2>1. deferred \in Seq({Run(u) : u \in Tasks})  BY DEF TypeOK
    <2> QED  BY <2>1, <1>0, RemoveFirstIn
  <1>3. /\ unhandled' \in Seq(Items)
        /\ \A x : /\ x # Run(t) => (In(unhandled', x) <=> In(unhandled, x))
                  /\ Once(unhandled, x) => Once(unhandled', x)
                  /\ Once(unhandled, x) /\ x = Run(t) => ~In(unhandled', x)
    <2>1. unhandled \in Seq(Items)  BY DEF TypeOK
    <2> QED  BY <2>1, <1>0, RemoveFirstIn
  <1>4. unhandled # <<>> \/ unhandled' = <<>>
    BY <1>0 DEF RemoveFirst
  <1>5. TypeOK'  BY <1>0, <1>1, <1>2, <1>3, NotifyOneSubset DEF TypeOK
  <1>6. Control'  BY <1>0, <1>4, ControlFrame
  <1>7. NextPosted'  BY <1>0, <1>1, <1>3, ItemFacts, NextFrame DEF NextPending
  <1>8. Placed'
    <2> SUFFICES ASSUME NEW u \in Tasks PROVE PlacedOf(u)'  BY DEF Placed
    <2>1. (Run(u) = Run(t) <=> u = t) /\ Run(u) # Cancel(t)  BY ItemFacts
    <2>2. PlacedOf(u)  BY DEF Placed
    <2>3. client'[u] = IF u = t THEN "gone" ELSE client[u]  BY <1>0 DEF TypeOK
    <2>4. InSlot(u)' <=> InSlot(u)  BY <1>0 DEF InSlot
    <2>5. /\ In(queue', Run(u)) => In(queue, Run(u))
          /\ In(deferred', Run(u)) => In(deferred, Run(u))
          /\ In(unhandled', Run(u)) => In(unhandled, Run(u))
          /\ u # t => (In(queue, Run(u)) => In(queue', Run(u)))
          /\ u # t => (In(deferred, Run(u)) => In(deferred', Run(u)))
          /\ u # t => (In(unhandled, Run(u)) => In(unhandled', Run(u)))
          /\ Once(queue', Run(u)) /\ Once(deferred', Run(u)) /\ Once(unhandled', Run(u))
      BY <1>1, <1>2, <1>3, <2>1, <2>2 DEF PlacedOf, OnePlace
    <2> QED  BY <1>0, <2>2, <2>3, <2>4, <2>5 DEF PlacedOf, OnePlace, Somewhere
  <1> QED  BY <1>5, <1>6, <1>7, <1>8

\* terminate() and a wakeup move no task.
LEMMA TerminateStep == IInv /\ (Terminate \/ SpuriousWakeup) => Core'
  <1> SUFFICES ASSUME IInv, Terminate \/ SpuriousWakeup PROVE Core'  OBVIOUS
  <1> USE DEF IInv, Core
  <1>0. /\ UNCHANGED <<queue, deferred, unhandled, slot, main, inHand, worker, wInHand>>
        /\ UNCHANGED <<busy, yielding, wStop, client, sleeping, wakeReq, naps>>
        /\ running' = running \/ running' = FALSE
        /\ waiting' \subseteq waiting
    BY DEF Terminate, SpuriousWakeup, qVars, workerVars, yieldVars, sleepVars
  <1>1. TypeOK'  BY <1>0 DEF TypeOK
  <1>2. Control'
    <2>1. ~running => ~running'  BY <1>0
    <2> QED  BY <1>0, <2>1, Zenon DEF Control, YieldStates
  <1>3. NextPosted'  BY <1>0, NextFrame DEF NextPending, In
  <1>4. Placed'  BY <1>0, PlacedFrame
  <1> QED  BY <1>1, <1>2, <1>3, <1>4

-----------------------------------------------------------------------------
(* The worker thread.                                                      *)

\* A step of the worker that takes no task and declines none.
LEMMA WorkerMoveStep ==
  IInv /\ (WorkerPark \/ WorkerCheck \/ WorkerWait \/ WorkerEnd \/ WorkerSignal) => Core'
  <1> SUFFICES ASSUME IInv,
                      WorkerPark \/ WorkerCheck \/ WorkerWait \/ WorkerEnd \/ WorkerSignal
               PROVE  Core'
    OBVIOUS
  <1> USE DEF IInv, Core
  <1>0. /\ UNCHANGED <<queue, deferred, unhandled, slot, main, inHand, wInHand, client>>
        /\ UNCHANGED <<yielding, wStop, running, sleeping, wakeReq, naps>>
        /\ waiting' \subseteq waiting \cup {"worker"}
        /\ worker # "handle" /\ worker' # "handle" /\ worker' \in WorkerStates
    BY DEF WorkerPark, WorkerCheck, WorkerWait, WorkerEnd, WorkerSignal, qVars, yieldVars,
           sleepVars, TypeOK, WorkerStates
  <1>1. busy' \in BOOLEAN /\ (busy' => busy)
        /\ (worker' \in {"process", "handle", "check", "wait", "end"} => busy')
    <2>1. CASE WorkerEnd  BY <2>1 DEF WorkerEnd
    <2>2. CASE WorkerPark  BY <2>2 DEF WorkerPark, yieldVars, TypeOK
    <2>3. CASE WorkerCheck \/ WorkerWait \/ WorkerSignal
      <3>1. UNCHANGED busy  BY <2>3 DEF WorkerCheck, WorkerWait, WorkerSignal, yieldVars
      <3>2. busy \/ worker' = "park"
        BY <2>3 DEF Control, WorkerCheck, WorkerWait, WorkerSignal
      <3> QED  BY <3>1, <3>2 DEF TypeOK
    <2> QED  BY <2>1, <2>2, <2>3
  <1>2. TypeOK'  BY <1>0, <1>1 DEF TypeOK
  <1>3. Control'  BY <1>0, <1>1 DEF Control, YieldStates
  <1>4. NextPosted'  BY <1>0, NextFrame DEF NextPending, In
  <1>5. Placed'  BY <1>0, PlacedFrame
  <1> QED  BY <1>2, <1>3, <1>4, <1>5

\* What taking the first task of a nonempty queue means for any other.
LEMMA PopEffect ==
  ASSUME TypeOK, queue # <<>>, queue' = Tail(queue)
  PROVE  /\ Head(queue) \in Items /\ queue' \in Seq(Items)
         /\ \A x : In(queue, x) <=> (x = Head(queue) \/ In(queue', x))
         /\ \A x : Once(queue, x) => Once(queue', x) /\ (x = Head(queue) => ~In(queue', x))
  <1>1. queue \in Seq(Items)  BY DEF TypeOK
  <1> QED  BY <1>1, TailIn

\* The worker moves the first task into its hand.
LEMMA WorkerPopStep == IInv /\ WorkerPop => Core'
  <1> SUFFICES ASSUME IInv, WorkerPop PROVE Core'  OBVIOUS
  <1> USE DEF IInv, Core
  <1>0. /\ UNCHANGED <<deferred, unhandled, slot, main, inHand, busy, yielding, wStop>>
        /\ UNCHANGED <<client, running, sleeping, wakeReq, naps, waiting>>
        /\ worker = "process" /\ busy /\ wInHand = NoItem
    BY DEF WorkerPop, yieldVars, sleepVars, Control
  <1>1. CASE UNCHANGED <<queue, wInHand>> /\ worker' \in {"end", "check"}
    <2>1. TypeOK'  BY <1>0, <1>1 DEF TypeOK, WorkerStates
    <2>2. Control'  BY <1>0, <1>1 DEF Control, YieldStates
    <2>3. NextPosted'  BY <1>0, <1>1, NextFrame DEF NextPending, In
    <2>4. Placed'  BY <1>0, <1>1, PlacedFrame
    <2> QED  BY <2>1, <2>2, <2>3, <2>4
  <1>2. CASE queue # <<>> /\ wInHand' = Head(queue) /\ queue' = Tail(queue) /\ worker' = "handle"
    <2>0. /\ Head(queue) \in Items /\ queue' \in Seq(Items)
          /\ \A x : In(queue, x) <=> (x = Head(queue) \/ In(queue', x))
          /\ \A x : Once(queue, x) => Once(queue', x) /\ (x = Head(queue) => ~In(queue', x))
      BY <1>2, PopEffect
    <2>1. TypeOK'  BY <1>0, <1>2, <2>0 DEF TypeOK, WorkerStates
    <2>2. Control'
      <3>1. wInHand' # NoItem  BY <1>2, <2>0, ItemFacts
      <3> QED  BY <1>0, <1>2, <3>1 DEF Control, YieldStates
    <2>3. NextPosted'
      <3>1. NextPending => NextPending'
        BY <1>0, <1>2, <2>0, ItemFacts DEF NextPending
      <3> QED  BY <1>0, <3>1, NextFrame
    <2>4. Placed'
      <3> SUFFICES ASSUME NEW u \in Tasks PROVE PlacedOf(u)'  BY DEF Placed
      <3>1. PlacedOf(u) /\ Run(u) # NoItem  BY ItemFacts DEF Placed
      <3>2. InSlot(u)' <=> InSlot(u)  BY <1>0 DEF InSlot
      <3> QED  BY <1>0, <1>2, <2>0, <3>1, <3>2 DEF PlacedOf, OnePlace, Somewhere
    <2> QED  BY <2>1, <2>2, <2>3, <2>4
  <1> QED  BY <1>1, <1>2 DEF WorkerPop

\* The worker answers a read and sets any other task aside.
LEMMA WorkerHandleStep == IInv /\ WorkerHandle => Core'
  <1> SUFFICES ASSUME IInv, WorkerHandle PROVE Core'  OBVIOUS
  <1> USE DEF IInv, Core
  <1>0. /\ UNCHANGED <<queue, deferred, slot, main, inHand, busy, yielding, wStop>>
        /\ UNCHANGED <<running, sleeping, wakeReq, naps, waiting>>
        /\ worker = "handle" /\ worker' = "process" /\ wInHand' = NoItem
        /\ busy /\ main \in YieldStates /\ wInHand \in Items
    BY DEF WorkerHandle, yieldVars, sleepVars, Control, TypeOK
  <1>1. CASE wInHand \in {Run(t) : t \in Reads} /\ SendResult(wInHand.id) /\ UNCHANGED unhandled
    <2> PICK t \in Tasks : t \in Reads /\ wInHand = Run(t)  BY <1>1
    <2>0. /\ client' = IF client[t] = "posted" THEN [client EXCEPT ![t] = "answered"] ELSE client
          /\ client \in [Tasks -> {"new", "nosleep", "ready", "posted", "answered", "gone"}]
      BY <1>1, ItemFacts DEF SendResult, TypeOK
    <2>1. TypeOK'  BY <1>0, <1>1, <2>0 DEF TypeOK, WorkerStates
    <2>2. Control'  BY <1>0, <1>1 DEF Control, YieldStates
    <2>3. NextPosted'
      <3>1. NextPending => NextPending'  BY <1>0, <1>1, ItemFacts DEF NextPending
      <3> QED  BY <1>0, <3>1, NextFrame
    <2>4. Placed'
      <3> SUFFICES ASSUME NEW u \in Tasks PROVE PlacedOf(u)'  BY DEF Placed
      <3>1. PlacedOf(u) /\ Run(u) # NoItem /\ (Run(u) = Run(t) <=> u = t)
        BY ItemFacts DEF Placed
      <3>2. InSlot(u)' <=> InSlot(u)  BY <1>0 DEF InSlot
      <3>3. client'[u] = IF u = t /\ client[t] = "posted" THEN "answered" ELSE client[u]
        BY <2>0
      <3> QED  BY <1>0, <1>1, <3>1, <3>2, <3>3 DEF PlacedOf, OnePlace, Somewhere
    <2> QED  BY <2>1, <2>2, <2>3, <2>4
  <1>2. CASE unhandled' = Append(unhandled, wInHand) /\ UNCHANGED client
    <2>0. /\ unhandled' \in Seq(Items)
          /\ \A x : In(unhandled', x) <=> (In(unhandled, x) \/ x = wInHand)
          /\ \A x : Once(unhandled, x) /\ (x = wInHand => ~In(unhandled, x))
                      => Once(unhandled', x)
      <3>1. unhandled \in Seq(Items)  BY DEF TypeOK
      <3> QED  BY <3>1, <1>0, <1>2, AppendIn
    <2>1. TypeOK'  BY <1>0, <1>2, <2>0 DEF TypeOK, WorkerStates
    <2>2. Control'  BY <1>0, <1>2 DEF Control, YieldStates
    <2>3. NextPosted'
      <3>1. NextPending => NextPending'  BY <1>0, <2>0, ItemFacts DEF NextPending
      <3> QED  BY <1>0, <3>1, NextFrame
    <2>4. Placed'
      <3> SUFFICES ASSUME NEW u \in Tasks PROVE PlacedOf(u)'  BY DEF Placed
      <3>1. PlacedOf(u) /\ Run(u) # NoItem  BY ItemFacts DEF Placed
      <3>2. InSlot(u)' <=> InSlot(u)  BY <1>0 DEF InSlot
      <3> QED  BY <1>0, <1>2, <2>0, <3>1, <3>2 DEF PlacedOf, OnePlace, Somewhere
    <2> QED  BY <2>1, <2>2, <2>3, <2>4
  <1> QED  BY <1>1, <1>2 DEF WorkerHandle

-----------------------------------------------------------------------------
(* The main thread.                                                        *)

\* The main thread moves the first task into its hand.
LEMMA MainPopStep == IInv /\ MainPop => Core'
  <1> SUFFICES ASSUME IInv, MainPop PROVE Core'  OBVIOUS
  <1> USE DEF IInv, Core
  <1>0. /\ UNCHANGED <<deferred, unhandled, slot, worker, wInHand, busy, yielding, wStop>>
        /\ UNCHANGED <<client, running, sleeping, wakeReq, naps, waiting>>
        /\ main = "process" /\ inHand = NoItem
    BY DEF MainPop, workerVars, yieldVars, sleepVars, Control
  <1>1. CASE /\ UNCHANGED <<queue, inHand>>
             /\ (~running /\ main' = "stop") \/ (running /\ main' = "update")
    <2>1. TypeOK'  BY <1>0, <1>1 DEF TypeOK, MainStates
    <2>2. Control'  BY <1>0, <1>1 DEF Control, YieldStates
    <2>3. NextPosted'  BY <1>0, <1>1 DEF NextPosted, IdleSlots
    <2>4. Placed'  BY <1>0, <1>1, PlacedFrame
    <2> QED  BY <2>1, <2>2, <2>3, <2>4
  <1>2. CASE /\ running /\ queue # <<>> /\ inHand' = Head(queue) /\ queue' = Tail(queue)
             /\ main' = "handle"
    <2>0. /\ Head(queue) \in Items /\ queue' \in Seq(Items)
          /\ \A x : In(queue, x) <=> (x = Head(queue) \/ In(queue', x))
          /\ \A x : Once(queue, x) => Once(queue', x) /\ (x = Head(queue) => ~In(queue', x))
      BY <1>2, PopEffect
    <2>1. TypeOK'  BY <1>0, <1>2, <2>0 DEF TypeOK, MainStates
    <2>2. Control'  BY <1>0, <1>2 DEF Control, YieldStates
    <2>3. NextPosted'  BY <1>0, <1>2 DEF NextPosted, IdleSlots, Control
    <2>4. Placed'
      <3> SUFFICES ASSUME NEW u \in Tasks PROVE PlacedOf(u)'  BY DEF Placed
      <3>1. PlacedOf(u) /\ Run(u) # NoItem  BY ItemFacts DEF Placed
      <3>2. InSlot(u)' <=> InSlot(u)  BY <1>0 DEF InSlot
      <3>3. wInHand = NoItem  BY <1>0 DEF Control, YieldStates, TypeOK
      <3> QED  BY <1>0, <1>2, <2>0, <3>1, <3>2, <3>3 DEF PlacedOf, OnePlace, Somewhere
    <2> QED  BY <2>1, <2>2, <2>3, <2>4
  <1> QED  BY <1>1, <1>2 DEF MainPop

\* The index that pop_deferred_task() picks exists.
LEMMA DeferredForIndex ==
  ASSUME NEW s \in Slots, TypeOK, deferred # <<>>
  PROVE  DeferredFor(s) \in DOMAIN deferred
  <1> DEFINE asking == {i \in DOMAIN deferred : IdSlot[deferred[i].id] = s}
             first == CHOOSE i \in asking : \A j \in asking : i <= j
  <1>1. deferred \in Seq({Run(t) : t \in Tasks})  BY DEF TypeOK
  <1>2. 1 \in DOMAIN deferred /\ DOMAIN deferred \in SUBSET Nat  BY <1>1
  <1>3. CASE asking = {}  BY <1>2, <1>3 DEF DeferredFor
  <1>4. CASE asking # {}
    <2>1. asking \in SUBSET Nat  BY <1>2
    <2>2. \E i \in asking : \A j \in asking : i <= j  BY <2>1, <1>4, LeastNatural
    <2>3. first \in asking  BY <2>2
    <2>4. DeferredFor(s) = first  BY <1>4 DEF DeferredFor
    <2> QED  BY <2>3, <2>4
  <1> QED  BY <1>3, <1>4

\* release() moves at most one request, from the deferred ones to the queue.
LEMMA ReleaseEffect ==
  ASSUME NEW s \in Slots, TypeOK, Release(s)
  PROVE  /\ queue' \in Seq(Items) /\ deferred' \in Seq({Run(t) : t \in Tasks})
         /\ slot' = [slot EXCEPT ![s] = NoTask] /\ waiting' \subseteq waiting
         /\ \A x : In(queue, x) => In(queue', x)
         /\ \A t \in Tasks : In(queue', Cancel(t)) => In(queue, Cancel(t))
         /\ \A x : Once(deferred, x) =>
                     ((In(queue', x) \/ In(deferred', x)) <=> (In(queue, x) \/ In(deferred, x)))
         /\ \A x : Once(queue, x) /\ Once(deferred, x) /\ ~(In(queue, x) /\ In(deferred, x)) =>
                     Once(queue', x) /\ Once(deferred', x) /\ ~(In(queue', x) /\ In(deferred', x))
  <1>0. queue \in Seq(Items) /\ deferred \in Seq({Run(t) : t \in Tasks})  BY DEF TypeOK
  <1>1. waiting' \subseteq waiting /\ slot' = [slot EXCEPT ![s] = NoTask]
    BY NotifyOneSubset DEF Release
  <1>2. CASE deferred = <<>>
    <2>1. queue' = queue /\ deferred' = deferred  BY <1>2 DEF Release, PopDeferredTask
    <2> QED  BY <1>0, <1>1, <2>1
  <1>3. CASE deferred # <<>>
    <2> DEFINE k == DeferredFor(s)
               e == deferred[k]
    <2>1. k \in DOMAIN deferred  BY <1>3, DeferredForIndex
    <2>2. queue' = <<e>> \o queue /\ deferred' = RemoveAt(deferred, k)
      BY <1>3 DEF Release, PopDeferredTask
    <2> HIDE DEF k
    <2>3. e \in {Run(t) : t \in Tasks} /\ e \in Items
      BY <1>0, <2>1, ItemFacts
    <2>4. In(deferred, e)  BY <2>1 DEF In
    <2>5. /\ deferred' \in Seq({Run(t) : t \in Tasks})
          /\ \A x : x # e => (In(deferred', x) <=> In(deferred, x))
          /\ \A x : Once(deferred, x) => Once(deferred', x)
          /\ \A x : Once(deferred, x) /\ x = e => ~In(deferred', x)
      BY <1>0, <2>1, <2>2, RemoveAtIn
    <2> HIDE DEF e
    <2>6. /\ queue' \in Seq(Items)
          /\ \A x : In(queue', x) <=> (In(queue, x) \/ x = e)
          /\ \A x : Once(queue, x) /\ (x = e => ~In(queue, x)) => Once(queue', x)
      BY <1>0, <2>2, <2>3, ConsIn
    <2>7. \A t \in Tasks : e # Cancel(t)  BY <2>3, ItemFacts
    <2> QED  BY <1>1, <2>4, <2>5, <2>6, <2>7
  <1> QED  BY <1>2, <1>3

\* After release() of the slot of t, t is nowhere and everyone else is where it
\* was, or in the queue instead of deferred.
LEMMA ReleasePlaces ==
  ASSUME NEW s \in Slots, NEW u \in Tasks, TypeOK, PlacedOf(u), slot[s] \in Tasks, Release(s),
         UNCHANGED <<unhandled, wInHand>>, inHand = Run(u) <=> inHand' = Run(u)
  PROVE  /\ OnePlace(u)'
         /\ Somewhere(u)' <=> (Somewhere(u) /\ u # slot[s])
  <1>1. /\ \A x : Once(deferred, x) =>
                    ((In(queue', x) \/ In(deferred', x)) <=> (In(queue, x) \/ In(deferred, x)))
        /\ \A x : Once(queue, x) /\ Once(deferred, x) /\ ~(In(queue, x) /\ In(deferred, x)) =>
                    Once(queue', x) /\ Once(deferred', x) /\ ~(In(queue', x) /\ In(deferred', x))
        /\ slot' = [slot EXCEPT ![s] = NoTask]
    BY ReleaseEffect
  <1>2. \A r \in Slots : slot'[r] = IF r = s THEN NoTask ELSE slot[r]
    BY <1>1 DEF TypeOK
  <1>3. /\ \A r, p \in Slots : slot'[r] = u /\ slot'[p] = u => r = p
        /\ InSlot(u)' <=> (InSlot(u) /\ u # slot[s])
    BY <1>2 DEF PlacedOf, OnePlace, InSlot
  <1>4. u = slot[s] => InSlot(u)  BY DEF InSlot
  <1> QED  BY <1>1, <1>3, <1>4 DEF PlacedOf, OnePlace, Somewhere

\* A slot is done: its result is sent and the slot released.
LEMMA FinishSlotStep == \A s \in Slots : IInv /\ FinishSlot(s) => Core'
  <1> SUFFICES ASSUME NEW s \in Slots, IInv, FinishSlot(s) PROVE Core'  OBVIOUS
  <1> USE DEF IInv, Core
  <1> DEFINE t == slot[s]
  <1>0. /\ UNCHANGED <<unhandled, main, inHand, worker, wInHand, busy, yielding, wStop>>
        /\ UNCHANGED <<running, sleeping, wakeReq, naps>>
        /\ main \in {"decode", "decoded"} /\ t \in Tasks /\ Release(s)
        /\ client' = IF client[t] = "posted" THEN [client EXCEPT ![t] = "answered"] ELSE client
        /\ client \in [Tasks -> {"new", "nosleep", "ready", "posted", "answered", "gone"}]
    BY DEF FinishSlot, workerVars, yieldVars, sleepVars, TypeOK, SendResult
  <1>1. /\ queue' \in Seq(Items) /\ deferred' \in Seq({Run(u) : u \in Tasks})
        /\ slot' = [slot EXCEPT ![s] = NoTask] /\ waiting' \subseteq waiting
        /\ \A x : In(queue, x) => In(queue', x)
    BY <1>0, ReleaseEffect
  <1>2. TypeOK'  BY <1>0, <1>1 DEF TypeOK
  <1>3. Control'  BY <1>0 DEF Control, YieldStates
  <1>4. NextPosted'
    <2>1. NextPending => NextPending'  BY <1>0, <1>1 DEF NextPending
    <2>2. IdleSlots = Slots => IdleSlots' = Slots  BY <1>1 DEF IdleSlots, TypeOK
    <2> QED  BY <1>0, <2>1, <2>2 DEF NextPosted, Control
  <1>5. Placed'
    <2> SUFFICES ASSUME NEW u \in Tasks PROVE PlacedOf(u)'  BY DEF Placed
    <2>1. PlacedOf(u) /\ PlacedOf(t)  BY <1>0 DEF Placed
    <2>2. OnePlace(u)' /\ (Somewhere(u)' <=> (Somewhere(u) /\ u # t))
      BY <1>0, <2>1, ReleasePlaces
    <2>3. client'[u] = IF u = t /\ client[t] = "posted" THEN "answered" ELSE client[u]
      BY <1>0
    <2>4. Somewhere(t)  BY DEF Somewhere, InSlot
    <2> HIDE DEF t
    <2> QED  BY <2>1, <2>2, <2>3, <2>4 DEF PlacedOf
  <1> QED  BY <1>2, <1>3, <1>4, <1>5

\* What the steps of process_single_task() have in common.
LEMMA MainHandleFrame ==
  ASSUME IInv, MainHandle
  PROVE  /\ UNCHANGED <<unhandled, worker, wInHand, busy, yielding, wStop>>
         /\ UNCHANGED <<running, sleeping, wakeReq, naps>>
         /\ main = "handle" /\ main' = "process" /\ inHand' = NoItem /\ wInHand = NoItem
         /\ Control' /\ NextPosted'
  <1>1. /\ UNCHANGED <<unhandled, worker, wInHand, busy, yielding, wStop>>
        /\ UNCHANGED <<running, sleeping, wakeReq, naps>>
        /\ main = "handle" /\ main' = "process" /\ inHand' = NoItem
    BY DEF MainHandle, workerVars, yieldVars, sleepVars
  <1>2. ~sleeping /\ wInHand = NoItem /\ unhandled = <<>>
    BY <1>1 DEF IInv, Core, Control, YieldStates, TypeOK
  <1>3. Control'  BY <1>1, <1>2 DEF IInv, Core, Control, YieldStates
  <1>4. NextPosted'  BY <1>1, <1>2 DEF NextPosted
  <1> QED  BY <1>1, <1>2, <1>3, <1>4

\* A request is answered at once, deferred or launched.
LEMMA HandleRunStep == \A t \in Tasks : IInv /\ MainHandle /\ HandleRun(t) => Core'
  <1> SUFFICES ASSUME NEW t \in Tasks, IInv, MainHandle, HandleRun(t) PROVE Core'  OBVIOUS
  <1> USE DEF IInv, Core
  <1>0. /\ UNCHANGED <<unhandled, worker, wInHand, busy, yielding, wStop>>
        /\ UNCHANGED <<running, sleeping, wakeReq, naps>>
        /\ main' = "process" /\ inHand' = NoItem /\ wInHand = NoItem
        /\ Control' /\ NextPosted' /\ inHand = Run(t)
    BY MainHandleFrame DEF HandleRun
  <1>a. \A u \in Tasks : /\ PlacedOf(u) /\ Run(u) # NoItem
                         /\ Run(u) = Run(t) <=> u = t
    BY ItemFacts DEF Placed
  <1>b. Somewhere(t)  BY <1>0 DEF Somewhere
  <1>1. CASE SendResult(t) /\ UNCHANGED <<queue, deferred, slot, waiting>>
    <2>0. /\ client' = IF client[t] = "posted" THEN [client EXCEPT ![t] = "answered"] ELSE client
          /\ client \in [Tasks -> {"new", "nosleep", "ready", "posted", "answered", "gone"}]
      BY <1>1 DEF SendResult, TypeOK
    <2>1. TypeOK'  BY <1>0, <1>1, <2>0 DEF TypeOK, MainStates
    <2>2. Placed'
      <3> SUFFICES ASSUME NEW u \in Tasks PROVE PlacedOf(u)'  BY DEF Placed
      <3>1. PlacedOf(u) /\ Run(u) # NoItem /\ (Run(u) = Run(t) <=> u = t)  BY <1>a
      <3>2. InSlot(u)' <=> InSlot(u)  BY <1>1 DEF InSlot
      <3>3. client'[u] = IF u = t /\ client[t] = "posted" THEN "answered" ELSE client[u]
        BY <2>0
      <3> QED  BY <1>0, <1>1, <3>1, <3>2, <3>3 DEF PlacedOf, OnePlace, Somewhere
    <2> QED  BY <1>0, <2>1, <2>2
  <1>2. CASE Defer(t)
    <2>0. /\ deferred' \in Seq({Run(u) : u \in Tasks})
          /\ \A x : In(deferred', x) <=> (In(deferred, x) \/ x = Run(t))
          /\ \A x : Once(deferred, x) /\ (x = Run(t) => ~In(deferred, x)) => Once(deferred', x)
          /\ UNCHANGED <<queue, slot, client>> /\ waiting' \subseteq waiting
      <3>1. deferred \in Seq({Run(u) : u \in Tasks}) /\ Run(t) \in {Run(u) : u \in Tasks}
        BY DEF TypeOK
      <3>2. deferred' = Append(deferred, Run(t))  BY <1>2 DEF Defer
      <3>3. UNCHANGED <<queue, slot, client>> /\ waiting' \subseteq waiting
        BY <1>2, NotifyOneSubset DEF Defer
      <3> QED  BY <3>1, <3>2, <3>3, AppendIn
    <2>1. TypeOK'  BY <1>0, <2>0 DEF TypeOK, MainStates
    <2>2. Placed'
      <3> SUFFICES ASSUME NEW u \in Tasks PROVE PlacedOf(u)'  BY DEF Placed
      <3>1. PlacedOf(u) /\ Run(u) # NoItem /\ (Run(u) = Run(t) <=> u = t)  BY <1>a
      <3>2. InSlot(u)' <=> InSlot(u)  BY <2>0 DEF InSlot
      <3> QED  BY <1>0, <2>0, <3>1, <3>2 DEF PlacedOf, OnePlace, Somewhere
    <2> QED  BY <1>0, <2>1, <2>2
  <1>3. CASE /\ \E s \in AvailableSlots(t) : slot' = [slot EXCEPT ![s] = t]
             /\ UNCHANGED <<queue, deferred, client, waiting>>
    <2> PICK s \in Slots : s \in IdleSlots /\ slot' = [slot EXCEPT ![s] = t]
      BY <1>3 DEF AvailableSlots, IdleSlots
    <2>1. TypeOK'  BY <1>0, <1>3 DEF TypeOK, MainStates
    <2>2. \A r \in Slots : slot'[r] = IF r = s THEN t ELSE slot[r]  BY DEF TypeOK
    <2>3. slot[s] = NoTask /\ NoTask \notin Tasks  BY DEF IdleSlots
    <2>4. Placed'
      <3> SUFFICES ASSUME NEW u \in Tasks PROVE PlacedOf(u)'  BY DEF Placed
      <3>1. PlacedOf(u) /\ Run(u) # NoItem /\ (Run(u) = Run(t) <=> u = t)  BY <1>a
      <3>2. InSlot(u)' <=> (InSlot(u) \/ u = t)  BY <2>2, <2>3 DEF InSlot
      <3>3. \A r, p \in Slots : slot'[r] = u /\ slot'[p] = u => r = p
        <4>1. ~InSlot(t)  BY <1>0, <1>a DEF PlacedOf, OnePlace
        <4> QED  BY <4>1, <2>2, <3>1 DEF InSlot, PlacedOf, OnePlace
      <3> QED  BY <1>0, <1>3, <3>1, <3>2, <3>3 DEF PlacedOf, OnePlace, Somewhere
    <2> QED  BY <1>0, <2>1, <2>4
  <1> QED  BY <1>1, <1>2, <1>3 DEF HandleRun, AnswerRead, AnswerAtOnce, Launch

\* A cancelled request that runs is released.
LEMMA HandleCancelStep ==
  \A t \in Tasks : IInv /\ MainHandle /\ HandleCancel(t) => Core'
  <1> SUFFICES ASSUME NEW t \in Tasks, IInv, MainHandle, HandleCancel(t) PROVE Core'  OBVIOUS
  <1> USE DEF IInv, Core
  <1>0. /\ UNCHANGED <<unhandled, worker, wInHand, busy, yielding, wStop, client>>
        /\ UNCHANGED <<running, sleeping, wakeReq, naps>>
        /\ main' = "process" /\ inHand' = NoItem
        /\ Control' /\ NextPosted' /\ inHand = Cancel(t)
    BY MainHandleFrame DEF HandleCancel
  <1>a. \A u \in Tasks : PlacedOf(u) /\ inHand # Run(u) /\ inHand' # Run(u)
    BY <1>0, ItemFacts DEF Placed
  <1>1. CASE \E s \in Slots : slot[s] = t /\ Release(s)
    <2> PICK s \in Slots : slot[s] = t /\ Release(s)  BY <1>1
    <2>1. /\ queue' \in Seq(Items) /\ deferred' \in Seq({Run(u) : u \in Tasks})
          /\ slot' = [slot EXCEPT ![s] = NoTask] /\ waiting' \subseteq waiting
      BY ReleaseEffect
    <2>2. TypeOK'  BY <1>0, <2>1 DEF TypeOK, MainStates
    <2>3. Placed'
      <3> SUFFICES ASSUME NEW u \in Tasks PROVE PlacedOf(u)'  BY DEF Placed
      <3>1. OnePlace(u)' /\ (Somewhere(u)' <=> (Somewhere(u) /\ u # slot[s]))
        BY <1>0, <1>a, ReleasePlaces
      <3>2. client[t] = "gone"  BY <1>0 DEF CancelGone, CancelPending
      <3> QED  BY <1>0, <1>a, <3>1, <3>2 DEF PlacedOf
    <2> QED  BY <1>0, <2>2, <2>3
  <1>2. CASE UNCHANGED <<queue, deferred, slot, waiting>>
    <2>1. TypeOK'  BY <1>0, <1>2 DEF TypeOK, MainStates
    <2>2. Placed'
      <3> SUFFICES ASSUME NEW u \in Tasks PROVE PlacedOf(u)'  BY DEF Placed
      <3>1. InSlot(u)' <=> InSlot(u)  BY <1>2 DEF InSlot
      <3> QED  BY <1>0, <1>2, <1>a, <3>1 DEF PlacedOf, OnePlace, Somewhere
    <2> QED  BY <1>0, <2>1, <2>2
  <1> QED  BY <1>1, <1>2 DEF HandleCancel

\* NEXT_RESPONSE is dropped when it is handled: the next update posts it again.
LEMMA HandleNextStep == IInv /\ MainHandle /\ inHand = NextResponse => Core'
  <1> SUFFICES ASSUME IInv, MainHandle, inHand = NextResponse PROVE Core'  OBVIOUS
  <1> USE DEF IInv, Core
  <1>0. /\ UNCHANGED <<unhandled, worker, wInHand, busy, yielding, wStop>>
        /\ UNCHANGED <<running, sleeping, wakeReq, naps>>
        /\ main' = "process" /\ inHand' = NoItem /\ Control' /\ NextPosted'
    BY MainHandleFrame
  <1>1. UNCHANGED <<queue, deferred, slot, client, waiting>>
    BY ItemFacts DEF MainHandle, HandleRun, AnswerRead, AnswerAtOnce, Launch,
             HandleCancel
  <1>2. TypeOK'  BY <1>0, <1>1 DEF TypeOK, MainStates
  <1>3. Placed'
    <2> SUFFICES ASSUME NEW u \in Tasks PROVE PlacedOf(u)'  BY DEF Placed
    <2>1. PlacedOf(u) /\ Run(u) # NoItem /\ Run(u) # NextResponse  BY ItemFacts DEF Placed
    <2>2. InSlot(u)' <=> InSlot(u)  BY <1>1 DEF InSlot
    <2> QED  BY <1>0, <1>1, <2>1, <2>2 DEF PlacedOf, OnePlace, Somewhere
  <1> QED  BY <1>0, <1>2, <1>3

\* update_slots() posts NEXT_RESPONSE before it decodes.
LEMMA UpdateBusyStep == IInv /\ UpdateBusy => Core'
  <1> SUFFICES ASSUME IInv, UpdateBusy PROVE Core'  OBVIOUS
  <1> USE DEF IInv, Core
  <1>0. /\ UNCHANGED <<deferred, unhandled, slot, inHand, worker, wInHand, busy, yielding>>
        /\ UNCHANGED <<wStop, client, running, sleeping, wakeReq, naps>>
        /\ main = "update" /\ main' \in {"decode", "decoded"}
        /\ queue' = Append(queue, NextResponse) /\ waiting' \subseteq waiting
    BY NotifyOneSubset DEF UpdateBusy, workerVars, yieldVars, sleepVars
  <1>1. /\ queue' \in Seq(Items)
        /\ \A x : In(queue', x) <=> (In(queue, x) \/ x = NextResponse)
        /\ \A x : Once(queue, x) /\ x # NextResponse => Once(queue', x)
    <2>1. queue \in Seq(Items) /\ NextResponse \in Items  BY ItemFacts DEF TypeOK
    <2> QED  BY <1>0, <2>1, AppendIn
  <1>2. TypeOK'  BY <1>0, <1>1 DEF TypeOK, MainStates
  <1>3. Control'  BY <1>0 DEF Control, YieldStates
  <1>4. NextPosted'
    <2>1. NextPending'  BY <1>1 DEF NextPending
    <2>2. ~sleeping'  BY <1>0 DEF Control
    <2> QED  BY <1>0, <2>1, <2>2 DEF NextPosted
  <1>5. Placed'
    <2> SUFFICES ASSUME NEW u \in Tasks PROVE PlacedOf(u)'  BY DEF Placed
    <2>1. PlacedOf(u) /\ Run(u) # NextResponse  BY ItemFacts DEF Placed
    <2>2. InSlot(u)' <=> InSlot(u)  BY <1>0 DEF InSlot
    <2> QED  BY <1>0, <1>1, <2>1, <2>2 DEF PlacedOf, OnePlace, Somewhere
  <1> QED  BY <1>2, <1>3, <1>4, <1>5

\* The end of a yield puts the declined tasks back.
LEMMA PutBackStep ==
  IInv /\ (YieldEnd \/ YieldJoin) /\ PutBack /\ ~busy /\ main' = "decoded" => Core'
  <1> SUFFICES ASSUME IInv, YieldEnd \/ YieldJoin, PutBack, ~busy, main' = "decoded"
               PROVE  Core'
    OBVIOUS
  <1> USE DEF IInv, Core
  <1>0. /\ UNCHANGED <<deferred, slot, inHand, worker, wInHand, busy, wStop, client>>
        /\ UNCHANGED <<running, sleeping, wakeReq, naps>>
        /\ main \in {"work", "join"} /\ waiting' \subseteq waiting \cup {"main"}
        /\ queue' = unhandled \o queue /\ unhandled' = <<>>
    BY DEF YieldEnd, YieldJoin, PutBack, workerVars, yieldVars, sleepVars
  <1>1. yielding' = FALSE
    <2>1. CASE YieldEnd  BY <2>1 DEF YieldEnd
    <2>2. CASE YieldJoin
      <3>1. yielding' = yielding /\ main = "join"  BY <2>2 DEF YieldJoin, yieldVars
      <3>2. yielding = FALSE  BY <3>1 DEF Control, TypeOK
      <3> QED  BY <3>1, <3>2
    <2> QED  BY <2>1, <2>2
  <1>2. wInHand = NoItem /\ worker \notin {"process", "handle", "check", "wait", "end"}
        /\ ~sleeping
    BY <1>0 DEF Control
  <1>3. /\ queue' \in Seq(Items)
        /\ \A x : In(queue', x) <=> (In(unhandled, x) \/ In(queue, x))
        /\ \A x : Once(unhandled, x) /\ Once(queue, x) /\ ~(In(unhandled, x) /\ In(queue, x))
                    => Once(queue', x)
    <2>1. queue \in Seq(Items) /\ unhandled \in Seq(Items)  BY DEF TypeOK
    <2> QED  BY <1>0, <2>1, ConcatIn
  <1>4. \A x : ~In(unhandled', x) /\ Once(unhandled', x)  BY <1>0, EmptyIn
  <1>5. TypeOK'
    <2>1. unhandled' \in Seq(Items)  BY <1>0
    <2> QED  BY <1>0, <1>1, <1>3, <2>1 DEF TypeOK, MainStates
  <1>6. Control'  BY <1>0, <1>1, <1>2 DEF Control, YieldStates
  <1>7. NextPosted'
    <2>1. NextPending => NextPending'  BY <1>0, <1>3 DEF NextPending
    <2> QED  BY <1>0, <1>2, <2>1 DEF NextPosted, IdleSlots
  <1>8. Placed'
    <2> SUFFICES ASSUME NEW u \in Tasks PROVE PlacedOf(u)'  BY DEF Placed
    <2>1. PlacedOf(u)  BY DEF Placed
    <2>2. InSlot(u)' <=> InSlot(u)  BY <1>0 DEF InSlot
    <2> QED  BY <1>0, <1>3, <1>4, <2>1, <2>2 DEF PlacedOf, OnePlace, Somewhere
  <1> QED  BY <1>5, <1>6, <1>7, <1>8

\* The steps of the main thread that move no task.
MainMove ==
  \/ UpdateIdle \/ YieldStart \/ YieldNotify \/ NextYield \/ UpdateDone
  \/ MainIdle \/ MainWait \/ MainAsleep
  \/ StopWorker \/ StopNotify \/ JoinWorker
  \/ (YieldEnd \/ YieldJoin) /\ busy

\* These steps keep every task where it is.
LEMMA MainMoveStep == IInv /\ MainMove => Core'
  <1> SUFFICES ASSUME IInv, MainMove PROVE Core'  OBVIOUS
  <1> USE DEF IInv, Core
  <1>0. /\ UNCHANGED <<queue, deferred, unhandled, slot, inHand, wInHand, client, running>>
        /\ main' \in MainStates /\ waiting' \subseteq waiting \cup {"main"}
        /\ worker' = worker \/ (worker = "parked" /\ worker' = "park")
        /\ naps' \in 0 .. MaxNaps
    BY DEF MainMove, UpdateIdle, YieldStart, YieldNotify, NextYield, UpdateDone, MainIdle, MainWait,
           MainAsleep, StopWorker, StopNotify, JoinWorker, YieldEnd, YieldJoin, qVars,
           workerVars, yieldVars, sleepVars, TypeOK, MainStates
  <1>1. /\ busy' \in BOOLEAN /\ yielding' \in BOOLEAN /\ wStop' \in BOOLEAN
        /\ sleeping' \in BOOLEAN /\ wakeReq' \in BOOLEAN
    BY Zenon DEF MainMove, UpdateIdle, YieldStart, YieldNotify, NextYield, UpdateDone, MainIdle, MainWait,
           MainAsleep, StopWorker, StopNotify, JoinWorker, YieldEnd, YieldJoin, qVars,
           workerVars, yieldVars, sleepVars, TypeOK
  <1>2. TypeOK'  BY <1>0, <1>1 DEF TypeOK, WorkerStates
  <1>3. Placed'  BY <1>0, PlacedFrame
  <1>4. NextPending' <=> NextPending  BY <1>0 DEF NextPending, In
  <1>5. IdleSlots' = IdleSlots  BY <1>0 DEF IdleSlots
  <1>6. main \notin YieldStates =>
          /\ ~busy /\ ~yielding /\ unhandled = <<>> /\ wInHand = NoItem
          /\ (queue = <<>> => ~NextPending)
    BY EmptyIn, ItemFacts DEF Control, NextPending, YieldStates
  <1>7. CASE UpdateIdle \/ UpdateDone
    <2>1. /\ main \in {"update", "decoded"} /\ main' = "idle"
          /\ UNCHANGED <<busy, yielding, sleeping, worker>>
          /\ main = "update" => IdleSlots = Slots
      BY <1>7 DEF UpdateIdle, UpdateDone, workerVars, yieldVars, sleepVars
    <2>2. Control'  BY <1>0, <2>1 DEF Control, YieldStates
    <2>3. NextPosted'  BY <1>4, <1>5, <2>1 DEF NextPosted, Control
    <2> QED  BY <1>2, <1>3, <2>2, <2>3
  <1>7a. CASE NextYield
    <2>1. /\ main = "decoded" /\ main' = "decode"
          /\ UNCHANGED <<busy, yielding, sleeping, worker>>
      BY <1>7a DEF NextYield, workerVars, yieldVars, sleepVars
    <2>2. Control'  BY <1>0, <2>1 DEF Control, YieldStates
    <2>3. NextPosted'  BY <1>4, <1>5, <2>1 DEF NextPosted, Control
    <2> QED  BY <1>2, <1>3, <2>2, <2>3
  <1>8. CASE YieldStart
    <2>1. /\ main = "decode" /\ main' = "notify" /\ busy' = TRUE /\ yielding' = TRUE
          /\ UNCHANGED <<sleeping, worker>>
      BY <1>8 DEF YieldStart, workerVars, sleepVars
    <2>2. Control'  BY <1>0, <2>1 DEF Control, YieldStates
    <2>3. NextPosted'  BY <1>4, <1>5, <2>1 DEF NextPosted, Control
    <2> QED  BY <1>2, <1>3, <2>2, <2>3
  <1>9. CASE YieldNotify
    <2>1. /\ main = "notify" /\ main' = "work" /\ UNCHANGED <<busy, yielding, sleeping>>
      BY <1>9 DEF YieldNotify, yieldVars, sleepVars
    <2>2. Control'  BY <1>0, <2>1 DEF Control, YieldStates
    <2>3. NextPosted'  BY <1>4, <1>5, <2>1 DEF NextPosted
    <2> QED  BY <1>2, <1>3, <2>2, <2>3
  <1>10. CASE MainIdle
    <2>1. /\ main = "idle" /\ UNCHANGED <<busy, yielding, worker>> /\ ~sleeping
      BY <1>10 DEF MainIdle, Control, workerVars, yieldVars
    <2>2. \/ main' = "process" /\ sleeping' = sleeping
          \/ main' = "wait" /\ sleeping' = sleeping /\ queue = <<>>
          \/ main' = "asleep" /\ sleeping' = TRUE /\ queue = <<>>
      BY <1>10 DEF MainIdle, sleepVars
    <2>3. Control'  BY <1>0, <2>1, <2>2 DEF Control, YieldStates
    <2>4. queue = <<>> => IdleSlots = Slots  BY <1>6, <2>1 DEF NextPosted, YieldStates
    <2>5. NextPosted'  BY <1>5, <2>1, <2>2, <2>4 DEF NextPosted
    <2> QED  BY <1>2, <1>3, <2>3, <2>5
  <1>11. CASE MainWait
    <2>1. /\ main = "wait" /\ UNCHANGED <<busy, yielding, worker, sleeping>>
          /\ main' \in {"idle", "process", "wait"} /\ ~sleeping
      BY <1>11 DEF MainWait, Control, workerVars, yieldVars, sleepVars
    <2>2. Control'  BY <1>0, <2>1 DEF Control, YieldStates
    <2>3. NextPosted'  BY <1>5, <2>1 DEF NextPosted
    <2> QED  BY <1>2, <1>3, <2>2, <2>3
  <1>12. CASE MainAsleep
    <2>1. main = "asleep" /\ UNCHANGED <<busy, yielding, worker>>
      BY <1>12 DEF MainAsleep, workerVars, yieldVars
    <2>2. \/ main' = "process" /\ ~running /\ sleeping' = sleeping
          \/ main' = "process" /\ sleeping' = FALSE
          \/ main' = "asleep" /\ sleeping' = sleeping
      BY <1>12, <2>1 DEF MainAsleep, sleepVars
    <2>3. Control'  BY <1>0, <2>1, <2>2 DEF Control, YieldStates
    <2>4. NextPosted'  BY <1>5, <2>1, <2>2 DEF NextPosted
    <2> QED  BY <1>2, <1>3, <2>3, <2>4
  <1>13. CASE StopWorker \/ StopNotify \/ JoinWorker
    <2>1. /\ main \in {"stop", "stopNotify", "joinWorker"}
          /\ main' \in {"stopNotify", "joinWorker", "ended"}
          /\ UNCHANGED <<busy, yielding, sleeping>>
      BY <1>13 DEF StopWorker, StopNotify, JoinWorker, yieldVars, sleepVars
    <2>2. Control'  BY <1>0, <2>1 DEF Control, YieldStates
    <2>3. NextPosted'  BY <1>5, <2>1 DEF NextPosted
    <2> QED  BY <1>2, <1>3, <2>2, <2>3
  <1>14. CASE (YieldEnd \/ YieldJoin) /\ busy
    <2>1. /\ main \in {"work", "join"} /\ main' = "join" /\ UNCHANGED <<busy, worker, sleeping>>
      BY <1>14 DEF YieldEnd, YieldJoin, workerVars, yieldVars, sleepVars
    <2>2. ~yielding'
      BY <1>14 DEF YieldEnd, YieldJoin, yieldVars, Control
    <2>3. Control'  BY <1>0, <2>1, <2>2 DEF Control, YieldStates
    <2>4. NextPosted'  BY <1>4, <1>5, <2>1 DEF NextPosted
    <2> QED  BY <1>2, <1>3, <2>3, <2>4
  <1> QED  BY <1>7, <1>7a, <1>8, <1>9, <1>10, <1>11, <1>12, <1>13, <1>14 DEF MainMove

-----------------------------------------------------------------------------
(* A cancel task stands for a client that left.                            *)

\* A client that left does not come back.
LEMMA GoneStays ==
  ASSUME IInv, Next, NEW t \in Tasks, client[t] = "gone"
  PROVE  client'[t] = "gone"
  <1> USE DEF IInv, Core, TypeOK, SendResult, Next
  <1>1. CASE \E u \in Tasks : ClientStep(u)
    BY <1>1 DEF ClientStep, Arrive, Rewait, Post, PostCancel
  <1>2. CASE Terminate \/ SpuriousWakeup  BY <1>2 DEF Terminate, SpuriousWakeup
  <1>3. CASE WorkerStep
    BY <1>3 DEF WorkerStep, WorkerPark, WorkerPop, WorkerHandle, WorkerCheck, WorkerWait,
                WorkerEnd, WorkerSignal
  <1>4. CASE MainHandle
    BY <1>4 DEF MainHandle, HandleRun, AnswerRead, AnswerAtOnce, Launch,
             HandleCancel, Defer
  <1>5. CASE \E s \in Slots : FinishSlot(s)
    BY <1>5 DEF FinishSlot
  <1>6. CASE MainPop \/ UpdateIdle \/ UpdateBusy \/ YieldStart \/ YieldNotify \/ YieldEnd
               \/ YieldJoin \/ NextYield \/ UpdateDone \/ MainIdle \/ MainWait \/ MainAsleep
               \/ StopWorker \/ StopNotify \/ JoinWorker
    BY <1>6 DEF MainPop, UpdateIdle, UpdateBusy, YieldStart, YieldNotify, YieldEnd,
                YieldJoin, NextYield, UpdateDone, MainIdle, MainWait, MainAsleep, StopWorker,
                StopNotify, JoinWorker
  <1> QED  BY <1>1, <1>2, <1>3, <1>4, <1>5, <1>6 DEF MainStep

\* A cancel task comes from post() of a client that leaves, and only moves after
\* that.
LEMMA CancelOrigin ==
  ASSUME IInv, Next, NEW t \in Tasks, CancelPending(t)'
  PROVE  CancelPending(t) \/ client'[t] = "gone"
  <1> USE DEF IInv, Core
  <1>0. /\ queue \in Seq(Items) /\ unhandled \in Seq(Items)
        /\ Cancel(t) # NoItem /\ Cancel(t) # NextResponse
        /\ \A u \in Tasks : Cancel(t) # Run(u)
    BY ItemFacts DEF TypeOK
  <1>1. CASE UNCHANGED <<queue, unhandled, inHand, wInHand>>
    BY <1>1 DEF CancelPending, In
  <1>2. CASE \E u \in Tasks : Post(u)
    <2> PICK u \in Tasks : Post(u)  BY <1>2
    <2>1. Run(u) \in Items  BY ItemFacts
    <2>2. In(queue', Cancel(t)) => In(queue, Cancel(t))
      BY <1>0, <2>1, AppendIn, ConsIn DEF Post
    <2>3. UNCHANGED <<unhandled, inHand, wInHand>>  BY DEF Post, workerVars
    <2> QED  BY <2>2, <2>3 DEF CancelPending
  <1>3. CASE \E u \in Tasks : PostCancel(u)
    <2> PICK u \in Tasks : PostCancel(u)  BY <1>3
    <2> DEFINE q == RemoveFirst(queue, Run(u))
    <2>1. /\ queue' = <<Cancel(u)>> \o q /\ unhandled' = RemoveFirst(unhandled, Run(u))
          /\ UNCHANGED <<inHand, wInHand>> /\ client' = [client EXCEPT ![u] = "gone"]
      BY DEF PostCancel, CleanupPendingTask, workerVars
    <2>2. /\ q \in Seq(Items) /\ Cancel(u) \in Items
          /\ In(q, Cancel(t)) <=> In(queue, Cancel(t))
          /\ In(unhandled', Cancel(t)) <=> In(unhandled, Cancel(t))
      BY <1>0, <2>1, ItemFacts, RemoveFirstIn
    <2> HIDE DEF q
    <2>3. In(queue', Cancel(t)) => In(queue, Cancel(t)) \/ Cancel(t) = Cancel(u)
      BY <2>1, <2>2, ConsIn
    <2>4. Cancel(t) = Cancel(u) => t = u  BY DEF Cancel
    <2>5. t = u => client'[t] = "gone"  BY <2>1 DEF TypeOK
    <2> QED  BY <2>1, <2>2, <2>3, <2>4, <2>5 DEF CancelPending
  <1>4. CASE /\ queue # <<>> /\ queue' = Tail(queue) /\ UNCHANGED unhandled
             /\ \/ inHand' = Head(queue) /\ UNCHANGED wInHand
                \/ wInHand' = Head(queue) /\ UNCHANGED inHand
    <2>1. \A x : In(queue, x) <=> (x = Head(queue) \/ In(queue', x))
      BY <1>4, PopEffect
    <2> QED  BY <1>4, <2>1 DEF CancelPending
  <1>5. CASE WorkerHandle
    <2>1. UNCHANGED <<queue, inHand>> /\ wInHand' = NoItem /\ wInHand \in Items
      BY <1>5 DEF WorkerHandle, Control, TypeOK
    <2>2. In(unhandled', Cancel(t)) => In(unhandled, Cancel(t)) \/ Cancel(t) = wInHand
      <3>1. unhandled' = unhandled \/ unhandled' = Append(unhandled, wInHand)
        BY <1>5 DEF WorkerHandle
      <3>2. In(Append(unhandled, wInHand), Cancel(t))
              <=> (In(unhandled, Cancel(t)) \/ Cancel(t) = wInHand)
        BY <1>0, <2>1, AppendIn
      <3>3. CASE unhandled' = unhandled  BY <3>3
      <3>4. CASE unhandled' = Append(unhandled, wInHand)  BY <3>2, <3>4
      <3> QED  BY <3>1, <3>3, <3>4
    <2> QED  BY <1>0, <2>1, <2>2 DEF CancelPending
  <1>6. CASE MainHandle
    <2>1. UNCHANGED <<unhandled, wInHand>> /\ inHand' = NoItem
      BY <1>6 DEF MainHandle, workerVars
    <2>2. In(queue', Cancel(t)) => In(queue, Cancel(t))
      <3>1. queue' = queue \/ \E s \in Slots : Release(s)
        BY <1>6 DEF MainHandle, HandleRun, AnswerRead, AnswerAtOnce, Launch,
             HandleCancel, Defer
      <3> QED  BY <3>1, ReleaseEffect
    <2> QED  BY <1>0, <2>1, <2>2 DEF CancelPending
  <1>7. CASE \E s \in Slots : FinishSlot(s)
    <2>1. UNCHANGED <<unhandled, wInHand, inHand>> /\ \E s \in Slots : Release(s)
      BY <1>7 DEF FinishSlot, workerVars
    <2>2. In(queue', Cancel(t)) => In(queue, Cancel(t))  BY <2>1, ReleaseEffect
    <2> QED  BY <2>1, <2>2 DEF CancelPending
  <1>8. CASE UpdateBusy
    <2>1. UNCHANGED <<unhandled, wInHand, inHand>> /\ queue' = Append(queue, NextResponse)
      BY <1>8 DEF UpdateBusy, workerVars
    <2>2. In(queue', Cancel(t)) => In(queue, Cancel(t))
      BY <1>0, <2>1, ItemFacts, AppendIn
    <2> QED  BY <2>1, <2>2 DEF CancelPending
  <1>9. CASE PutBack /\ UNCHANGED <<inHand, wInHand>>
    <2>1. In(queue', Cancel(t)) => In(unhandled, Cancel(t)) \/ In(queue, Cancel(t))
      BY <1>0, <1>9, ConcatIn DEF PutBack
    <2>2. ~In(unhandled', Cancel(t))  BY <1>9, EmptyIn DEF PutBack
    <2> QED  BY <1>9, <2>1, <2>2 DEF CancelPending
  <1>10. CASE MainPop \/ WorkerPop
    BY <1>1, <1>4, <1>10 DEF MainPop, WorkerPop, workerVars
  <1>11. CASE YieldEnd \/ YieldJoin
    BY <1>1, <1>9, <1>11 DEF YieldEnd, YieldJoin, workerVars
  <1>12. CASE UpdateIdle \/ YieldStart \/ YieldNotify \/ NextYield \/ UpdateDone \/ MainIdle \/ MainWait
                \/ MainAsleep \/ StopWorker \/ StopNotify \/ JoinWorker
    BY <1>1, <1>12 DEF UpdateIdle, YieldStart, YieldNotify, NextYield, UpdateDone, MainIdle, MainWait,
         MainAsleep, StopWorker, StopNotify, JoinWorker, workerVars, qVars
  <1>13. CASE WorkerPark \/ WorkerCheck \/ WorkerWait \/ WorkerEnd \/ WorkerSignal
    BY <1>1, <1>13 DEF WorkerPark, WorkerCheck, WorkerWait, WorkerEnd, WorkerSignal, qVars
  <1>14. CASE \/ Terminate \/ SpuriousWakeup
              \/ \E u \in Tasks : Arrive(u) \/ Rewait(u)
    BY <1>1, <1>14 DEF Terminate, SpuriousWakeup, Arrive, Rewait, workerVars, qVars
  <1> QED
    BY <1>2, <1>3, <1>5, <1>6, <1>7, <1>8, <1>10, <1>11, <1>12, <1>13, <1>14
       DEF Next, MainStep, WorkerStep, ClientStep

-----------------------------------------------------------------------------
\* Every step keeps the types, the threads' exclusion, NEXT_RESPONSE and the
\* places.
LEMMA NextCore == IInv /\ Next => Core'
  <1> SUFFICES ASSUME IInv, Next PROVE Core'  OBVIOUS
  <1>1. CASE \E t \in Tasks : ClientStep(t)
    BY <1>1, ArriveStep, PostStep, PostCancelStep DEF ClientStep
  <1>2. CASE Terminate \/ SpuriousWakeup  BY <1>2, TerminateStep
  <1>3. CASE WorkerStep
    BY <1>3, WorkerMoveStep, WorkerPopStep, WorkerHandleStep DEF WorkerStep
  <1>4. CASE MainHandle
    <2>1. \/ \E t \in Tasks : HandleRun(t) \/ HandleCancel(t)
          \/ inHand = NextResponse
      BY <1>4 DEF MainHandle
    <2> QED  BY <1>4, <2>1, HandleRunStep, HandleCancelStep, HandleNextStep
  <1>5. CASE YieldEnd \/ YieldJoin
    <2>1. busy \/ (PutBack /\ main' = "decoded")  BY <1>5 DEF YieldEnd, YieldJoin
    <2>2. busy => MainMove  BY <1>5 DEF MainMove
    <2> QED  BY <1>5, <2>1, <2>2, MainMoveStep, PutBackStep
  <1>6. CASE \/ UpdateIdle \/ YieldStart \/ YieldNotify \/ NextYield \/ UpdateDone \/ MainIdle \/ MainWait
             \/ MainAsleep \/ StopWorker \/ StopNotify \/ JoinWorker
    BY <1>6, MainMoveStep DEF MainMove
  <1>7. CASE MainPop \/ UpdateBusy \/ \E s \in Slots : FinishSlot(s)
    BY <1>7, MainPopStep, UpdateBusyStep, FinishSlotStep
  <1> QED  BY <1>1, <1>2, <1>3, <1>4, <1>5, <1>6, <1>7 DEF Next, MainStep

\* Every step preserves the inductive invariant.
LEMMA NextIInv == IInv /\ [Next]_vars => IInv'
  <1> SUFFICES ASSUME IInv, [Next]_vars PROVE IInv'  OBVIOUS
  <1>1. CASE Next
    <2>1. CancelGone'
      BY <1>1, GoneStays, CancelOrigin DEF CancelGone, IInv
    <2> QED  BY <1>1, <2>1, NextCore DEF IInv
  <1>2. CASE UNCHANGED vars
    <2> USE <1>2 DEF vars, qVars, workerVars, yieldVars, sleepVars, IInv, Core
    <2>1. TypeOK' /\ Control'  BY DEF TypeOK, Control
    <2>2. NextPosted'  BY NextFrame DEF NextPending, In
    <2>3. Placed'  BY PlacedFrame
    <2>4. CancelGone'  BY DEF CancelGone, CancelPending, In
    <2> QED  BY <2>1, <2>2, <2>3, <2>4
  <1> QED  BY <1>1, <1>2

\* The inductive invariant holds in every reachable state.
LEMMA SpecIInv == Spec => []IInv
  BY InitIInv, NextIInv, PTL DEF Spec

\* Type correctness of the queue, the slots and the threads, for any requests
\* and slots.
THEOREM QueueTyped == Spec => []TypeOK
  <1>1. IInv => TypeOK  BY DEF IInv, Core
  <1> QED  BY <1>1, SpecIInv, PTL

\* The worker thread and the main thread exclude each other outside of a yield
\* and no declined task outlives it.
THEOREM YieldIsExclusive == Spec => []YieldExclusive
  <1>1. IInv => YieldExclusive
    BY DEF IInv, Core, TypeOK, Control, YieldExclusive, YieldStates, WorkerStates
  <1> QED  BY <1>1, SpecIInv, PTL

\* The main loop never waits for tasks, and never unloads the model, under a
\* slot that is at work (NEXT_RESPONSE, server-context.cpp:2755-2761).
THEOREM NeverSleepsWhileBusy == Spec => []NoSleepWhileBusy
  <1>1. IInv => NoSleepWhileBusy
    BY DEF IInv, Core, TypeOK, Control, NextPosted, NoSleepWhileBusy, YieldStates
  <1> QED  BY <1>1, SpecIInv, PTL

-----------------------------------------------------------------------------
(* Counting the places.                                                    *)

\* The inductive invariant, as a count.
LEMMA PlacesCounted ==
  ASSUME IInv, NEW t \in Tasks
  PROVE  /\ Somewhere(t) => PlaceCount(t) = 1
         /\ ~Somewhere(t) => PlaceCount(t) = 0
  <1> DEFINE q == {i \in DOMAIN queue : queue[i] = Run(t)}
             d == {i \in DOMAIN deferred : deferred[i] = Run(t)}
             u == {i \in DOMAIN unhandled : unhandled[i] = Run(t)}
             h == {w \in {"main"} : inHand = Run(t)} \cup {w \in {"worker"} : wInHand = Run(t)}
             z == {s \in Slots : slot[s] = t}
  <1>0. PlacedOf(t)  BY DEF IInv, Core, Placed
  <1>1. Cardinality(q) = IF In(queue, Run(t)) THEN 1 ELSE 0
    <2>1. \A i, j \in q : i = j  BY <1>0 DEF PlacedOf, OnePlace, Once
    <2>2. In(queue, Run(t)) <=> q # {}  BY DEF In
    <2> QED  BY <2>1, <2>2, SmallSet
  <1>2. Cardinality(d) = IF In(deferred, Run(t)) THEN 1 ELSE 0
    <2>1. \A i, j \in d : i = j  BY <1>0 DEF PlacedOf, OnePlace, Once
    <2>2. In(deferred, Run(t)) <=> d # {}  BY DEF In
    <2> QED  BY <2>1, <2>2, SmallSet
  <1>3. Cardinality(u) = IF In(unhandled, Run(t)) THEN 1 ELSE 0
    <2>1. \A i, j \in u : i = j  BY <1>0 DEF PlacedOf, OnePlace, Once
    <2>2. In(unhandled, Run(t)) <=> u # {}  BY DEF In
    <2> QED  BY <2>1, <2>2, SmallSet
  <1>4. Cardinality(h) = IF inHand = Run(t) \/ wInHand = Run(t) THEN 1 ELSE 0
    <2>1. ~(inHand = Run(t) /\ wInHand = Run(t))  BY <1>0 DEF PlacedOf, OnePlace
    <2>2. \A v, w \in h : v = w  BY <2>1
    <2>3. (inHand = Run(t) \/ wInHand = Run(t)) <=> h # {}  OBVIOUS
    <2> QED  BY <2>2, <2>3, SmallSet
  <1>5. Cardinality(z) = IF InSlot(t) THEN 1 ELSE 0
    <2>1. \A s, r \in z : s = r  BY <1>0 DEF PlacedOf, OnePlace
    <2>2. InSlot(t) <=> z # {}  BY DEF InSlot
    <2> QED  BY <2>1, <2>2, SmallSet
  <1>6. PlaceCount(t) = Cardinality(q) + Cardinality(d) + Cardinality(u) + Cardinality(h)
                          + Cardinality(z)
    BY DEF PlaceCount, Places
  <1> HIDE DEF q, d, u, h, z
  <1> QED
    BY <1>0, <1>1, <1>2, <1>3, <1>4, <1>5, <1>6 DEF Somewhere, PlacedOf, OnePlace

\* No hand-over between the HTTP threads, the two loops, the deferred tasks and
\* the slots loses or doubles a request, for any requests and slots.
THEOREM RequestsPlacedOnce == Spec => []PlacedOnce
  <1>1. IInv => PlacedOnce
    <2> SUFFICES ASSUME IInv, NEW t \in Tasks
                 PROVE  PlaceCount(t) \in CASE client[t] = "posted" -> {1}
                                            [] client[t] = "gone" -> {0, 1}
                                            [] OTHER -> {0}
      BY DEF PlacedOnce
    <2>1. PlacedOf(t) /\ client[t] \in {"new", "nosleep", "ready", "posted", "answered", "gone"}
      BY DEF IInv, Core, Placed, TypeOK
    <2>2. (Somewhere(t) => PlaceCount(t) = 1) /\ (~Somewhere(t) => PlaceCount(t) = 0)
      BY PlacesCounted
    <2> QED  BY <2>1, <2>2 DEF PlacedOf
  <1> QED  BY <1>1, SpecIInv, PTL

-----------------------------------------------------------------------------
(* The order of the pending tasks.  Before is taken apart along the joins   *)
(* of sequences, so that a step is looked at through what it does to the    *)
(* three parts of Pending.                                                 *)

\* What is before what in two sequences joined.
LEMMA ConcatBefore ==
  ASSUME NEW S, NEW s \in Seq(S), NEW r \in Seq(S), NEW a, NEW b
  PROVE  Before(s \o r, a, b) <=> \/ Before(s, a, b) \/ Before(r, a, b)
                                  \/ In(s, a) /\ In(r, b)
  <1> DEFINE q == s \o r
  <1>1. /\ q \in Seq(S) /\ DOMAIN q = 1 .. (Len(s) + Len(r))
        /\ DOMAIN s = 1 .. Len(s) /\ DOMAIN r = 1 .. Len(r)
        /\ Len(s) \in Nat /\ Len(r) \in Nat
    OBVIOUS
  <1>2. \A i \in DOMAIN q : q[i] = IF i <= Len(s) THEN s[i] ELSE r[i - Len(s)]
    BY <1>1, ConcatProperties
  <1>3. \A i \in DOMAIN s : q[i] = s[i] /\ i \in DOMAIN q
    BY <1>1, <1>2
  <1>4. \A i \in DOMAIN r : q[Len(s) + i] = r[i] /\ Len(s) + i \in DOMAIN q
    BY <1>1, <1>2
  <1>5. \A i \in DOMAIN q : \/ i \in DOMAIN s /\ q[i] = s[i]
                            \/ /\ i - Len(s) \in DOMAIN r /\ q[i] = r[i - Len(s)]
                               /\ i > Len(s)
    BY <1>1, <1>2
  <1> HIDE DEF q
  <1>6. Before(s, a, b) => Before(q, a, b)
    BY <1>3 DEF Before
  <1>7. Before(r, a, b) => Before(q, a, b)
    <2> SUFFICES ASSUME NEW i \in DOMAIN r, NEW j \in DOMAIN r, i < j, r[i] = a, r[j] = b
                 PROVE  Before(q, a, b)
      BY DEF Before
    <2>1. Len(s) + i < Len(s) + j  BY <1>1
    <2> QED  BY <1>4, <2>1 DEF Before
  <1>8. In(s, a) /\ In(r, b) => Before(q, a, b)
    <2> SUFFICES ASSUME NEW i \in DOMAIN s, NEW j \in DOMAIN r, s[i] = a, r[j] = b
                 PROVE  Before(q, a, b)
      BY DEF In
    <2>1. i < Len(s) + j  BY <1>1
    <2> QED  BY <1>3, <1>4, <2>1 DEF Before
  <1>9. Before(q, a, b) => Before(s, a, b) \/ Before(r, a, b) \/ (In(s, a) /\ In(r, b))
    <2> SUFFICES ASSUME NEW i \in DOMAIN q, NEW j \in DOMAIN q, i < j, q[i] = a, q[j] = b
                 PROVE  Before(s, a, b) \/ Before(r, a, b) \/ (In(s, a) /\ In(r, b))
      BY DEF Before
    <2>1. CASE i \in DOMAIN s /\ q[i] = s[i] /\ j \in DOMAIN s /\ q[j] = s[j]
      BY <2>1 DEF Before
    <2>2. CASE /\ i \in DOMAIN s /\ q[i] = s[i]
               /\ j - Len(s) \in DOMAIN r /\ q[j] = r[j - Len(s)]
      BY <2>2 DEF In
    <2>3. CASE /\ i - Len(s) \in DOMAIN r /\ q[i] = r[i - Len(s)]
               /\ j - Len(s) \in DOMAIN r /\ q[j] = r[j - Len(s)]
      <3>1. i - Len(s) < j - Len(s)  BY <1>1
      <3> QED  BY <2>3, <3>1 DEF Before
    <2>4. CASE i > Len(s) /\ j \in DOMAIN s
      BY <1>1, <2>4
    <2> QED  BY <1>5, <2>1, <2>2, <2>3, <2>4
  <1> QED  BY <1>6, <1>7, <1>8, <1>9 DEF q

\* One task is before no other.
LEMMA AloneBefore ==
  ASSUME NEW S, NEW e \in S, NEW a, NEW b
  PROVE  <<e>> \in Seq(S) /\ ~Before(<<e>>, a, b) /\ (In(<<e>>, a) <=> a = e)
  BY DEF Before, In

\* push_back puts the task after all others, push_front before them.
LEMMA AppendBefore ==
  ASSUME NEW S, NEW s \in Seq(S), NEW e \in S, NEW a, NEW b
  PROVE  Before(Append(s, e), a, b) <=> Before(s, a, b) \/ (In(s, a) /\ b = e)
  <1>1. Append(s, e) = s \o <<e>>  OBVIOUS
  <1>2. <<e>> \in Seq(S) /\ ~Before(<<e>>, a, b) /\ (In(<<e>>, b) <=> b = e)
    BY AloneBefore
  <1> HIDE <1>1
  <1>3. Before(s \o <<e>>, a, b) <=> Before(s, a, b) \/ (In(s, a) /\ b = e)
    BY <1>2, ConcatBefore
  <1> QED  BY <1>1, <1>3

LEMMA ConsBefore ==
  ASSUME NEW S, NEW s \in Seq(S), NEW e \in S, NEW a, NEW b
  PROVE  Before(<<e>> \o s, a, b) <=> Before(s, a, b) \/ (a = e /\ In(s, b))
  <1>1. <<e>> \in Seq(S) /\ ~Before(<<e>>, a, b) /\ (In(<<e>>, a) <=> a = e)
    BY AloneBefore
  <1> QED  BY <1>1, ConcatBefore

\* Taking the first task: the others keep their order, and all were after it.
LEMMA TailBefore ==
  ASSUME NEW S, NEW s \in Seq(S), s # <<>>, NEW a, NEW b
  PROVE  /\ Before(Tail(s), a, b) => Before(s, a, b)
         /\ In(Tail(s), b) => Before(s, Head(s), b)
  <1>1. /\ Len(s) \in Nat \ {0} /\ DOMAIN s = 1 .. Len(s)
        /\ DOMAIN Tail(s) = 1 .. (Len(s) - 1) /\ Head(s) = s[1]
        /\ \A i \in DOMAIN Tail(s) : Tail(s)[i] = s[i + 1]
    BY HeadTailProperties
  <1>2. 1 \in DOMAIN s /\ \A i \in DOMAIN Tail(s) : i + 1 \in DOMAIN s /\ 1 < i + 1
    BY <1>1
  <1>3. \A i, j \in DOMAIN Tail(s) : i < j => i + 1 < j + 1
    BY <1>1
  <1>4. Before(Tail(s), a, b) => Before(s, a, b)
    BY <1>1, <1>2, <1>3 DEF Before
  <1>5. In(Tail(s), b) => Before(s, Head(s), b)
    BY <1>1, <1>2 DEF Before, In
  <1> QED  BY <1>4, <1>5

\* A task that is taken out leaves the order of the others.
LEMMA RemoveAtBefore ==
  ASSUME NEW S, NEW s \in Seq(S), NEW k \in DOMAIN s, NEW a, NEW b
  PROVE  Before(RemoveAt(s, k), a, b) => Before(s, a, b)
  <1> DEFINE c == SubSeq(s, 1, k - 1)
             d == SubSeq(s, k + 1, Len(s))
  <1>0. Len(s) \in Nat /\ DOMAIN s = 1 .. Len(s) /\ k \in 1 .. Len(s)
        /\ \A i \in DOMAIN s : s[i] \in S
    OBVIOUS
  <1>1. c \in Seq(S) /\ DOMAIN c = 1 .. (k - 1) /\ \A i \in DOMAIN c : c[i] = s[i]
    <2>1. c \in Seq(S) /\ Len(c) = k - 1 /\ \A i \in 1 .. (k - 1) : c[i] = s[i]
      BY <1>0, SubSeqProperties
    <2> QED  BY <2>1
  <1>2. /\ d \in Seq(S) /\ DOMAIN d = 1 .. (Len(s) - k) /\ \A i \in DOMAIN d : d[i] = s[k + i]
    <2>1. /\ d \in Seq(S) /\ Len(d) = Len(s) - k
          /\ \A i \in 1 .. (Len(s) - k) : d[i] = s[k + i]
      BY <1>0, SubSeqProperties
    <2> QED  BY <2>1
  <1>3. RemoveAt(s, k) = c \o d  BY DEF RemoveAt
  <1> HIDE DEF c, d
  <1>4. \A i \in DOMAIN c : i \in DOMAIN s /\ i < k
    BY <1>0, <1>1
  <1>5. \A i \in DOMAIN d : k + i \in DOMAIN s /\ k + i > k
    BY <1>0, <1>2
  <1>6. Before(c, a, b) => Before(s, a, b)
    BY <1>1, <1>4 DEF Before
  <1>7. Before(d, a, b) => Before(s, a, b)
    <2> SUFFICES ASSUME NEW i \in DOMAIN d, NEW j \in DOMAIN d, i < j, d[i] = a, d[j] = b
                 PROVE  Before(s, a, b)
      BY DEF Before
    <2>1. k + i < k + j  BY <1>0, <1>2
    <2> QED  BY <1>2, <1>5, <2>1 DEF Before
  <1>8. In(c, a) /\ In(d, b) => Before(s, a, b)
    <2> SUFFICES ASSUME NEW i \in DOMAIN c, NEW j \in DOMAIN d, c[i] = a, d[j] = b
                 PROVE  Before(s, a, b)
      BY DEF In
    <2>1. i < k + j  BY <1>0, <1>1, <1>2, <1>4
    <2> QED  BY <1>1, <1>2, <1>4, <1>5, <2>1 DEF Before
  <1> QED  BY <1>1, <1>2, <1>3, <1>6, <1>7, <1>8, ConcatBefore

LEMMA RemoveFirstBefore ==
  ASSUME NEW S, NEW s \in Seq(S), NEW e, NEW a, NEW b
  PROVE  Before(RemoveFirst(s, e), a, b) => Before(s, a, b)
  BY RemoveFirstPlace, RemoveAtBefore

\* A task that occurs once is not before itself, and of two such tasks only
\* one is before the other.
LEMMA BeforeOnce ==
  ASSUME NEW S, NEW s \in Seq(S), NEW a, NEW b, Once(s, a), Once(s, b), Before(s, a, b)
  PROVE  In(s, a) /\ In(s, b) /\ ~Before(s, b, a)
  <1>1. DOMAIN s \in SUBSET Nat  OBVIOUS
  <1> QED  BY <1>1 DEF Before, Once, In

IsPending(x) == In(unhandled, x) \/ wInHand = x \/ In(queue, x)

\* Pending task a is before pending task b.
Ahead(a, b) ==
  \/ Before(unhandled, a, b) \/ Before(queue, a, b)
  \/ In(unhandled, a) /\ (wInHand = b \/ In(queue, b))
  \/ wInHand = a /\ In(queue, b)

\* Pending, through its three parts.
LEMMA PendingParts ==
  ASSUME TypeOK, NEW a \in Items, NEW b \in Items
  PROVE  /\ a \in ToSet(Pending) <=> IsPending(a)
         /\ Before(Pending, a, b) <=> Ahead(a, b)
  <1> DEFINE h == Holding(wInHand)
             r == h \o queue
  <1>1. queue \in Seq(Items) /\ unhandled \in Seq(Items)  BY DEF TypeOK
  <1>2. a # NoItem /\ b # NoItem  BY ItemFacts
  <1>3. /\ h \in Seq(Items)
        /\ In(h, a) <=> wInHand = a
        /\ In(h, b) <=> wInHand = b
        /\ ~Before(h, a, b)
    <2>1. CASE wInHand = NoItem
      <3>1. h = <<>>  BY <2>1 DEF Holding
      <3> QED  BY <3>1, <2>1, <1>2 DEF In, Before
    <2>2. CASE wInHand # NoItem
      <3>1. h = <<wInHand>> /\ wInHand \in Items  BY <2>2 DEF Holding, TypeOK
      <3>2. \A x : /\ <<wInHand>> \in Seq(Items) /\ ~Before(<<wInHand>>, a, b)
                   /\ In(<<wInHand>>, x) <=> x = wInHand
        BY <3>1, AloneBefore
      <3> QED  BY <3>1, <3>2
    <2> QED  BY <2>1, <2>2
  <1> HIDE DEF h
  <1>4. /\ r \in Seq(Items)
        /\ In(r, a) <=> (wInHand = a \/ In(queue, a))
        /\ In(r, b) <=> (wInHand = b \/ In(queue, b))
        /\ Before(r, a, b) <=> (Before(queue, a, b) \/ (wInHand = a /\ In(queue, b)))
    BY <1>1, <1>3, ConcatIn, ConcatBefore
  <1>5. (unhandled \o h) \o queue = unhandled \o r
    BY <1>1, <1>3, ConcatAssociative
  <1> HIDE DEF r
  <1>6. Pending = unhandled \o r  BY <1>5 DEF Pending, h
  <1>7. Pending \in Seq(Items) /\ (In(Pending, a) <=> In(unhandled, a) \/ In(r, a))
    BY <1>1, <1>4, <1>6, ConcatIn
  <1>8. Before(Pending, a, b) <=> \/ Before(unhandled, a, b) \/ Before(r, a, b)
                                  \/ In(unhandled, a) /\ In(r, b)
    BY <1>1, <1>4, <1>6, ConcatBefore
  <1>9. a \in ToSet(Pending) <=> In(Pending, a)
    BY <1>7 DEF ToSet, In
  <1> QED  BY <1>4, <1>7, <1>8, <1>9 DEF IsPending, Ahead

-----------------------------------------------------------------------------
(* Every pending task is there once: requests by Placed, cancel tasks      *)
(* because a client leaves once, NEXT_RESPONSE because it is posted only   *)
(* when the main thread has seen the queue empty.                          *)

Single(x) ==
  /\ Once(unhandled, x) /\ Once(queue, x)
  /\ ~(In(unhandled, x) /\ In(queue, x))
  /\ wInHand = x => ~In(unhandled, x) /\ ~In(queue, x)

Singles == \A x \in Items : Single(x)

NextFresh == main = "update" => ~NextPending

\* Of two tasks that are pending once only one is ahead of the other.
LEMMA AheadOneWay ==
  ASSUME TypeOK, NEW a \in Items, NEW b \in Items, Single(a), Single(b), Ahead(a, b)
  PROVE  ~Ahead(b, a)
  <1>1. queue \in Seq(Items) /\ unhandled \in Seq(Items)  BY DEF TypeOK
  <1>2. Once(unhandled, a) /\ Once(queue, a) /\ Once(unhandled, b) /\ Once(queue, b)
    BY DEF Single
  <1>3. /\ Before(queue, a, b) => In(queue, a) /\ In(queue, b) /\ ~Before(queue, b, a)
        /\ Before(queue, b, a) => In(queue, a) /\ In(queue, b)
    BY <1>1, <1>2, BeforeOnce
  <1>4. /\ Before(unhandled, a, b) => /\ In(unhandled, a) /\ In(unhandled, b)
                                      /\ ~Before(unhandled, b, a)
        /\ Before(unhandled, b, a) => In(unhandled, a) /\ In(unhandled, b)
    BY <1>1, <1>2, BeforeOnce
  <1> QED  BY <1>3, <1>4 DEF Single, Ahead

\* What a step can do to the pending tasks.
Fresh(x) == x \in Items /\ ~IsPending(x)

MainTakes ==
  /\ queue # <<>> /\ queue' = Tail(queue)
  /\ UNCHANGED <<unhandled, wInHand>>

WorkerTakes ==
  /\ queue # <<>> /\ queue' = Tail(queue)
  /\ wInHand = NoItem /\ wInHand' = Head(queue)
  /\ UNCHANGED unhandled

WorkerAnswers ==
  /\ wInHand' = NoItem
  /\ UNCHANGED <<unhandled, queue>>

WorkerDeclines ==
  /\ wInHand \in Items /\ wInHand' = NoItem
  /\ unhandled' = Append(unhandled, wInHand)
  /\ UNCHANGED queue

Returned ==
  /\ wInHand = NoItem /\ PutBack
  /\ UNCHANGED wInHand

AddedLast(x) ==
  /\ queue' = Append(queue, x)
  /\ UNCHANGED <<unhandled, wInHand>>

AddedFirst(x) ==
  /\ queue' = <<x>> \o queue
  /\ UNCHANGED <<unhandled, wInHand>>

Cancelled(t) ==
  /\ queue' = <<Cancel(t)>> \o RemoveFirst(queue, Run(t))
  /\ unhandled' = RemoveFirst(unhandled, Run(t))
  /\ UNCHANGED wInHand

PendingMove ==
  \/ UNCHANGED <<unhandled, wInHand, queue>>
  \/ MainTakes \/ WorkerTakes \/ WorkerAnswers \/ WorkerDeclines \/ Returned
  \/ \E x : Fresh(x) /\ (AddedLast(x) \/ AddedFirst(x))
  \/ \E t \in Tasks : Fresh(Cancel(t)) /\ Cancelled(t)

\* No such move doubles a pending task or brings one ahead of another that it
\* was not ahead of.
LEMMA MoveKeepsOrder ==
  ASSUME TypeOK, Singles, PendingMove, NEW a \in Items, NEW b \in Items
  PROVE  /\ Single(a)'
         /\ IsPending(a) /\ IsPending(b) /\ Ahead(b, a)' => Ahead(b, a)
  <1>0. /\ queue \in Seq(Items) /\ unhandled \in Seq(Items)
        /\ a # NoItem /\ b # NoItem /\ Single(a)
    BY ItemFacts DEF TypeOK, Singles
  <1>1. CASE UNCHANGED <<unhandled, wInHand, queue>>
    BY <1>0, <1>1 DEF Single, Ahead, In, Once, Before
  <1>2. CASE MainTakes
    <2>1. /\ In(queue, a) <=> (a = Head(queue) \/ In(queue', a))
          /\ Once(queue, a) => Once(queue', a)
          /\ In(queue', b) => In(queue, b)
          /\ Before(queue', b, a) => Before(queue, b, a)
      BY <1>0, <1>2, TailIn, TailBefore DEF MainTakes
    <2>2. UNCHANGED <<unhandled, wInHand>>  BY <1>2 DEF MainTakes
    <2> QED  BY <1>0, <2>1, <2>2 DEF Single, Ahead
  <1>3. CASE WorkerTakes
    <2>1. /\ In(queue, a) <=> (a = Head(queue) \/ In(queue', a))
          /\ Once(queue, a) => Once(queue', a) /\ (a = Head(queue) => ~In(queue', a))
          /\ In(queue, b) <=> (b = Head(queue) \/ In(queue', b))
          /\ Before(queue', b, a) => Before(queue, b, a)
          /\ In(queue', a) => Before(queue, Head(queue), a)
      BY <1>0, <1>3, TailIn, TailBefore DEF WorkerTakes
    <2>2. UNCHANGED unhandled /\ wInHand = NoItem /\ wInHand' = Head(queue)
      BY <1>3 DEF WorkerTakes
    <2> QED  BY <1>0, <2>1, <2>2 DEF Single, Ahead
  <1>4. CASE WorkerAnswers
    BY <1>0, <1>4 DEF WorkerAnswers, Single, Ahead
  <1>5. CASE WorkerDeclines
    <2>1. /\ In(unhandled', a) <=> (In(unhandled, a) \/ a = wInHand)
          /\ Once(unhandled, a) /\ (a = wInHand => ~In(unhandled, a)) => Once(unhandled', a)
          /\ In(unhandled', b) <=> (In(unhandled, b) \/ b = wInHand)
          /\ Before(unhandled', b, a) <=> Before(unhandled, b, a)
                                            \/ (In(unhandled, b) /\ a = wInHand)
      BY <1>0, <1>5, AppendIn, AppendBefore DEF WorkerDeclines
    <2>2. UNCHANGED queue /\ wInHand' = NoItem  BY <1>5 DEF WorkerDeclines
    <2> QED  BY <1>0, <2>1, <2>2 DEF Single, Ahead
  <1>6. CASE Returned
    <2>1. /\ In(queue', a) <=> (In(unhandled, a) \/ In(queue, a))
          /\ Once(unhandled, a) /\ Once(queue, a) /\ ~(In(unhandled, a) /\ In(queue, a))
               => Once(queue', a)
          /\ Before(queue', b, a) <=> \/ Before(unhandled, b, a) \/ Before(queue, b, a)
                                      \/ In(unhandled, b) /\ In(queue, a)
      BY <1>0, <1>6, ConcatIn, ConcatBefore DEF Returned, PutBack
    <2>2. wInHand = NoItem /\ wInHand' = NoItem /\ unhandled' = <<>>
      BY <1>6 DEF Returned, PutBack
    <2>3. ~In(<<>>, a) /\ ~In(<<>>, b) /\ Once(<<>>, a) /\ ~Before(<<>>, b, a)
      BY DEF In, Once, Before
    <2> QED  BY <1>0, <2>1, <2>2, <2>3 DEF Single, Ahead
  <1>7. ASSUME NEW x, Fresh(x), AddedLast(x) \/ AddedFirst(x)
        PROVE  /\ Single(a)'
               /\ IsPending(a) /\ IsPending(b) /\ Ahead(b, a)' => Ahead(b, a)
    <2>1. /\ In(queue', a) <=> (In(queue, a) \/ a = x)
          /\ Once(queue, a) /\ (a = x => ~In(queue, a)) => Once(queue', a)
          /\ In(queue', b) <=> (In(queue, b) \/ b = x)
          /\ Before(queue', b, a) => Before(queue, b, a) \/ a = x \/ b = x
      <3>1. x \in Items  BY <1>7 DEF Fresh
      <3>2. CASE queue' = Append(queue, x)
        BY <1>0, <3>1, <3>2, AppendIn, AppendBefore
      <3>3. CASE queue' = <<x>> \o queue
        BY <1>0, <3>1, <3>3, ConsIn, ConsBefore
      <3> QED  BY <1>7, <3>2, <3>3 DEF AddedLast, AddedFirst
    <2>2. UNCHANGED <<unhandled, wInHand>> /\ ~IsPending(x)
      BY <1>7 DEF AddedLast, AddedFirst, Fresh
    <2> QED  BY <1>0, <2>1, <2>2 DEF Single, Ahead, IsPending
  <1>8. ASSUME NEW t \in Tasks, Fresh(Cancel(t)), Cancelled(t)
        PROVE  /\ Single(a)'
               /\ IsPending(a) /\ IsPending(b) /\ Ahead(b, a)' => Ahead(b, a)
    <2> DEFINE q == RemoveFirst(queue, Run(t))
               c == Cancel(t)
    <2>1. /\ q \in Seq(Items) /\ c \in Items
          /\ In(q, a) => In(queue, a)
          /\ In(q, b) => In(queue, b)
          /\ Once(queue, a) => Once(q, a)
          /\ Before(q, b, a) => Before(queue, b, a)
      <3>1. \A x : Single(x) => (In(q, x) => In(queue, x))
        BY <1>0, RemoveFirstIn DEF Single
      <3> QED  BY <1>0, <3>1, ItemFacts, RemoveFirstIn, RemoveFirstBefore DEF Singles
    <2>2. /\ In(unhandled', a) => In(unhandled, a)
          /\ In(unhandled', b) => In(unhandled, b)
          /\ Once(unhandled, a) => Once(unhandled', a)
          /\ Before(unhandled', b, a) => Before(unhandled, b, a)
          /\ UNCHANGED wInHand
      <3>1. unhandled' = RemoveFirst(unhandled, Run(t)) /\ UNCHANGED wInHand
        BY <1>8 DEF Cancelled
      <3>2. \A x : Single(x) => (In(unhandled', x) => In(unhandled, x))
        BY <1>0, <3>1, RemoveFirstIn DEF Single
      <3> QED  BY <1>0, <3>1, <3>2, ItemFacts, RemoveFirstIn, RemoveFirstBefore DEF Singles
    <2>3. queue' = <<c>> \o q /\ ~IsPending(c)  BY <1>8 DEF Cancelled, Fresh
    <2> HIDE DEF q, c
    <2>4. /\ In(queue', a) <=> (In(q, a) \/ a = c)
          /\ Once(q, a) /\ (a = c => ~In(q, a)) => Once(queue', a)
          /\ In(queue', b) <=> (In(q, b) \/ b = c)
          /\ Before(queue', b, a) => Before(q, b, a) \/ b = c
      BY <2>1, <2>3, ConsIn, ConsBefore
    <2> QED  BY <1>0, <2>1, <2>2, <2>3, <2>4 DEF Single, Ahead, IsPending
  <1> QED  BY <1>1, <1>2, <1>3, <1>4, <1>5, <1>6, <1>7, <1>8 DEF PendingMove

\* What is pending are tasks.
LEMMA PendingItems ==
  ASSUME TypeOK
  PROVE  ToSet(Pending) \subseteq Items
  <1>1. queue \in Seq(Items) /\ unhandled \in Seq(Items) /\ wInHand \in Items \cup {NoItem}
    BY DEF TypeOK
  <1>2. Holding(wInHand) \in Seq(Items)  BY <1>1 DEF Holding
  <1>3. Pending \in Seq(Items)  BY <1>1, <1>2, ConcatProperties DEF Pending
  <1> QED  BY <1>3 DEF ToSet

\* Every step is one of these moves.  A posted request is fresh because its
\* client was "ready", a request that was deferred because it was in that one
\* place, a cancel task because its client had not left yet.
LEMMA ReleaseMoves ==
  ASSUME IInv, NEW s \in Slots, Release(s), UNCHANGED <<unhandled, wInHand>>
  PROVE  PendingMove
  <1>1. CASE deferred = <<>>
    BY <1>1 DEF Release, PopDeferredTask, PendingMove
  <1>2. CASE deferred # <<>>
    <2>1. TypeOK /\ Placed /\ deferred \in Seq({Run(t) : t \in Tasks})
      BY DEF IInv, Core, TypeOK
    <2>2. PICK k \in DOMAIN deferred : queue' = <<deferred[k]>> \o queue
      BY <1>2, <2>1, DeferredForIndex DEF Release, PopDeferredTask
    <2>3. PICK t \in Tasks : deferred[k] = Run(t)
      BY <2>1
    <2>4. In(deferred, Run(t))  BY <2>3 DEF In
    <2>5. ~IsPending(Run(t))
      BY <2>1, <2>4 DEF Placed, PlacedOf, OnePlace, IsPending
    <2>6. Fresh(Run(t)) /\ AddedFirst(Run(t))
      BY <2>2, <2>3, <2>5, ItemFacts DEF Fresh, AddedFirst
    <2> QED  BY <2>6 DEF PendingMove
  <1> QED  BY <1>1, <1>2

LEMMA StepMoves ==
  ASSUME IInv, NextFresh, Next
  PROVE  PendingMove
  <1> USE DEF IInv, Core
  <1>1. CASE UNCHANGED <<unhandled, wInHand, queue>>
    BY <1>1 DEF PendingMove
  <1>2. CASE \E t \in Tasks : Post(t)
    <2> PICK t \in Tasks : Post(t)  BY <1>2
    <2>1. ~IsPending(Run(t))
      BY DEF Post, Placed, PlacedOf, Somewhere, IsPending
    <2>2. Fresh(Run(t)) /\ (AddedLast(Run(t)) \/ AddedFirst(Run(t)))
      BY <2>1, ItemFacts DEF Fresh, AddedLast, AddedFirst, Post, workerVars
    <2> QED  BY <2>2 DEF PendingMove
  <1>3. CASE \E t \in Tasks : PostCancel(t)
    <2> PICK t \in Tasks : PostCancel(t)  BY <1>3
    <2>1. ~IsPending(Cancel(t))
      BY DEF PostCancel, CancelGone, CancelPending, IsPending
    <2>2. Fresh(Cancel(t)) /\ Cancelled(t)
      BY <2>1, ItemFacts DEF Fresh, Cancelled, PostCancel, CleanupPendingTask, workerVars
    <2> QED  BY <2>2 DEF PendingMove
  <1>4. CASE WorkerPop
    <2>1. wInHand = NoItem  BY <1>4 DEF WorkerPop, Control
    <2>2. UNCHANGED <<unhandled, wInHand, queue>> \/ WorkerTakes
      BY <1>4, <2>1 DEF WorkerPop, WorkerTakes
    <2> QED  BY <2>2 DEF PendingMove
  <1>5. CASE WorkerHandle
    <2>1. wInHand \in Items  BY <1>5 DEF WorkerHandle, Control, TypeOK
    <2>2. WorkerAnswers \/ WorkerDeclines
      BY <1>5, <2>1 DEF WorkerHandle, WorkerAnswers, WorkerDeclines
    <2> QED  BY <2>2 DEF PendingMove
  <1>6. CASE MainPop
    <2>1. UNCHANGED <<unhandled, wInHand, queue>> \/ MainTakes
      BY <1>6 DEF MainPop, MainTakes, workerVars
    <2> QED  BY <2>1 DEF PendingMove
  <1>7. CASE MainHandle
    <2>1. UNCHANGED <<unhandled, wInHand>>  BY <1>7 DEF MainHandle, workerVars
    <2>2. queue' = queue \/ \E s \in Slots : Release(s)
      BY <1>7 DEF MainHandle, HandleRun, AnswerRead, AnswerAtOnce, Launch,
             HandleCancel, Defer
    <2> QED  BY <1>1, <2>1, <2>2, ReleaseMoves
  <1>8. CASE \E s \in Slots : FinishSlot(s)
    BY <1>8, ReleaseMoves DEF FinishSlot, workerVars
  <1>9. CASE UpdateBusy
    <2>1. ~IsPending(NextResponse)
      BY <1>9 DEF UpdateBusy, NextFresh, NextPending, IsPending
    <2>2. Fresh(NextResponse) /\ AddedLast(NextResponse)
      BY <1>9, <2>1, ItemFacts DEF Fresh, AddedLast, UpdateBusy, workerVars
    <2> QED  BY <2>2 DEF PendingMove
  <1>10. CASE YieldEnd \/ YieldJoin
    <2>1. UNCHANGED wInHand /\ (busy \/ PutBack)
      BY <1>10 DEF YieldEnd, YieldJoin, workerVars
    <2>2. CASE busy  BY <1>1, <1>10, <2>1, <2>2 DEF YieldEnd, YieldJoin
    <2>3. CASE ~busy
      <3>1. wInHand = NoItem  BY <2>3 DEF Control
      <3> QED  BY <2>1, <2>3, <3>1 DEF Returned, PendingMove
    <2> QED  BY <2>2, <2>3
  <1>11. CASE UpdateIdle \/ YieldStart \/ YieldNotify \/ NextYield \/ UpdateDone \/ MainIdle \/ MainWait
                \/ MainAsleep \/ StopWorker \/ StopNotify \/ JoinWorker
    BY <1>1, <1>11 DEF UpdateIdle, YieldStart, YieldNotify, NextYield, UpdateDone, MainIdle, MainWait,
         MainAsleep, StopWorker, StopNotify, JoinWorker, workerVars, qVars
  <1>12. CASE WorkerPark \/ WorkerCheck \/ WorkerWait \/ WorkerEnd \/ WorkerSignal
    BY <1>1, <1>12 DEF WorkerPark, WorkerCheck, WorkerWait, WorkerEnd, WorkerSignal, qVars
  <1>13. CASE \/ Terminate \/ SpuriousWakeup
              \/ \E u \in Tasks : Arrive(u) \/ Rewait(u)
    BY <1>1, <1>13 DEF Terminate, SpuriousWakeup, Arrive, Rewait, workerVars, qVars
  <1> QED
    BY <1>2, <1>3, <1>4, <1>5, <1>6, <1>7, <1>8, <1>9, <1>10, <1>11, <1>12, <1>13
       DEF Next, MainStep, WorkerStep, ClientStep

\* The main thread enters update_slots() with nothing pending, and nobody else
\* posts NEXT_RESPONSE.
LEMMA NextFreshStep ==
  ASSUME IInv, NextFresh, Next
  PROVE  NextFresh'
  <1> SUFFICES ASSUME main' = "update" PROVE ~NextPending'  BY DEF NextFresh
  <1> USE DEF IInv, Core
  <1>0. /\ queue \in Seq(Items) /\ unhandled \in Seq(Items)
        /\ NextResponse # NoItem /\ \A t \in Tasks : NextResponse # Run(t) /\ NextResponse # Cancel(t)
    BY ItemFacts DEF TypeOK
  <1>1. CASE MainStep
    <2>1. MainPop /\ queue = <<>> /\ UNCHANGED <<queue, unhandled, wInHand>>
      BY <1>1 DEF MainStep, MainPop, MainHandle, UpdateIdle, UpdateBusy, YieldStart,
           YieldNotify, YieldEnd, YieldJoin, FinishSlot, NextYield, UpdateDone, MainIdle,
           MainWait, MainAsleep, StopWorker, StopNotify, JoinWorker, workerVars
    <2>2. unhandled = <<>> /\ wInHand = NoItem
      BY <2>1 DEF MainPop, Control, YieldStates, TypeOK
    <2> QED  BY <1>0, <2>1, <2>2, EmptyIn DEF NextPending
  <1>2. CASE ~MainStep
    <2>1. UNCHANGED main
      BY <1>2 DEF Next, WorkerStep, WorkerPark, WorkerPop, WorkerHandle, WorkerCheck,
           WorkerWait, WorkerEnd, WorkerSignal, Terminate, SpuriousWakeup, ClientStep,
           Arrive, Rewait, Post, PostCancel
    <2>2. main = "update" /\ ~NextPending  BY <2>1 DEF NextFresh
    <2>3. worker \notin {"process", "handle", "check", "wait", "end"}
      BY <2>2 DEF Control, YieldStates
    <2>4. CASE UNCHANGED <<queue, unhandled, wInHand>>
      BY <2>2, <2>4 DEF NextPending, In
    <2>5. CASE \E t \in Tasks : Post(t)
      <3> PICK t \in Tasks : Post(t)  BY <2>5
      <3>1. Run(t) \in Items  BY ItemFacts
      <3>2. In(queue', NextResponse) => In(queue, NextResponse)
        BY <1>0, <3>1, AppendIn, ConsIn DEF Post
      <3> QED  BY <2>2, <3>2 DEF Post, NextPending, workerVars
    <2>6. CASE \E t \in Tasks : PostCancel(t)
      <3> PICK t \in Tasks : PostCancel(t)  BY <2>6
      <3> DEFINE q == RemoveFirst(queue, Run(t))
      <3>1. /\ queue' = <<Cancel(t)>> \o q /\ unhandled' = RemoveFirst(unhandled, Run(t))
            /\ UNCHANGED wInHand
        BY DEF PostCancel, CleanupPendingTask, workerVars
      <3>2. /\ q \in Seq(Items) /\ Cancel(t) \in Items
            /\ In(q, NextResponse) <=> In(queue, NextResponse)
            /\ In(unhandled', NextResponse) <=> In(unhandled, NextResponse)
        BY <1>0, <3>1, ItemFacts, RemoveFirstIn
      <3> HIDE DEF q
      <3>3. In(queue', NextResponse) => In(q, NextResponse)
        BY <1>0, <3>1, <3>2, ConsIn
      <3> QED  BY <2>2, <3>1, <3>2, <3>3 DEF NextPending
    <2>7. CASE WorkerStep \/ Terminate \/ SpuriousWakeup \/ \E t \in Tasks : Arrive(t) \/ Rewait(t)
      BY <2>3, <2>4, <2>7 DEF WorkerStep, WorkerPark, WorkerPop, WorkerHandle, WorkerCheck,
           WorkerWait, WorkerEnd, WorkerSignal, Terminate, SpuriousWakeup,
           Arrive, Rewait, qVars, workerVars
    <2> QED  BY <1>2, <2>5, <2>6, <2>7 DEF Next, ClientStep
  <1> QED  BY <1>1, <1>2

OInv == IInv /\ Singles /\ NextFresh

\* Every pending task is pending once, in every reachable state.
LEMMA SpecOInv == Spec => []OInv
  <1>1. Init => Singles /\ NextFresh
    BY EmptyIn, ItemFacts DEF Init, Singles, Single, NextFresh
  <1>2. OInv /\ Next => Singles'
    <2> SUFFICES ASSUME OInv, Next PROVE Singles'  OBVIOUS
    <2>1. TypeOK /\ Singles /\ PendingMove  BY StepMoves DEF OInv, IInv, Core
    <2>2. \A a \in Items : Single(a)'  BY <2>1, MoveKeepsOrder
    <2> QED  BY <2>2 DEF Singles, Items, Run, Cancel, NextResponse
  <1>3. OInv /\ UNCHANGED vars => Singles' /\ NextFresh'
    BY DEF OInv, vars, qVars, workerVars, Singles, Single, NextFresh, NextPending, In, Once
  <1>4. OInv /\ [Next]_vars => OInv'
    BY <1>2, <1>3, NextIInv, NextFreshStep DEF OInv
  <1>5. Init => OInv  BY <1>1, InitIInv DEF OInv
  <1> QED  BY <1>4, <1>5, PTL DEF Spec

\* No step reverses two pending tasks, for any requests and any number of
\* slots: neither the worker's declining nor the put-back nor a cancel.
THEOREM OrderIsKept == Spec => OrderKept
  <1> DEFINE Kept == \A a, b \in ToSet(Pending) \cap ToSet(Pending') :
                        Before(Pending, a, b) => ~Before(Pending', b, a)
             Parts(a, b) == TypeOK => (Before(Pending, a, b) <=> Ahead(a, b))
  <1>0. ASSUME NEW a \in Items, NEW b \in Items
        PROVE  Parts(a, b)'
    <2>1. Parts(a, b)  BY PendingParts
    <2> QED  BY <2>1, PTL
  <1>1. ASSUME OInv, OInv', [Next]_vars, UNCHANGED vars \/ PendingMove
        PROVE  Kept
    <2>1. TypeOK /\ TypeOK' /\ Singles /\ PendingMove
      <3>1. UNCHANGED vars => UNCHANGED <<unhandled, wInHand, queue>>
        BY DEF vars, qVars, workerVars
      <3> QED  BY <1>1, <3>1 DEF OInv, IInv, Core, PendingMove
    <2> SUFFICES ASSUME NEW a \in ToSet(Pending) \cap ToSet(Pending'),
                        NEW b \in ToSet(Pending) \cap ToSet(Pending'),
                        Before(Pending, a, b), Before(Pending', b, a)
                 PROVE  FALSE
      OBVIOUS
    <2>2. a \in Items /\ b \in Items
      <3>1. ToSet(Pending) \subseteq Items  BY <2>1, PendingItems
      <3> QED  BY <3>1
    <2>3. IsPending(a) /\ IsPending(b) /\ Ahead(a, b)
      BY <2>1, <2>2, PendingParts
    <2>4. Ahead(b, a)'
      BY <1>0, <2>1, <2>2
    <2>5. Ahead(b, a)
      BY <2>1, <2>2, <2>3, <2>4, MoveKeepsOrder
    <2>6. Single(a) /\ Single(b)  BY <2>1, <2>2 DEF Singles
    <2> QED  BY <2>1, <2>2, <2>3, <2>5, <2>6, AheadOneWay
  <1>2. OInv /\ Next => PendingMove  BY StepMoves DEF OInv
  <1>3. OInv /\ OInv' /\ [Next]_vars => Kept  BY <1>1, <1>2
  <1>4. OInv /\ OInv' /\ [Next]_vars => [Kept]_vars  BY <1>3
  <1> QED  BY <1>4, SpecOInv, PTL DEF Spec, OrderKept

-----------------------------------------------------------------------------
(* No lost wakeup.  The argument: at most one thread other than the clients *)
(* of a sleeping server is blocked on condition_tasks, so the notify_one() *)
(* of whoever fills the queue reaches it.  The request to wake reaches the *)
(* main thread in the first nap, when no client of an earlier one is left  *)
(* (NapInv).                                                               *)

NapInv ==
  /\ main = "asleep" => sleeping
  /\ sleeping => naps > 0
  /\ naps = 0 => Wakers = {}
  /\ naps = 1 /\ sleeping /\ ~wakeReq => Wakers = {}

\* Only wait_until_no_sleep() of a sleeping server makes a client wait, and it
\* asks the main thread to wake.
LEMMA NapStep ==
  ASSUME IInv, NapInv, [Next]_vars
  PROVE  NapInv'
  <1> USE DEF IInv, Core
  <1>0. naps \in Nat /\ sleeping \in BOOLEAN /\ wakeReq \in BOOLEAN
    BY ServerQueueAssumption DEF ServerQueueAssumption, TypeOK
  <1>1. ASSUME NEW t \in Tasks, ClientStep(t) PROVE NapInv'
    <2>1. UNCHANGED <<main, sleeping, naps>>
      BY <1>1 DEF ClientStep, Arrive, Rewait, Post, PostCancel, sleepVars
    <2>2. \/ sleeping /\ wakeReq'
          \/ Wakers' \subseteq Wakers /\ wakeReq' = wakeReq
      BY <1>1 DEF ClientStep, Arrive, Rewait, Post, PostCancel, sleepVars, Wakers, TypeOK
    <2> QED  BY <1>0, <2>1, <2>2 DEF NapInv
  <1>2. ASSUME WorkerStep \/ MainStep \/ Terminate \/ SpuriousWakeup \/ UNCHANGED vars
        PROVE  Wakers' = Wakers
    BY <1>2 DEF WorkerStep, WorkerPark, WorkerPop, WorkerHandle, WorkerCheck, WorkerWait,
         WorkerEnd, WorkerSignal, MainStep, MainPop, MainHandle, HandleRun, AnswerRead,
         AnswerAtOnce, Launch, HandleCancel, Defer,
         UpdateIdle, UpdateBusy, YieldStart, YieldNotify, YieldEnd, YieldJoin, FinishSlot,
         NextYield, UpdateDone, MainIdle, MainWait, MainAsleep, StopWorker, StopNotify,
         JoinWorker, SendResult, Terminate, SpuriousWakeup, vars, Wakers, TypeOK
  <1>3. CASE MainIdle
    <2>1. \/ UNCHANGED sleepVars /\ main' # "asleep"
          \/ main' = "asleep" /\ sleeping' = TRUE /\ wakeReq' = FALSE /\ naps' = naps + 1
      BY <1>3 DEF MainIdle
    <2> QED  BY <1>0, <1>2, <1>3, <2>1 DEF NapInv, MainStep, sleepVars
  <1>4. CASE MainAsleep
    <2>1. UNCHANGED naps /\ (UNCHANGED <<sleeping, wakeReq>> \/ (sleeping' = FALSE /\ main' = "process"))
          /\ main = "asleep"
      BY <1>4 DEF MainAsleep, sleepVars
    <2> QED  BY <1>0, <1>2, <1>4, <2>1 DEF NapInv, MainStep
  <1>5. CASE \/ WorkerStep \/ Terminate \/ SpuriousWakeup \/ UNCHANGED vars
             \/ MainStep /\ ~MainIdle /\ ~MainAsleep
    <2>1. UNCHANGED sleepVars /\ (main' = main \/ main' # "asleep")
      BY <1>5 DEF WorkerStep, WorkerPark, WorkerPop, WorkerHandle, WorkerCheck, WorkerWait,
           WorkerEnd, WorkerSignal, MainStep, MainPop, MainHandle, HandleRun, AnswerRead,
           AnswerAtOnce, Launch, HandleCancel, Defer,
           UpdateIdle, UpdateBusy, YieldStart, YieldNotify, YieldEnd, YieldJoin, FinishSlot,
           NextYield, UpdateDone, MainWait, StopWorker, StopNotify, JoinWorker, Terminate,
           SpuriousWakeup, vars, sleepVars
    <2> QED  BY <1>2, <1>5, <2>1 DEF NapInv, sleepVars
  <1> QED  BY <1>1, <1>3, <1>4, <1>5 DEF Next

\* notify_one() with one thread blocked wakes that thread.
LEMMA NotifyTheOne ==
  ASSUME NEW W, NEW w, W \subseteq {w}, NEW V \in NotifyOne(W)
  PROVE  V = {}
  BY DEF NotifyOne

\* A blocked main or worker thread with work to wait for is alone.
LEMMA BlockedAlone ==
  ASSUME IInv, NoLostWakeup
  PROVE  /\ "worker" \in waiting => waiting \subseteq {"worker"}
         /\ "main" \in waiting /\ main = "wait" => waiting \subseteq {"main"}
  <1> USE DEF IInv, Core
  <1>1. waiting \subseteq {"main", "worker"} \cup Tasks  BY DEF TypeOK
  <1>2. ASSUME "worker" \in waiting PROVE waiting \subseteq {"worker"}
    <2>1. yielding /\ running  BY <1>2 DEF NoLostWakeup
    <2>2. main \in {"notify", "work"}  BY <2>1 DEF Control
    <2>3. ~sleeping  BY <2>1, <2>2 DEF Control
    <2>4. "main" \notin waiting  BY <2>2 DEF NoLostWakeup
    <2>5. waiting \cap Tasks = {}  BY <2>3 DEF NoLostWakeup
    <2> QED  BY <1>1, <2>4, <2>5
  <1>3. ASSUME "main" \in waiting, main = "wait" PROVE waiting \subseteq {"main"}
    <2>1. ~yielding  BY <1>3 DEF Control
    <2>2. "worker" \notin waiting  BY <2>1 DEF NoLostWakeup
    <2>3. ~sleeping  BY <1>3 DEF Control
    <2>4. waiting \cap Tasks = {}  BY <2>3 DEF NoLostWakeup
    <2> QED  BY <1>1, <2>2, <2>4
  <1> QED  BY <1>2, <1>3

\* The HTTP threads: whoever fills the queue wakes the thread that waits for it.
LEMMA ClientWakes ==
  ASSUME IInv, NapInv, NoLostWakeup, NEW t \in Tasks, ClientStep(t)
  PROVE  NoLostWakeup'
  <1> USE DEF IInv, Core
  <1>0. /\ UNCHANGED <<main, worker, busy, yielding, wStop, running, sleeping>>
        /\ t # "main" /\ t # "worker"
    BY DEF ClientStep, Arrive, Rewait, Post, PostCancel, workerVars, yieldVars, sleepVars
  <1>1. /\ \A u \in Tasks : u # t => client'[u] = client[u]
        /\ (Arrive(t) \/ Rewait(t)) /\ t \in waiting' => sleeping /\ client'[t] = "nosleep"
    <2>1. client \in [Tasks -> {"new", "nosleep", "ready", "posted", "answered", "gone"}]
      BY DEF TypeOK
    <2>2. \A u \in Tasks : u # t => client'[u] = client[u]
      BY <2>1 DEF ClientStep, Arrive, Rewait, Post, PostCancel
    <2>3. ASSUME Arrive(t), t \in waiting' PROVE sleeping /\ client'[t] = "nosleep"
      <3>1. t \notin waiting  BY <2>3 DEF NoLostWakeup, Arrive
      <3> QED  BY <2>1, <2>3, <3>1 DEF Arrive
    <2>4. ASSUME Rewait(t), t \in waiting' PROVE sleeping /\ client'[t] = "nosleep"
      BY <2>4 DEF Rewait
    <2> QED  BY <2>2, <2>3, <2>4
  <1>s. ASSUME "main" \in waiting', main = "asleep" PROVE MaySleepOn'
    <2>1. "main" \in waiting /\ sleeping /\ UNCHANGED naps
      BY <1>0, <1>s, NotifyOneSubset
         DEF NapInv, ClientStep, Arrive, Rewait, Post, PostCancel, sleepVars
    <2>2. MaySleepOn  BY <1>s, <2>1 DEF NoLostWakeup
    <2>3. Wakers \subseteq Wakers'
      BY <2>1 DEF ClientStep, Arrive, Rewait, Post, PostCancel, Wakers, TypeOK
    <2>4. CASE wakeReq' = wakeReq
      BY <2>1, <2>2, <2>3, <2>4 DEF MaySleepOn
    <2>5. CASE wakeReq' # wakeReq
      <3>1. /\ client[t] = "new" /\ ~wakeReq /\ t \in Wakers'
            /\ \E W \in NotifyOne(waiting) : waiting' = W \cup {t}
        BY <2>1, <2>5 DEF ClientStep, Arrive, Rewait, Post, PostCancel, sleepVars, Wakers, TypeOK
      <3>2. PICK u \in waiting : "main" # u
        BY <1>0, <1>s, <2>1, <3>1 DEF NotifyOne
      <3>3. u \in Wakers
        <4>1. u # "worker"  BY <1>s, <3>2 DEF NoLostWakeup, Control
        <4>2. u \in Tasks  BY <3>2, <4>1 DEF TypeOK
        <4> QED  BY <3>2, <4>2 DEF NoLostWakeup, Wakers
      <3>4. u # t  BY <3>1, <3>3 DEF Wakers
      <3>5. naps > 1
        <4>1. naps \in Nat /\ Wakers # {}
          BY <3>3, ServerQueueAssumption DEF ServerQueueAssumption, TypeOK
        <4> QED  BY <2>1, <3>1, <4>1 DEF NapInv
      <3> QED  BY <2>1, <2>3, <3>1, <3>3, <3>4, <3>5 DEF MaySleepOn
    <2> QED  BY <2>4, <2>5
  <1>2. CASE Arrive(t) \/ Rewait(t)
    <2>1. waiting' \subseteq waiting \cup {t} /\ UNCHANGED queue
      BY <1>2, NotifyOneSubset DEF Arrive, Rewait, qVars
    <2>2. ("main" \in waiting' => "main" \in waiting) /\ ("worker" \in waiting' => "worker" \in waiting)
      BY <1>0, <2>1
    <2>3. \A u \in waiting' \cap Tasks : sleeping' /\ client'[u] = "nosleep"
      BY <1>0, <1>1, <1>2, <2>1 DEF NoLostWakeup
    <2> QED  BY <1>0, <1>s, <2>1, <2>2, <2>3 DEF NoLostWakeup
  <1>3. CASE Post(t) \/ PostCancel(t)
    <2>1. waiting' \in NotifyOne(waiting) /\ client[t] # "nosleep"
      BY <1>3 DEF Post, PostCancel
    <2>2. waiting' \subseteq waiting  BY <2>1, NotifyOneSubset
    <2>3. "worker" \notin waiting'
      BY <2>1, <2>2, BlockedAlone, NotifyTheOne
    <2>4. main = "wait" => "main" \notin waiting'
      BY <2>1, <2>2, BlockedAlone, NotifyTheOne
    <2>5. \A u \in waiting' \cap Tasks : sleeping' /\ client'[u] = "nosleep"
      BY <1>0, <1>1, <2>1, <2>2 DEF NoLostWakeup
    <2> QED  BY <1>0, <1>s, <2>2, <2>3, <2>4, <2>5 DEF NoLostWakeup
  <1> QED  BY <1>2, <1>3 DEF ClientStep

\* The worker thread: it blocks only on a false predicate, and signals the end
\* of its work.
LEMMA WorkerWakes ==
  ASSUME IInv, NoLostWakeup, WorkerStep
  PROVE  NoLostWakeup'
  <1> USE DEF IInv, Core
  <1>0. UNCHANGED <<main, yielding, wStop, running, sleeping>>
    BY DEF WorkerStep, WorkerPark, WorkerPop, WorkerHandle, WorkerCheck, WorkerWait,
         WorkerEnd, WorkerSignal, yieldVars, sleepVars
  <1>a. \A u \in Tasks : client[u] = "nosleep" => client'[u] = "nosleep"
    BY DEF WorkerStep, WorkerPark, WorkerPop, WorkerHandle, WorkerCheck, WorkerWait,
         WorkerEnd, WorkerSignal, SendResult, TypeOK
  <1>s. MaySleepOn => MaySleepOn'
    <2>1. UNCHANGED <<wakeReq, naps>>
      BY DEF WorkerStep, WorkerPark, WorkerPop, WorkerHandle, WorkerCheck, WorkerWait,
           WorkerEnd, WorkerSignal, sleepVars
    <2>2. Wakers \subseteq Wakers'  BY <1>a DEF Wakers
    <2> QED  BY <2>1, <2>2 DEF MaySleepOn
  <1>1. CASE WorkerPark
    BY <1>0, <1>a, <1>s, <1>1 DEF WorkerPark, NoLostWakeup, qVars, yieldVars
  <1>2. CASE WorkerPop \/ WorkerHandle
    <2>1. /\ UNCHANGED <<busy, waiting>> /\ worker \in {"process", "handle"}
          /\ worker' \notin {"parked", "signal"}
      BY <1>2 DEF WorkerPop, WorkerHandle, yieldVars
    <2>2. busy /\ main \in YieldStates  BY <2>1 DEF Control
    <2>3. "worker" \notin waiting  BY <2>1 DEF NoLostWakeup
    <2> QED  BY <1>0, <1>a, <1>s, <2>1, <2>2, <2>3 DEF NoLostWakeup, YieldStates
  <1>3. CASE WorkerCheck \/ WorkerWait
    <2>1. /\ UNCHANGED <<busy, queue>> /\ worker \in {"check", "wait"}
          /\ worker' \notin {"parked", "signal"}
          /\ waiting' \subseteq waiting \cup {"worker"}
          /\ "worker" \in waiting' =>
                \/ "worker" \in waiting
                \/ worker' = "wait" /\ ~wStop /\ running /\ yielding /\ queue = <<>>
          /\ "worker" \in waiting => worker # "wait"
      BY <1>3 DEF WorkerCheck, WorkerWait, yieldVars, qVars
    <2>2. busy /\ main \in YieldStates  BY <2>1 DEF Control
    <2>3. "worker" \notin waiting  BY <2>1 DEF NoLostWakeup
    <2>4. "main" \in waiting' => "main" \in waiting  BY <2>1
    <2>5. \A u \in waiting' \cap Tasks : u \in waiting  BY <2>1
    <2> QED  BY <1>0, <1>a, <1>s, <2>1, <2>2, <2>3, <2>4, <2>5 DEF NoLostWakeup, YieldStates
  <1>4. CASE WorkerEnd
    <2>1. /\ worker = "end" /\ worker' = "signal" /\ busy' = FALSE
          /\ UNCHANGED <<queue, waiting>>
      BY <1>4 DEF WorkerEnd, qVars
    <2> QED  BY <1>0, <1>a, <1>s, <2>1 DEF NoLostWakeup
  <1>5. CASE WorkerSignal
    BY <1>5 DEF WorkerSignal, NoLostWakeup
  <1> QED  BY <1>1, <1>2, <1>3, <1>4, <1>5 DEF WorkerStep

\* The main thread fills the queue only when the worker does not wait for it.
LEMMA MainWakes ==
  ASSUME IInv, NoLostWakeup, MainStep
  PROVE  NoLostWakeup'
  <1> USE DEF IInv, Core
  <1>0. UNCHANGED running
    BY DEF MainStep, MainPop, MainHandle, UpdateIdle, UpdateBusy, YieldStart, YieldNotify,
         YieldEnd, YieldJoin, FinishSlot, NextYield, UpdateDone, MainIdle, MainWait, MainAsleep,
         StopWorker, StopNotify, JoinWorker
  <1>a. \A u \in Tasks : client[u] = "nosleep" => client'[u] = "nosleep"
    BY DEF MainStep, MainPop, MainHandle, HandleRun, AnswerRead, AnswerAtOnce,
             Launch, HandleCancel, Defer, UpdateIdle, UpdateBusy,
         YieldStart, YieldNotify, YieldEnd, YieldJoin, FinishSlot, NextYield, UpdateDone, MainIdle,
         MainWait, MainAsleep, StopWorker, StopNotify, JoinWorker, SendResult, TypeOK
  <1>b. main \notin {"notify", "work"} => "worker" \notin waiting
    BY DEF NoLostWakeup, Control
  <1>c. main \notin YieldStates => ~busy /\ worker \notin {"process", "handle", "check", "wait", "end"}
    BY DEF Control
  <1>1. CASE MainPop \/ MainHandle \/ UpdateIdle \/ UpdateBusy \/ NextYield \/ UpdateDone
               \/ \E s \in Slots : FinishSlot(s)
    <2>1. /\ waiting' \subseteq waiting
          /\ main \notin {"notify", "work", "join", "wait", "asleep", "stopNotify"}
          /\ UNCHANGED <<worker, busy, yielding, wStop, sleeping>>
      BY <1>1, NotifyOneSubset
         DEF MainPop, MainHandle, HandleRun, AnswerRead, AnswerAtOnce,
             Launch, HandleCancel, Defer, Release, UpdateIdle, UpdateBusy,
             NextYield, UpdateDone, FinishSlot, workerVars, yieldVars, sleepVars
    <2>2. "main" \notin waiting' /\ "worker" \notin waiting'
      BY <1>b, <2>1 DEF NoLostWakeup
    <2> QED  BY <1>a, <1>c, <2>1, <2>2 DEF NoLostWakeup, YieldStates
  <1>2. CASE YieldStart
    <2>1. "main" \notin waiting /\ "worker" \notin waiting
      BY <1>2, <1>b DEF YieldStart, NoLostWakeup
    <2> QED  BY <1>2, <1>a, <2>1 DEF YieldStart, NoLostWakeup, workerVars, sleepVars
  <1>3. CASE YieldNotify
    BY <1>0, <1>3, <1>a DEF YieldNotify, NoLostWakeup, qVars, yieldVars, sleepVars
  <1>4. CASE YieldEnd
    <2>1. /\ main = "work" /\ UNCHANGED <<worker, busy, wStop>> /\ waiting' \subseteq {"main"}
          /\ "main" \in waiting' => main' = "join" /\ busy
      BY <1>4 DEF YieldEnd, workerVars
    <2>2. worker = "parked" => ~wStop /\ ~busy  BY <2>1 DEF NoLostWakeup
    <2> QED  BY <2>1, <2>2 DEF NoLostWakeup
  <1>5. CASE YieldJoin
    <2>1. /\ main = "join" /\ UNCHANGED <<worker, busy, wStop, sleeping>>
          /\ waiting' \subseteq waiting \cup {"main"} /\ "main" \notin waiting
          /\ "main" \in waiting' => main' = "join" /\ busy
      BY <1>5 DEF YieldJoin, workerVars, yieldVars, sleepVars
    <2>2. worker = "parked" => ~wStop /\ ~busy  BY <2>1 DEF NoLostWakeup
    <2>3. "worker" \notin waiting'  BY <1>b, <2>1
    <2>4. \A u \in waiting' \cap Tasks : u \in waiting  BY <2>1
    <2> QED  BY <1>a, <2>1, <2>2, <2>3, <2>4 DEF NoLostWakeup
  <1>6. CASE MainIdle \/ MainWait \/ MainAsleep
    <2>1. /\ main \in {"idle", "wait", "asleep"} /\ UNCHANGED <<worker, busy, wStop, queue>>
          /\ waiting' \subseteq waiting \cup {"main"}
          /\ "main" \in waiting' => \/ main' = "wait" /\ running /\ queue = <<>>
                                    \/ main' = "asleep" /\ running /\ ~wakeReq'
          /\ waiting' = {} \/ (sleeping => sleeping')
      BY <1>6 DEF MainIdle, MainWait, MainAsleep, qVars, workerVars, yieldVars, sleepVars, NoLostWakeup
    <2>2. worker = "parked" => ~wStop /\ ~busy  BY <2>1 DEF NoLostWakeup
    <2>3. "worker" \notin waiting'  BY <1>b, <2>1
    <2>4. \A u \in waiting' \cap Tasks : u \in waiting  BY <2>1
    <2>5. ~wakeReq' => MaySleepOn'  BY DEF MaySleepOn
    <2> QED  BY <1>0, <1>a, <2>1, <2>2, <2>3, <2>4, <2>5 DEF NoLostWakeup
  <1>7. CASE StopWorker
    <2>1. /\ main = "stop" /\ main' = "stopNotify"
          /\ UNCHANGED <<worker, busy, sleeping, waiting>>
      BY <1>7 DEF StopWorker, workerVars, sleepVars
    <2>2. ~busy /\ "worker" \notin waiting /\ "main" \notin waiting
      BY <1>b, <1>c, <2>1 DEF NoLostWakeup, YieldStates
    <2> QED  BY <1>a, <2>1, <2>2 DEF NoLostWakeup
  <1>8. CASE StopNotify
    BY <1>8 DEF StopNotify, NoLostWakeup
  <1>9. CASE JoinWorker
    BY <1>0, <1>9, <1>a DEF JoinWorker, NoLostWakeup, qVars, workerVars, yieldVars, sleepVars
  <1> QED
    BY <1>1, <1>2, <1>3, <1>4, <1>5, <1>6, <1>7, <1>8, <1>9 DEF MainStep

\* For any requests, slots and naps: a thread of the server is blocked only
\* while what it waits for is false or about to be notified, and a main thread
\* that sleeps although it was asked to wake is in its second nap or a later one
\* and has at least two clients waiting for it.
THEOREM WakeupsReach == Spec => []NoLostWakeup
  <1>1. Init => NapInv /\ NoLostWakeup  BY DEF Init, NapInv, Wakers, NoLostWakeup
  <1>2. IInv /\ NapInv /\ NoLostWakeup /\ [Next]_vars => NoLostWakeup'
    <2> SUFFICES ASSUME IInv, NapInv, NoLostWakeup, [Next]_vars PROVE NoLostWakeup'  OBVIOUS
    <2>1. CASE Terminate
      <3>1. waiting' = {} /\ UNCHANGED <<main, worker, busy, wStop>>
        BY <2>1 DEF Terminate, workerVars, yieldVars
      <3> QED  BY <3>1 DEF NoLostWakeup
    <2>2. CASE SpuriousWakeup \/ UNCHANGED vars
      <3>1. waiting' \subseteq waiting /\ UNCHANGED <<main, worker, queue, client>>
            /\ UNCHANGED <<running, busy, yielding, wStop, sleeping, wakeReq, naps>>
        BY <2>2 DEF SpuriousWakeup, vars, qVars, workerVars, yieldVars, sleepVars
      <3>2. MaySleepOn => MaySleepOn'  BY <3>1 DEF MaySleepOn, Wakers
      <3> QED  BY <3>1, <3>2 DEF NoLostWakeup
    <2> QED  BY <2>1, <2>2, ClientWakes, WorkerWakes, MainWakes DEF Next
  <1>3. IInv /\ NapInv /\ [Next]_vars => NapInv'  BY NapStep
  <1> QED  BY <1>1, <1>2, <1>3, SpecIInv, PTL DEF Spec
=============================================================================
