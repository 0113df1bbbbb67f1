------------------------- MODULE LoopDispatchProofs -------------------------
(***************************************************************************)
(* Proofs about LoopDispatch, for every finite set of loops, events and    *)
(* turns and every positive cap.                                           *)
(***************************************************************************)
EXTENDS LoopDispatch, SumProofs, FiniteSetTheorems, SequenceTheorems, TLAPS

-----------------------------------------------------------------------------
(* The locks.                                                              *)

\* A task that leaves a queue (Acquire's drop) leaves a queue of the others.
LEMMA WithoutType ==
    ASSUME NEW S, NEW q \in Seq(S), NEW e
    PROVE  Without(q, e) \in Seq(S)
<1>1. CASE \E i \in 1..Len(q) : q[i] = e
  <2>1. PICK i \in 1..Len(q) : Without(q, e) = RemoveAt(q, i)
    BY <1>1 DEF Without
  <2>2. RemoveAt(q, i) \in Seq(S)
    BY <2>1 DEF RemoveAt
  <2> QED BY <2>1, <2>2
<1>2. CASE ~ \E i \in 1..Len(q) : q[i] = e
  BY <1>2 DEF Without
<1> QED BY <1>1, <1>2

LockTypes ==
    /\ turnOf \in [Loops -> Events \cup {NoEvent}]
    /\ turnq \in [Loops -> Seq(Events)]
    /\ permitOf \subseteq Events
    /\ permitq \in Seq(Events)

\* Dropping the guards keeps the locks well-formed.
LEMMA ReleaseTypes ==
    ASSUME LockTypes, loopOf \in [Events -> Loops], NEW e \in Events, ReleaseAll(e)
    PROVE  LockTypes'
<1> DEFINE l == loopOf[e]
<1>0. l \in Loops /\ turnq[l] \in Seq(Events)
  BY DEF LockTypes
<1>1. Without(turnq[l], e) \in Seq(Events) /\ Without(permitq, e) \in Seq(Events)
  BY <1>0, WithoutType DEF LockTypes
<1>2. turnq[l] # <<>> => Head(turnq[l]) \in Events /\ Tail(turnq[l]) \in Seq(Events)
  BY <1>0
<1>3. permitq # <<>> => Head(permitq) \in Events /\ Tail(permitq) \in Seq(Events)
  BY DEF LockTypes
<1>4. turnOf' \in [Loops -> Events \cup {NoEvent}] /\ turnq' \in [Loops -> Seq(Events)]
  <2>1. CASE turnOf[l] # e
    BY <2>1, <1>0, <1>1 DEF LockTypes, ReleaseAll
  <2>2. CASE turnOf[l] = e /\ turnq[l] = <<>>
    BY <2>2, <1>0 DEF LockTypes, ReleaseAll
  <2>3. CASE turnOf[l] = e /\ turnq[l] # <<>>
    BY <2>3, <1>0, <1>2 DEF LockTypes, ReleaseAll
  <2> QED BY <2>1, <2>2, <2>3
<1>5. permitOf' \subseteq Events /\ permitq' \in Seq(Events)
  <2>1. CASE e \notin permitOf
    BY <2>1, <1>1 DEF LockTypes, ReleaseAll
  <2>2. CASE e \in permitOf /\ permitq = <<>>
    BY <2>2 DEF LockTypes, ReleaseAll
  <2>3. CASE e \in permitOf /\ permitq # <<>>
    BY <2>3, <1>3 DEF LockTypes, ReleaseAll
  <2> QED BY <2>1, <2>2, <2>3
<1> QED BY <1>4, <1>5 DEF LockTypes

\* What one task gives up, another keeps: a release never takes a lock from
\* anyone else.
LEMMA ReleaseKeeps ==
    ASSUME LockTypes, loopOf \in [Events -> Loops],
           NEW e \in Events, ReleaseAll(e),
           NEW o \in Events, o # e
    PROVE  /\ turnOf[loopOf[o]] = o => turnOf'[loopOf[o]] = o
           /\ o \in permitOf => o \in permitOf'
<1>1. turnOf[loopOf[o]] = o => turnOf'[loopOf[o]] = o
  BY DEF LockTypes, ReleaseAll
<1>2. o \in permitOf => o \in permitOf'
  BY DEF LockTypes, ReleaseAll
<1> QED BY <1>1, <1>2

\* A released permit goes to at most one waiter.
LEMMA ReleaseCap ==
    ASSUME LockTypes, NEW e \in Events, ReleaseAll(e),
           Cardinality(permitOf) <= MaxInFlight
    PROVE  Cardinality(permitOf') <= MaxInFlight
<1>0. IsFiniteSet(permitOf) /\ Cardinality(permitOf) \in Nat /\ MaxInFlight \in Nat
  BY DispatchAssumption, FS_Subset, FS_CardinalityType DEF LockTypes
<1>1. CASE e \notin permitOf
  BY <1>1 DEF ReleaseAll
<1>2. CASE e \in permitOf
  <2> DEFINE R == permitOf \ {e}
  <2>1. IsFiniteSet(R) /\ Cardinality(R) = Cardinality(permitOf) - 1
    BY <1>0, <1>2, FS_RemoveElement
  <2> HIDE DEF R
  <2>2. CASE permitq = <<>>
    <3>1. permitOf' = R
      BY <1>2, <2>2 DEF ReleaseAll, R
    <3> QED BY <1>0, <2>1, <3>1
  <2>3. CASE permitq # <<>>
    <3> DEFINE h == Head(permitq)
    <3>1. permitOf' = R \cup {h}
      BY <1>2, <2>3 DEF ReleaseAll, R
    <3> HIDE DEF h
    <3>2. Cardinality(R \cup {h}) \in {Cardinality(R), Cardinality(R) + 1}
      BY <2>1, FS_AddElement
    <3> QED BY <1>0, <2>1, <3>1, <3>2
  <2> QED BY <2>2, <2>3
<1> QED BY <1>1, <1>2

-----------------------------------------------------------------------------
(* Type correctness.                                                       *)

\* What a ticket books keeps the counters natural numbers.
LEMMA CounterTypes ==
    ASSUME NEW st \in LoopStats, NEW b \in BOOLEAN
    PROVE  /\ Queued(st) \in LoopStats
           /\ Refuse(st) \in LoopStats
           /\ Started(st) \in LoopStats
           /\ Finished(st, b) \in LoopStats
           /\ Dropped(st, b) \in LoopStats
<1>1. /\ st.queued + 1 \in Nat /\ st.in_flight + 1 \in Nat
      /\ st.accepted + 1 \in Nat /\ st.completed + 1 \in Nat
      /\ st.failed + 1 \in Nat /\ st.dropped + 1 \in Nat
      /\ SaturatingSub(st.queued, 1) \in Nat
      /\ SaturatingSub(st.in_flight, 1) \in Nat
  BY DEF LoopStats, SaturatingSub
<1>2. Queued(st) \in LoopStats
  BY <1>1, Zenon DEF LoopStats, Queued
<1>3. Refuse(st) \in LoopStats
  BY <1>1, Zenon DEF LoopStats, Refuse
<1>4. Started(st) \in LoopStats
  BY <1>1, Zenon DEF LoopStats, Started
<1>5. Finished(st, b) \in LoopStats
  BY <1>1, Zenon DEF LoopStats, Finished
<1>6. Dropped(st, b) \in LoopStats
  BY <1>1, Zenon DEF LoopStats, Dropped
<1> QED BY <1>2, <1>3, <1>4, <1>5, <1>6

\* TypeOK is inductive: the counters stay natural numbers because every
\* decrement saturates, the queues stay queues of events.
LEMMA TypeStep == TypeOK /\ [Next]_vars => TypeOK'
<1> SUFFICES ASSUME TypeOK, [Next]_vars PROVE TypeOK'
  OBVIOUS
<1> USE DispatchAssumption DEF TypeOK, locks
<1>0. LockTypes
  BY DEF LockTypes
<1>a. ASSUME NEW e \in Events, enqueue(e) PROVE TypeOK'
  <2>1. CASE RefuseClosing(e) \/ RefuseFull(e)
    <3>1. stats' = [stats EXCEPT ![loopOf[e]] = Refuse(@)]
      BY <2>1 DEF RefuseClosing, RefuseFull
    <3>2. stats' \in [Loops -> LoopStats]
      BY <3>1, CounterTypes
    <3> QED BY <2>1, <3>2 DEF RefuseClosing, RefuseFull, Phases
  <2>2. CASE Accept(e)
    <3>1. stats' \in [Loops -> LoopStats]
      BY <2>2, CounterTypes DEF Accept
    <3> QED BY <2>2, <3>1 DEF Accept, Phases, Waiting
  <2> QED BY <1>a, <2>1, <2>2 DEF enqueue
<1>b. ASSUME NEW e \in Events, TaskStep(e) PROVE TypeOK'
  <2>1. CASE PollOpen(e)
    BY <2>1 DEF PollOpen, Phases, Waiting
  <2>2. CASE PollClosed(e)
    <3>1. LockTypes'
      BY <2>2, <1>0, ReleaseTypes DEF PollClosed
    <3> QED BY <2>2, <3>1 DEF PollClosed, LockTypes, Phases, Unwinding
  <2>3. CASE LockTurn(e)
    <3>1. CASE turnOf[loopOf[e]] = NoEvent
      BY <2>3, <3>1 DEF LockTurn
    <3>2. CASE turnOf[loopOf[e]] # NoEvent
      <4>1. Append(turnq[loopOf[e]], e) \in Seq(Events)
        OBVIOUS
      <4>2. turnq' \in [Loops -> Seq(Events)]
        BY <2>3, <3>2, <4>1 DEF LockTurn
      <4> QED BY <2>3, <3>2, <4>2 DEF LockTurn, Phases, Waiting
    <3> QED BY <3>1, <3>2
  <2>4. CASE AcquirePermit(e)
    <3>1. CASE Cardinality(permitOf) < MaxInFlight
      BY <2>4, <3>1 DEF AcquirePermit
    <3>2. CASE ~ Cardinality(permitOf) < MaxInFlight
      <4>1. Append(permitq, e) \in Seq(Events)
        OBVIOUS
      <4> QED BY <2>4, <3>2, <4>1 DEF AcquirePermit, Phases, Waiting
    <3> QED BY <3>1, <3>2
  <2>5. CASE Start(e)
    <3>1. stats' \in [Loops -> LoopStats]
      BY <2>5, CounterTypes DEF Start
    <3> QED BY <2>5, <3>1 DEF Start, Phases
  <2>6. CASE Return(e)
    <3>1. LockTypes'
      BY <2>6, <1>0, ReleaseTypes DEF Return
    <3> QED BY <2>6, <3>1 DEF Return, LockTypes, Phases, Settled
  <2>7. CASE DropTicket(e)
    <3>1. stats' \in [Loops -> LoopStats]
      BY <2>7, CounterTypes DEF DropTicket
    <3> QED BY <2>7, <3>1 DEF DropTicket, Phases, Settled
  <2>8. CASE Abort(e)
    <3>1. LockTypes'
      BY <2>8, <1>0, ReleaseTypes DEF Abort
    <3> QED BY <2>8, <3>1 DEF Abort, LockTypes, Phases, Unwinding
  <2> QED BY <1>b, <2>1, <2>2, <2>3, <2>4, <2>5, <2>6, <2>7, <2>8 DEF TaskStep
<1>c. ASSUME NEW e \in Events, HandlerStep(e) PROVE TypeOK'
  <2>1. CASE Panic(e)
    <3>1. LockTypes'
      BY <2>1, <1>0, ReleaseTypes DEF Panic
    <3> QED BY <2>1, <3>1 DEF Panic, LockTypes, Phases, Unwinding
  <2>2. ASSUME NEW ok \in BOOLEAN, Finish(e, ok) PROVE TypeOK'
    <3>1. stats' \in [Loops -> LoopStats]
      BY <2>2, CounterTypes DEF Finish
    <3> QED BY <2>2, <3>1 DEF Finish, Phases
  <2> QED BY <1>c, <2>1, <2>2 DEF HandlerStep
<1>d. ASSUME NEW t \in Turns, spawn_turn(t) \/ TurnEnds(t) \/ AbortTurn(t)
      PROVE  TypeOK'
  BY <1>d DEF spawn_turn, TurnEnds, AbortTurn, Reap, TurnPhases
<1>e. ASSUME BeginDrain \/ DrainStep PROVE TypeOK'
  BY <1>e DEF BeginDrain, DrainStep, TakeTurns, Deadline, DrainReturns, DrainPhases
<1>f. CASE UNCHANGED vars
  BY <1>f DEF vars
<1> QED BY <1>a, <1>b, <1>c, <1>d, <1>e, <1>f DEF Next

\* Every reachable state of the dispatch is well-typed.
THEOREM DispatchTyped == Spec => []TypeOK
<1>1. Init => TypeOK
  BY DEF Init, TypeOK, LoopStats, ZeroStats, Phases, TurnPhases, DrainPhases
<1> QED BY <1>1, TypeStep, PTL DEF Spec

-----------------------------------------------------------------------------
(* Mutual exclusion and the in-flight cap.                                 *)

Handling == {"running", "finished"}

\* A handler runs only under both of its locks: the strengthening that makes
\* mutual exclusion and the cap inductive.
HoldsLocks ==
    \A e \in Events : phase[e] \in Handling =>
        turnOf[loopOf[e]] = e /\ e \in permitOf

PermitCap == Cardinality(permitOf) <= MaxInFlight

\* An action that leaves the locks alone and lets nobody into a handler.
LEMMA LocksUntouched ==
    ASSUME HoldsLocks, UNCHANGED <<locks, loopOf>>,
           \A e \in Events : phase'[e] \in Handling => phase[e] \in Handling
    PROVE  HoldsLocks'
  BY DEF HoldsLocks, locks

\* An action in which one task drops its guards and leaves the handler.
LEMMA LocksReleased ==
    ASSUME TypeOK, HoldsLocks, NEW e \in Events, ReleaseAll(e), UNCHANGED loopOf,
           NEW p \in Phases \ Handling, phase' = [phase EXCEPT ![e] = p]
    PROVE  HoldsLocks'
<1> SUFFICES ASSUME NEW o \in Events, phase'[o] \in Handling
             PROVE  turnOf'[loopOf'[o]] = o /\ o \in permitOf'
  BY DEF HoldsLocks
<1>1. o # e /\ phase[o] \in Handling
  BY DEF TypeOK
<1>2. turnOf[loopOf[o]] = o /\ o \in permitOf
  BY <1>1 DEF HoldsLocks
<1>3. LockTypes
  BY DEF TypeOK, LockTypes
<1> QED BY <1>1, <1>2, <1>3, ReleaseKeeps DEF TypeOK

LEMMA HoldsLocksStep == TypeOK /\ HoldsLocks /\ [Next]_vars => HoldsLocks'
<1> SUFFICES ASSUME TypeOK, HoldsLocks, [Next]_vars PROVE HoldsLocks'
  OBVIOUS
<1>a. ASSUME NEW e \in Events, enqueue(e) PROVE HoldsLocks'
  BY <1>a, LocksUntouched DEF enqueue, RefuseClosing, RefuseFull, Accept, TypeOK, Handling
<1>b. ASSUME NEW e \in Events, TaskStep(e) PROVE HoldsLocks'
  <2>1. CASE PollOpen(e)
    BY <2>1, LocksUntouched DEF PollOpen, TypeOK, Handling
  <2>2. CASE PollClosed(e)
    BY <2>2, LocksReleased DEF PollClosed, Phases, Unwinding, Handling
  <2>3. CASE LockTurn(e)
    <3>1. \A o \in Events : phase'[o] \in Handling => phase[o] \in Handling /\ o # e
      BY <2>3 DEF LockTurn, TypeOK, Handling
    <3>2. \A o \in Events : phase[o] \in Handling => turnOf[loopOf[o]] = o /\ o \in permitOf
      BY DEF HoldsLocks
    <3>3. ASSUME NEW o \in Events, phase[o] \in Handling, o # e
          PROVE  turnOf'[loopOf[o]] = o
      <4>1. turnOf[loopOf[o]] = o /\ o # NoEvent
        BY <3>2, <3>3, DispatchAssumption
      <4> QED BY <2>3, <3>3, <4>1 DEF LockTurn, TypeOK
    <3> QED BY <2>3, <3>1, <3>2, <3>3 DEF LockTurn, HoldsLocks
  <2>4. CASE AcquirePermit(e)
    <3>1. \A o \in Events : phase'[o] \in Handling => phase[o] \in Handling
      BY <2>4 DEF AcquirePermit, TypeOK, Handling
    <3>2. permitOf \subseteq permitOf' /\ UNCHANGED <<turnOf, loopOf>>
      BY <2>4 DEF AcquirePermit
    <3> QED BY <3>1, <3>2 DEF HoldsLocks
  <2>5. CASE Start(e)
    BY <2>5 DEF Start, HoldsLocks, TypeOK, locks
  <2>6. CASE Return(e)
    BY <2>6, LocksReleased DEF Return, Phases, Settled, Handling
  <2>7. CASE DropTicket(e)
    BY <2>7, LocksUntouched DEF DropTicket, TypeOK, Handling
  <2>8. CASE Abort(e)
    <3>1. PICK p \in Unwinding : phase' = [phase EXCEPT ![e] = p]
      BY <2>8 DEF Abort, Unwinding, TypeOK
    <3>2. p \in Phases \ Handling
      BY DEF Phases, Unwinding, Handling
    <3> QED BY <2>8, <3>1, <3>2, LocksReleased DEF Abort
  <2> QED BY <1>b, <2>1, <2>2, <2>3, <2>4, <2>5, <2>6, <2>7, <2>8 DEF TaskStep
<1>c. ASSUME NEW e \in Events, HandlerStep(e) PROVE HoldsLocks'
  <2>1. CASE Panic(e)
    BY <2>1, LocksReleased DEF Panic, Phases, Unwinding, Handling
  <2>2. ASSUME NEW ok \in BOOLEAN, Finish(e, ok) PROVE HoldsLocks'
    BY <2>2, LocksUntouched DEF Finish, TypeOK, Handling
  <2> QED BY <1>c, <2>1, <2>2 DEF HandlerStep
<1>d. ASSUME NEW t \in Turns, spawn_turn(t) \/ TurnEnds(t) \/ AbortTurn(t)
      PROVE  HoldsLocks'
  BY <1>d, LocksUntouched DEF spawn_turn, TurnEnds, AbortTurn
<1>e. ASSUME BeginDrain \/ DrainStep PROVE HoldsLocks'
  BY <1>e, LocksUntouched DEF BeginDrain, DrainStep, TakeTurns, Deadline, DrainReturns
<1>f. CASE UNCHANGED vars
  BY <1>f, LocksUntouched DEF vars, locks
<1> QED BY <1>a, <1>b, <1>c, <1>d, <1>e, <1>f DEF Next

LEMMA PermitCapStep == TypeOK /\ PermitCap /\ [Next]_vars => PermitCap'
<1> SUFFICES ASSUME TypeOK, PermitCap, [Next]_vars PROVE PermitCap'
  OBVIOUS
<1>0. LockTypes
  BY DEF TypeOK, LockTypes
<1>1. ASSUME NEW e \in Events, ReleaseAll(e) PROVE PermitCap'
  BY <1>0, <1>1, ReleaseCap DEF PermitCap
<1>2. CASE UNCHANGED permitOf
  BY <1>2 DEF PermitCap
<1>3. ASSUME NEW e \in Events, AcquirePermit(e) PROVE PermitCap'
  <2>1. CASE Cardinality(permitOf) < MaxInFlight
    <3>1. IsFiniteSet(permitOf) /\ Cardinality(permitOf) \in Nat
      BY DispatchAssumption, FS_Subset, FS_CardinalityType DEF TypeOK
    <3>2. Cardinality(permitOf \cup {e}) \in {Cardinality(permitOf), Cardinality(permitOf) + 1}
      BY <3>1, FS_AddElement
    <3>3. permitOf' = permitOf \cup {e}
      BY <1>3, <2>1 DEF AcquirePermit
    <3> QED BY <2>1, <3>1, <3>2, <3>3, DispatchAssumption DEF PermitCap
  <2>2. CASE ~ Cardinality(permitOf) < MaxInFlight
    BY <1>2, <1>3, <2>2 DEF AcquirePermit
  <2> QED BY <2>1, <2>2
<1>4. ASSUME NEW e \in Events, TaskStep(e) PROVE PermitCap'
  BY <1>4, <1>1, <1>2, <1>3 DEF TaskStep, PollOpen, PollClosed, LockTurn, Start, Return,
     DropTicket, Abort, locks
<1>5. ASSUME NEW e \in Events, enqueue(e) \/ HandlerStep(e) PROVE PermitCap'
  BY <1>5, <1>1, <1>2 DEF enqueue, RefuseClosing, RefuseFull, Accept, HandlerStep,
     Panic, Finish, locks
<1>6. ASSUME NEW t \in Turns, spawn_turn(t) \/ TurnEnds(t) \/ AbortTurn(t)
      PROVE  PermitCap'
  BY <1>6, <1>2 DEF spawn_turn, TurnEnds, AbortTurn, locks
<1>7. ASSUME BeginDrain \/ DrainStep PROVE PermitCap'
  BY <1>7, <1>2 DEF BeginDrain, DrainStep, TakeTurns, Deadline, DrainReturns, locks
<1>8. CASE UNCHANGED vars
  BY <1>8, <1>2 DEF vars
<1> QED BY <1>4, <1>5, <1>6, <1>7, <1>8 DEF Next

\* The locks mean what the module header says of them.
LEMMA LocksExclude ==
    ASSUME TypeOK, HoldsLocks, PermitCap
    PROVE  OneAtATime /\ InFlightCap
<1>1. ASSUME NEW l \in Loops PROVE Cardinality(EventsIn(l, {"running", "finished"})) <= 1
  <2>1. EventsIn(l, {"running", "finished"}) \subseteq {turnOf[l]}
    BY DEF EventsIn, HoldsLocks, Handling
  <2>2. IsFiniteSet({turnOf[l]}) /\ Cardinality({turnOf[l]}) = 1
    BY FS_Singleton
  <2> QED BY <2>1, <2>2, FS_Subset
<1>2. InFlightCap
  <2> DEFINE H == {e \in Events : phase[e] \in {"running", "finished"}}
  <2>1. IsFiniteSet(permitOf) /\ Cardinality(permitOf) \in Nat
    BY DispatchAssumption, FS_Subset, FS_CardinalityType DEF TypeOK
  <2>2. H \subseteq permitOf
    BY DEF HoldsLocks, Handling
  <2>3. Cardinality(H) <= Cardinality(permitOf) /\ Cardinality(H) \in Nat
    BY <2>1, <2>2, FS_Subset, FS_CardinalityType
  <2> QED BY <2>1, <2>3, DispatchAssumption DEF InFlightCap, PermitCap
<1> QED BY <1>1, <1>2 DEF OneAtATime

\* No two handlers of a loop ever run at once, and never more than
\* max_decisions_in_flight in the process: through panics, aborts and shutdown.
THEOREM DispatchExcludes == Spec => []Excludes
<1>1. Init => TypeOK /\ HoldsLocks /\ PermitCap
  <2>1. Init => TypeOK
    BY DEF Init, TypeOK, LoopStats, ZeroStats, Phases, TurnPhases, DrainPhases
  <2>2. Init => HoldsLocks
    BY DEF Init, HoldsLocks, Handling
  <2>3. Init => PermitCap
    BY FS_EmptySet, DispatchAssumption DEF Init, PermitCap
  <2> QED BY <2>1, <2>2, <2>3
<1>2. TypeOK /\ HoldsLocks /\ PermitCap /\ [Next]_vars
        => (TypeOK /\ HoldsLocks /\ PermitCap)'
  BY TypeStep, HoldsLocksStep, PermitCapStep
<1> QED BY <1>1, <1>2, LocksExclude, PTL DEF Spec, Excludes

-----------------------------------------------------------------------------
(* The queue bound and the quiet after the drain.                          *)

\* What a ticket books never raises `queued', but for Ticket::queue.
LEMMA CounterQueued ==
    ASSUME NEW st \in LoopStats, NEW b \in BOOLEAN
    PROVE  /\ Queued(st).queued = st.queued + 1
           /\ Refuse(st).queued = st.queued
           /\ Started(st).queued <= st.queued
           /\ Finished(st, b).queued = st.queued
           /\ Dropped(st, b).queued <= st.queued
  BY DEF LoopStats, Queued, Refuse, Started, Finished, Dropped, SaturatingSub

\* A step that replaces one loop's counters keeps the bound if they obey it.
LEMMA BoundUpdated ==
    ASSUME TypeOK, QueueBound, NEW l \in Loops, NEW st \in LoopStats,
           stats' = [stats EXCEPT ![l] = st], st.queued <= MaxQueued
    PROVE  QueueBound'
  BY DEF TypeOK, QueueBound

LEMMA QueueBoundStep == TypeOK /\ QueueBound /\ [Next]_vars => QueueBound'
<1> SUFFICES ASSUME TypeOK, QueueBound, [Next]_vars PROVE QueueBound'
  OBVIOUS
<1>0. \A e \in Events : /\ loopOf[e] \in Loops
                        /\ stats[loopOf[e]] \in LoopStats
                        /\ stats[loopOf[e]].queued \in Nat
                        /\ stats[loopOf[e]].queued <= MaxQueued
                        /\ MaxQueued \in Nat
  BY DispatchAssumption DEF TypeOK, QueueBound, LoopStats
<1>1. CASE UNCHANGED stats
  BY <1>1 DEF QueueBound
<1>2. ASSUME NEW e \in Events, NEW st \in LoopStats,
             st.queued <= stats[loopOf[e]].queued,
             stats' = [stats EXCEPT ![loopOf[e]] = st]
      PROVE  QueueBound'
  <2>1. st.queued \in Nat
    BY DEF LoopStats
  <2>2. st.queued <= MaxQueued
    BY <1>0, <1>2, <2>1
  <2> QED BY <1>0, <1>2, <2>2, BoundUpdated
<1>a. ASSUME NEW e \in Events, enqueue(e) PROVE QueueBound'
  <2> DEFINE st == stats[loopOf[e]]
  <2>0. st \in LoopStats /\ st.queued \in Nat
    BY <1>0
  <2>1. CASE RefuseClosing(e) \/ RefuseFull(e)
    <3>1. stats' = [stats EXCEPT ![loopOf[e]] = Refuse(st)]
      BY <2>1 DEF RefuseClosing, RefuseFull
    <3>2. Refuse(st) \in LoopStats /\ Refuse(st).queued = st.queued
      <4> HIDE DEF st
      <4> QED BY <2>0, CounterTypes, CounterQueued
    <3>3. Refuse(st).queued <= st.queued
      <4> HIDE DEF st
      <4> QED BY <2>0, <3>2
    <3> QED BY <3>1, <3>2, <3>3, <1>2
  <2>2. CASE Accept(e)
    <3>1. stats' = [stats EXCEPT ![loopOf[e]] = Queued(st)] /\ st.queued < MaxQueued
      BY <2>2 DEF Accept
    <3>2. Queued(st) \in LoopStats /\ Queued(st).queued = st.queued + 1
      BY <2>0, CounterTypes, CounterQueued
    <3>3. Queued(st).queued <= MaxQueued
      BY <1>0, <2>0, <3>1, <3>2
    <3> QED BY <1>0, <3>1, <3>2, <3>3, BoundUpdated
  <2> QED BY <1>a, <2>1, <2>2 DEF enqueue
<1>b. ASSUME NEW e \in Events, TaskStep(e) PROVE QueueBound'
  <2> DEFINE st == stats[loopOf[e]]
  <2>1. CASE Start(e)
    <3>1. stats' = [stats EXCEPT ![loopOf[e]] = Started(st)]
      BY <2>1 DEF Start
    <3>2. Started(st) \in LoopStats /\ Started(st).queued <= st.queued
      BY <1>0, CounterTypes, CounterQueued
    <3> QED BY <3>1, <3>2, <1>2
  <2>2. CASE DropTicket(e)
    <3> DEFINE b == phase[e] = "unwindRunning"
    <3>1. stats' = [stats EXCEPT ![loopOf[e]] = Dropped(st, b)]
      BY <2>2 DEF DropTicket
    <3>2. Dropped(st, b) \in LoopStats /\ Dropped(st, b).queued <= st.queued
      <4>1. b \in BOOLEAN
        OBVIOUS
      <4> HIDE DEF b
      <4> QED BY <1>0, <4>1, CounterTypes, CounterQueued
    <3> QED BY <3>1, <3>2, <1>2
  <2> QED BY <1>b, <1>1, <2>1, <2>2 DEF TaskStep, PollOpen, PollClosed, LockTurn,
       AcquirePermit, Return, Abort
<1>c. ASSUME NEW e \in Events, HandlerStep(e) PROVE QueueBound'
  <2> DEFINE st == stats[loopOf[e]]
  <2>1. ASSUME NEW ok \in BOOLEAN, Finish(e, ok) PROVE QueueBound'
    <3>1. stats' = [stats EXCEPT ![loopOf[e]] = Finished(st, ok)]
      BY <2>1 DEF Finish
    <3>2. Finished(st, ok) \in LoopStats /\ Finished(st, ok).queued = st.queued
      BY <1>0, CounterTypes, CounterQueued
    <3>3. Finished(st, ok).queued <= st.queued
      BY <1>0, <3>2
    <3> QED BY <3>1, <3>2, <3>3, <1>2
  <2> QED BY <1>c, <1>1, <2>1 DEF HandlerStep, Panic
<1>d. ASSUME NEW t \in Turns, spawn_turn(t) \/ TurnEnds(t) \/ AbortTurn(t)
      PROVE  QueueBound'
  BY <1>d, <1>1 DEF spawn_turn, TurnEnds, AbortTurn
<1>e. ASSUME BeginDrain \/ DrainStep PROVE QueueBound'
  BY <1>e, <1>1 DEF BeginDrain, DrainStep, TakeTurns, Deadline, DrainReturns
<1>f. CASE UNCHANGED vars
  BY <1>f, <1>1 DEF vars
<1> QED BY <1>a, <1>b, <1>c, <1>d, <1>e, <1>f DEF Next

\* No loop ever holds more waiting events than max_queued_per_loop.
THEOREM DispatchQueueBound == Spec => []QueueBound
<1>1. Init => TypeOK /\ QueueBound
  BY DispatchAssumption DEF Init, TypeOK, QueueBound, LoopStats, ZeroStats, Phases,
     TurnPhases, DrainPhases
<1>2. TypeOK /\ QueueBound /\ [Next]_vars => (TypeOK /\ QueueBound)'
  BY TypeStep, QueueBoundStep
<1> QED BY <1>1, <1>2, PTL DEF Spec

LEMMA QuietStep == TypeOK /\ QuietAfterDrain /\ [Next]_vars => QuietAfterDrain'
<1> SUFFICES ASSUME TypeOK, QuietAfterDrain, [Next]_vars PROVE QuietAfterDrain'
  OBVIOUS
<1> DEFINE Quiet == /\ \A e \in Events : phase[e] \in {"new", "refused"} \cup Settled
                    /\ \A t \in Turns : turn[t] # "running"
<1>0. QuietAfterDrain <=> (drain = "returned" => Quiet)
  BY DEF QuietAfterDrain, TurnsIn
<1>p. QuietAfterDrain' <=> (drain' = "returned" => Quiet')
  BY DEF QuietAfterDrain, TurnsIn
<1>a. ASSUME NEW e \in Events, enqueue(e) PROVE QuietAfterDrain'
  BY <1>a, <1>0, <1>p DEF enqueue, RefuseClosing, RefuseFull, Accept, closing, TypeOK
<1>b. ASSUME NEW e \in Events, TaskStep(e) \/ HandlerStep(e) PROVE QuietAfterDrain'
  <2>1. drain' = drain /\ phase[e] \notin {"new", "refused"} \cup Settled
    BY <1>b DEF TaskStep, HandlerStep, PollOpen, Woken, PollClosed, LockTurn,
       AcquirePermit, Start, Return, DropTicket, Abort, Panic, Finish, Settled, Unwinding
  <2> QED BY <2>1, <1>0, <1>p
<1>c. ASSUME NEW t \in Turns, spawn_turn(t) \/ TurnEnds(t) \/ AbortTurn(t)
      PROVE  QuietAfterDrain'
  <2>1. CASE spawn_turn(t)
    BY <2>1, <1>0, <1>p DEF spawn_turn, TypeOK
  <2>2. CASE TurnEnds(t) \/ AbortTurn(t)
    BY <2>2, <1>0, <1>p DEF TurnEnds, AbortTurn
  <2> QED BY <1>c, <2>1, <2>2
<1>d. ASSUME BeginDrain \/ DrainStep PROVE QuietAfterDrain'
  BY <1>d, <1>p DEF BeginDrain, DrainStep, TakeTurns, Deadline, DrainReturns, TurnsIn
<1>e. CASE UNCHANGED vars
  BY <1>e, <1>0, <1>p DEF vars
<1> QED BY <1>a, <1>b, <1>c, <1>d, <1>e DEF Next

\* When drain has returned no event's task and no turn runs, and none can
\* begin: what shutdown releases next (the leases) has no user left here.
THEOREM DispatchQuiet == Spec => []QuietAfterDrain
<1>1. Init => TypeOK /\ QuietAfterDrain
  BY DispatchAssumption DEF Init, TypeOK, QuietAfterDrain, LoopStats, ZeroStats, Phases,
     TurnPhases, DrainPhases
<1>2. TypeOK /\ QuietAfterDrain /\ [Next]_vars => (TypeOK /\ QuietAfterDrain)'
  BY TypeStep, QuietStep
<1> QED BY <1>1, <1>2, PTL DEF Spec


-----------------------------------------------------------------------------
(* Nobody who is gone keeps a lock.                                        *)

NoRepeats(q) == \A i, j \in 1..Len(q) : q[i] = q[j] => i = j

\* A task waits in at most one queue, once, and only while it is parked.
QueuesFit ==
    /\ \A l \in Loops : NoRepeats(turnq[l])
    /\ NoRepeats(permitq)
    /\ \A l \in Loops : \A e \in Events :
          Contains(turnq[l], e) => loopOf[e] = l /\ phase[e] = "parked" /\ turnOf[l] # e
    /\ \A e \in Events :
          Contains(permitq, e) => phase[e] = "parked" /\ turnOf[loopOf[e]] = e /\ e \notin permitOf

\* A lock is held by a task between its first poll and its end, the permit
\* only together with the turn.
HoldersLive ==
    /\ \A l \in Loops : \A e \in Events :
          turnOf[l] = e => loopOf[e] = l /\ phase[e] \in {"parked", "polling", "running", "finished"}
    /\ \A e \in permitOf :
          turnOf[loopOf[e]] = e /\ phase[e] \in {"parked", "polling", "running", "finished"}

LockInv == QueuesFit /\ HoldersLive

\* Leaving a queue without repeats: the others stay, the leaver does not.
LEMMA WithoutLeaves ==
    ASSUME NEW q \in Seq(Events), NEW e \in Events, NoRepeats(q)
    PROVE  /\ NoRepeats(Without(q, e))
           /\ \A o \in Events : Contains(Without(q, e), o) => Contains(q, o) /\ o # e
<1>1. CASE Contains(q, e)
  <2>1. PICK k \in 1..Len(q) : q[k] = e /\ Without(q, e) = RemoveAt(q, k)
    BY <1>1 DEF Without, Contains
  <2> DEFINE w == RemoveAt(q, k)
  <2>2. Len(w) = Len(q) - 1 /\ \A i \in 1..Len(w) : w[i] = IF i < k THEN q[i] ELSE q[i + 1]
    <3> DEFINE a == SubSeq(q, 1, k - 1)
               b == SubSeq(q, k + 1, Len(q))
    <3>1. a \in Seq(Events) /\ Len(a) = k - 1 /\ \A i \in 1..k - 1 : a[i] = q[i]
      BY <2>1
    <3>2. b \in Seq(Events) /\ Len(b) = Len(q) - k /\ \A i \in 1..Len(q) - k : b[i] = q[k + i]
      BY <2>1
    <3>3. w = a \o b
      BY DEF RemoveAt
    <3> HIDE DEF a, b, w
    <3>4. Len(w) = Len(q) - 1 /\ \A i \in 1..Len(w) : w[i] = IF i <= k - 1 THEN a[i] ELSE b[i - (k - 1)]
      <4>1. /\ Len(a \o b) = Len(a) + Len(b)
            /\ \A i \in 1..Len(a) + Len(b) : (a \o b)[i] = IF i <= Len(a) THEN a[i] ELSE b[i - Len(a)]
        BY <3>1, <3>2, ConcatProperties
      <4>2. Len(a) + Len(b) = Len(q) - 1
        BY <2>1, <3>1, <3>2
      <4> QED BY <3>1, <3>3, <4>1, <4>2
    <3>5. ASSUME NEW i \in 1..Len(w) PROVE w[i] = IF i < k THEN q[i] ELSE q[i + 1]
      <4>1. CASE i < k
        BY <2>1, <3>1, <3>4, <3>5, <4>1
      <4>2. CASE ~(i < k)
        <5>1. i - (k - 1) \in 1..Len(q) - k /\ k + (i - (k - 1)) = i + 1
          BY <2>1, <3>4, <3>5, <4>2
        <5> QED BY <2>1, <3>2, <3>4, <4>2, <5>1
      <4> QED BY <4>1, <4>2
    <3> QED BY <3>4, <3>5
  <2> HIDE DEF w
  <2>3. \A i \in 1..Len(w) : \E j \in 1..Len(q) : w[i] = q[j] /\ j # k /\ j = IF i < k THEN i ELSE i + 1
    BY <2>1, <2>2
  <2>4. NoRepeats(w)
    BY <2>2, <2>3 DEF NoRepeats
  <2>5. \A o \in Events : Contains(w, o) => Contains(q, o) /\ o # e
    BY <2>1, <2>3 DEF Contains, NoRepeats
  <2> QED BY <2>1, <2>4, <2>5 DEF w
<1>2. CASE ~Contains(q, e)
  <2>1. Without(q, e) = q
    BY <1>2 DEF Without, Contains
  <2> QED BY <1>2, <2>1
<1> QED BY <1>1, <1>2

\* Joining a queue, and its head leaving it.
LEMMA QueueEnds ==
    ASSUME NEW q \in Seq(Events), NEW e \in Events, NoRepeats(q)
    PROVE  /\ ~Contains(q, e) => NoRepeats(Append(q, e))
           /\ \A o \in Events : Contains(Append(q, e), o) => Contains(q, o) \/ o = e
           /\ q # <<>> => /\ NoRepeats(Tail(q)) /\ Contains(q, Head(q)) /\ Head(q) \in Events
                          /\ \A o \in Events : Contains(Tail(q), o) => Contains(q, o) /\ o # Head(q)
<1>1. /\ Len(Append(q, e)) = Len(q) + 1
      /\ \A i \in 1..Len(q) + 1 : Append(q, e)[i] = IF i = Len(q) + 1 THEN e ELSE q[i]
  OBVIOUS
<1>2. ~Contains(q, e) => NoRepeats(Append(q, e))
  BY <1>1 DEF NoRepeats, Contains
<1>3. \A o \in Events : Contains(Append(q, e), o) => Contains(q, o) \/ o = e
  BY <1>1 DEF Contains
<1>4. ASSUME q # <<>> PROVE /\ NoRepeats(Tail(q)) /\ Contains(q, Head(q)) /\ Head(q) \in Events
                            /\ \A o \in Events : Contains(Tail(q), o) => Contains(q, o) /\ o # Head(q)
  <2>1. Len(Tail(q)) = Len(q) - 1 /\ Len(q) > 0 /\ Head(q) = q[1] /\ Head(q) \in Events
        /\ \A i \in 1..Len(q) - 1 : Tail(q)[i] = q[i + 1]
    BY <1>4
  <2>2. NoRepeats(Tail(q))
    BY <2>1 DEF NoRepeats
  <2>3. Contains(q, Head(q)) /\ \A o \in Events : Contains(Tail(q), o) => Contains(q, o) /\ o # Head(q)
    BY <2>1 DEF Contains, NoRepeats
  <2> QED BY <2>1, <2>2, <2>3
<1> QED BY <1>2, <1>3, <1>4

\* The locks after e dropped its guards and its places in the queues.
LEMMA ReleaseLeaves ==
    ASSUME TypeOK, LockInv, NEW e \in Events, ReleaseAll(e)
    PROVE  /\ \A l \in Loops : NoRepeats(turnq'[l])
           /\ NoRepeats(permitq')
           /\ \A l \in Loops : \A o \in Events :
                 Contains(turnq'[l], o) => Contains(turnq[l], o) /\ o # e /\ turnOf'[l] # o
           /\ \A o \in Events : Contains(permitq', o) => Contains(permitq, o) /\ o # e /\ o \notin permitOf'
           /\ \A l \in Loops : \A o \in Events :
                 turnOf'[l] = o => o # e /\ (turnOf[l] = o \/ Contains(turnq[l], o))
           /\ \A o \in permitOf' : o # e /\ (o \in permitOf \/ Contains(permitq, o))
<1> DEFINE k == loopOf[e]
<1>0. /\ k \in Loops /\ turnq \in [Loops -> Seq(Events)] /\ turnOf \in [Loops -> Events \cup {NoEvent}]
      /\ permitq \in Seq(Events) /\ permitOf \subseteq Events /\ NoEvent \notin Events
  BY DispatchAssumption DEF TypeOK
<1>1. \A l \in Loops : NoRepeats(turnq[l]) /\ turnq[l] \in Seq(Events)
  BY <1>0 DEF LockInv, QueuesFit
<1>2. \A l \in Loops : \A o \in Events : Contains(turnq[l], o) => loopOf[o] = l /\ turnOf[l] # o
  BY DEF LockInv, QueuesFit
<1>3. \A l \in Loops : turnOf[l] = e => l = k
  BY DEF LockInv, HoldersLive
<1> HIDE DEF k
<1>4. /\ \A l \in Loops : NoRepeats(turnq'[l])
      /\ \A l \in Loops : \A o \in Events :
            Contains(turnq'[l], o) => Contains(turnq[l], o) /\ o # e /\ turnOf'[l] # o
      /\ \A l \in Loops : \A o \in Events :
            turnOf'[l] = o => o # e /\ (turnOf[l] = o \/ Contains(turnq[l], o))
  <2>0. \A l \in Loops \ {k} : ~Contains(turnq[l], e)
    BY <1>2 DEF k
  <2>1. CASE turnOf[k] # e
    <3>1. turnq' = [turnq EXCEPT ![k] = Without(turnq[k], e)] /\ turnOf' = turnOf
      BY <2>1 DEF ReleaseAll, k
    <3>2. /\ NoRepeats(Without(turnq[k], e))
          /\ \A o \in Events : Contains(Without(turnq[k], e), o) => Contains(turnq[k], o) /\ o # e
      BY <1>0, <1>1, WithoutLeaves
    <3> QED BY <1>0, <1>1, <1>2, <1>3, <2>0, <2>1, <3>1, <3>2
  <2>2. CASE turnOf[k] = e /\ turnq[k] = <<>>
    <3>1. turnq' = turnq /\ turnOf' = [turnOf EXCEPT ![k] = NoEvent]
      BY <2>2 DEF ReleaseAll, k
    <3> QED BY <1>0, <1>1, <1>2, <1>3, <2>0, <2>2, <3>1
  <2>3. CASE turnOf[k] = e /\ turnq[k] # <<>>
    <3>1. turnq' = [turnq EXCEPT ![k] = Tail(turnq[k])] /\ turnOf' = [turnOf EXCEPT ![k] = Head(turnq[k])]
      BY <2>3 DEF ReleaseAll, k
    <3>2. /\ NoRepeats(Tail(turnq[k])) /\ Contains(turnq[k], Head(turnq[k])) /\ Head(turnq[k]) \in Events
          /\ \A o \in Events : Contains(Tail(turnq[k]), o) => Contains(turnq[k], o) /\ o # Head(turnq[k])
      BY <1>0, <1>1, <2>3, QueueEnds
    <3> QED BY <1>0, <1>1, <1>2, <1>3, <2>0, <2>3, <3>1, <3>2
  <2> QED BY <2>1, <2>2, <2>3
<1>5. NoRepeats(permitq) /\ \A o \in Events : Contains(permitq, o) => o \notin permitOf
  BY DEF LockInv, QueuesFit
<1>6. /\ NoRepeats(permitq')
      /\ \A o \in Events : Contains(permitq', o) => Contains(permitq, o) /\ o # e /\ o \notin permitOf'
      /\ \A o \in permitOf' : o # e /\ (o \in permitOf \/ Contains(permitq, o))
  <2>1. CASE e \notin permitOf
    <3>1. permitq' = Without(permitq, e) /\ permitOf' = permitOf
      BY <2>1 DEF ReleaseAll
    <3> QED BY <1>0, <1>5, <2>1, <3>1, WithoutLeaves
  <2>2. CASE e \in permitOf /\ permitq = <<>>
    <3>1. permitq' = permitq /\ permitOf' = permitOf \ {e}
      BY <2>2 DEF ReleaseAll
    <3> QED BY <1>0, <1>5, <2>2, <3>1
  <2>3. CASE e \in permitOf /\ permitq # <<>>
    <3>1. permitq' = Tail(permitq) /\ permitOf' = (permitOf \ {e}) \cup {Head(permitq)}
      BY <2>3 DEF ReleaseAll
    <3>2. /\ NoRepeats(Tail(permitq)) /\ Contains(permitq, Head(permitq)) /\ Head(permitq) \in Events
          /\ \A o \in Events : Contains(Tail(permitq), o) => Contains(permitq, o) /\ o # Head(permitq)
      BY <1>0, <1>5, <2>3, QueueEnds
    <3> QED BY <1>0, <1>5, <2>3, <3>1, <3>2
  <2> QED BY <2>1, <2>2, <2>3
<1> QED BY <1>4, <1>6

\* A task that leaves gives up its locks and places, and nobody else does.
LEMMA LeaveKeepsLocks ==
    ASSUME TypeOK, LockInv, NEW e \in Events, ReleaseAll(e), loopOf' = loopOf,
           \A o \in Events : o # e => phase'[o] = phase[o]
    PROVE  LockInv'
<1> USE ReleaseLeaves
<1>0. loopOf \in [Events -> Loops] /\ permitOf \subseteq Events /\ LockTypes
  BY DEF TypeOK, LockTypes
<1>1. QueuesFit'
  <2>1. (\A l \in Loops : NoRepeats(turnq'[l])) /\ NoRepeats(permitq')
    OBVIOUS
  <2>2. ASSUME NEW l \in Loops, NEW o \in Events, Contains(turnq'[l], o)
        PROVE  loopOf'[o] = l /\ phase'[o] = "parked" /\ turnOf'[l] # o
    BY <2>2 DEF LockInv, QueuesFit
  <2>3. ASSUME NEW o \in Events, Contains(permitq', o)
        PROVE  phase'[o] = "parked" /\ turnOf'[loopOf'[o]] = o /\ o \notin permitOf'
    BY <1>0, <2>3, ReleaseKeeps DEF LockInv, QueuesFit
  <2> QED BY <2>1, <2>2, <2>3 DEF QueuesFit
<1>2. HoldersLive'
  <2>1. ASSUME NEW l \in Loops, NEW o \in Events, turnOf'[l] = o
        PROVE  loopOf'[o] = l /\ phase'[o] \in {"parked", "polling", "running", "finished"}
    BY <2>1 DEF LockInv, QueuesFit, HoldersLive
  <2>2. ASSUME NEW o \in permitOf'
        PROVE  turnOf'[loopOf'[o]] = o /\ phase'[o] \in {"parked", "polling", "running", "finished"}
    <3>1. o \in Events /\ o # e
      BY <1>0, <2>2, ReleaseTypes DEF LockTypes
    <3>2. turnOf[loopOf[o]] = o /\ phase[o] \in {"parked", "polling", "running", "finished"}
      BY <2>2, <3>1 DEF LockInv, QueuesFit, HoldersLive
    <3> QED BY <1>0, <3>1, <3>2, ReleaseKeeps
  <2> QED BY <2>1, <2>2 DEF HoldersLive
<1> QED BY <1>1, <1>2 DEF LockInv

\* The locks' holders stay, and none of them leaves the phases of a holder.
LEMMA HoldersStay ==
    ASSUME HoldersLive, UNCHANGED <<turnOf, permitOf, loopOf>>, permitOf \subseteq Events,
           \A e \in Events : \/ phase'[e] = phase[e]
                             \/ phase[e] \notin {"parked", "polling", "running", "finished"}
                             \/ phase'[e] \in {"parked", "polling", "running", "finished"}
    PROVE  HoldersLive'
<1>1. ASSUME NEW l \in Loops, NEW o \in Events, turnOf'[l] = o
      PROVE  loopOf'[o] = l /\ phase'[o] \in {"parked", "polling", "running", "finished"}
  <2>1. loopOf[o] = l /\ phase[o] \in {"parked", "polling", "running", "finished"}
    BY <1>1 DEF HoldersLive
  <2> QED BY <2>1
<1>2. ASSUME NEW o \in permitOf'
      PROVE  turnOf'[loopOf'[o]] = o /\ phase'[o] \in {"parked", "polling", "running", "finished"}
  <2>1. turnOf[loopOf[o]] = o /\ phase[o] \in {"parked", "polling", "running", "finished"} /\ o \in Events
    BY <1>2 DEF HoldersLive
  <2> QED BY <2>1
<1> QED BY <1>1, <1>2 DEF HoldersLive

\* An action that leaves the locks alone, and moves only tasks that hold none
\* and wait for none, or from one holding phase to another.
LEMMA LocksAsTheyWere ==
    ASSUME LockInv, UNCHANGED <<locks, loopOf>>, permitOf \subseteq Events,
           \A e \in Events : \/ phase'[e] = phase[e]
                             \/ phase[e] \notin {"parked", "polling", "running", "finished"}
                             \/ /\ phase[e] # "parked"
                                /\ phase'[e] \in {"polling", "running", "finished"}
    PROVE  LockInv'
<1>1. HoldersLive'
  BY HoldersStay DEF LockInv, locks
<1>2. QueuesFit'
  <2>1. \A e \in Events : phase[e] = "parked" => phase'[e] = "parked"
    OBVIOUS
  <2> QED BY <2>1 DEF LockInv, QueuesFit, locks
<1> QED BY <1>1, <1>2 DEF LockInv

LEMMA LockInvStep == TypeOK /\ LockInv /\ [Next]_vars => LockInv'
<1> SUFFICES ASSUME TypeOK, LockInv, [Next]_vars PROVE LockInv'
  OBVIOUS
<1>0. /\ phase \in [Events -> Phases] /\ loopOf \in [Events -> Loops] /\ permitOf \subseteq Events
      /\ turnq \in [Loops -> Seq(Events)] /\ turnOf \in [Loops -> Events \cup {NoEvent}]
      /\ permitq \in Seq(Events) /\ NoEvent \notin Events
  BY DispatchAssumption DEF TypeOK
<1>a. ASSUME NEW e \in Events, enqueue(e) PROVE LockInv'
  <2>1. UNCHANGED <<locks, loopOf>> /\ phase[e] = "new" /\ \A o \in Events : o # e => phase'[o] = phase[o]
    BY <1>0, <1>a DEF enqueue, RefuseClosing, RefuseFull, Accept
  <2> QED BY <1>0, <2>1, LocksAsTheyWere
<1>b. ASSUME NEW e \in Events, PollClosed(e) \/ Return(e) \/ Abort(e) \/ Panic(e) PROVE LockInv'
  <2>1. ReleaseAll(e) /\ loopOf' = loopOf /\ \A o \in Events : o # e => phase'[o] = phase[o]
    BY <1>0, <1>b DEF PollClosed, Return, Abort, Panic
  <2> QED BY <2>1, LeaveKeepsLocks
<1>c. ASSUME NEW e \in Events, Start(e) \/ DropTicket(e) \/ \E ok \in BOOLEAN : Finish(e, ok) PROVE LockInv'
  <2>1. UNCHANGED <<locks, loopOf>> /\ \A o \in Events : o # e => phase'[o] = phase[o]
    BY <1>0, <1>c DEF Start, DropTicket, Finish
  <2>2. \/ phase[e] \notin {"parked", "polling", "running", "finished"}
        \/ phase[e] # "parked" /\ phase'[e] \in {"polling", "running", "finished"}
    <3>1. CASE Start(e)
      BY <1>0, <3>1 DEF Start
    <3>2. CASE DropTicket(e)
      BY <1>0, <3>2 DEF DropTicket, Unwinding
    <3>3. CASE \E ok \in BOOLEAN : Finish(e, ok)
      BY <1>0, <3>3 DEF Finish
    <3> QED BY <1>c, <3>1, <3>2, <3>3
  <2> QED BY <1>0, <2>1, <2>2, LocksAsTheyWere
<1>d. ASSUME NEW e \in Events, PollOpen(e) PROVE LockInv'
  <2>1. CASE phase[e] = "spawned"
    <3>1. UNCHANGED <<locks, loopOf>> /\ \A o \in Events : o # e => phase'[o] = phase[o]
      BY <1>0, <1>d DEF PollOpen
    <3> QED BY <1>0, <2>1, <3>1, LocksAsTheyWere
  <2>2. CASE phase[e] = "parked"
    <3>1. turnOf[loopOf[e]] = e /\ ~Contains(permitq, e) /\ \A l \in Loops : ~Contains(turnq[l], e)
      BY <1>d, <2>2 DEF PollOpen, Woken, LockInv, QueuesFit, Contains
    <3>2. UNCHANGED <<locks, loopOf>> /\ phase'[e] = "polling" /\ \A o \in Events : o # e => phase'[o] = phase[o]
      BY <1>0, <1>d DEF PollOpen
    <3>3. QueuesFit'
      BY <3>1, <3>2 DEF LockInv, QueuesFit, locks
    <3>4. HoldersLive'
      BY <1>0, <3>2, HoldersStay DEF LockInv, locks
    <3> QED BY <3>3, <3>4 DEF LockInv
  <2> QED BY <1>d, <2>1, <2>2 DEF PollOpen, Woken
<1>e. ASSUME NEW e \in Events, LockTurn(e) PROVE LockInv'
  <2> DEFINE k == loopOf[e]
  <2>0. /\ k \in Loops /\ phase[e] = "polling" /\ turnOf[k] # e /\ UNCHANGED <<loopOf, permitOf, permitq>>
        /\ turnq[k] \in Seq(Events) /\ NoRepeats(turnq[k])
        /\ (\A l \in Loops : ~Contains(turnq[l], e)) /\ ~Contains(permitq, e)
    BY <1>0, <1>e DEF LockTurn, LockInv, QueuesFit
  <2>1. CASE turnOf[k] = NoEvent
    <3>1. turnOf' = [turnOf EXCEPT ![k] = e] /\ phase' = phase /\ turnq' = turnq
      BY <1>e, <2>1 DEF LockTurn
    <3>a. turnOf'[k] = e /\ \A l \in Loops \ {k} : turnOf'[l] = turnOf[l]
      BY <1>0, <2>0, <3>1
    <3>b. \A o \in Events : loopOf[o] \in Loops
      BY <1>0
    <3> HIDE DEF k
    <3>2. QueuesFit'
      <4>1. (\A l \in Loops : NoRepeats(turnq'[l])) /\ NoRepeats(permitq')
        BY <2>0, <3>1 DEF LockInv, QueuesFit
      <4>2. ASSUME NEW l \in Loops, NEW o \in Events, Contains(turnq'[l], o)
            PROVE  loopOf'[o] = l /\ phase'[o] = "parked" /\ turnOf'[l] # o
        BY <2>0, <3>1, <3>a, <4>2 DEF LockInv, QueuesFit
      <4>3. ASSUME NEW o \in Events, Contains(permitq', o)
            PROVE  phase'[o] = "parked" /\ turnOf'[loopOf'[o]] = o /\ o \notin permitOf'
        BY <1>0, <2>0, <2>1, <3>1, <3>a, <3>b, <4>3 DEF LockInv, QueuesFit
      <4> QED BY <4>1, <4>2, <4>3 DEF QueuesFit
    <3>3. HoldersLive'
      <4>1. ASSUME NEW l \in Loops, NEW o \in Events, turnOf'[l] = o
            PROVE  loopOf'[o] = l /\ phase'[o] \in {"parked", "polling", "running", "finished"}
        BY <2>0, <3>1, <3>a, <4>1 DEF LockInv, HoldersLive, k
      <4>2. ASSUME NEW o \in permitOf'
            PROVE  turnOf'[loopOf'[o]] = o /\ phase'[o] \in {"parked", "polling", "running", "finished"}
        BY <1>0, <2>0, <2>1, <3>1, <3>a, <3>b, <4>2 DEF LockInv, HoldersLive
      <4> QED BY <4>1, <4>2 DEF HoldersLive
    <3> QED BY <3>2, <3>3 DEF LockInv
  <2>2. CASE turnOf[k] # NoEvent
    <3>1. /\ turnq' = [turnq EXCEPT ![k] = Append(turnq[k], e)] /\ turnOf' = turnOf
          /\ phase'[e] = "parked" /\ \A o \in Events : o # e => phase'[o] = phase[o]
      BY <1>0, <1>e, <2>2 DEF LockTurn
    <3>2. /\ NoRepeats(Append(turnq[k], e))
          /\ \A o \in Events : Contains(Append(turnq[k], e), o) => Contains(turnq[k], o) \/ o = e
      BY <2>0, QueueEnds
    <3>3. /\ turnq'[k] = Append(turnq[k], e) /\ \A l \in Loops \ {k} : turnq'[l] = turnq[l]
      BY <1>0, <2>0, <3>1
    <3> HIDE DEF k
    <3>4. QueuesFit'
      <4>1. (\A l \in Loops : NoRepeats(turnq'[l])) /\ NoRepeats(permitq')
        BY <2>0, <3>2, <3>3 DEF LockInv, QueuesFit
      <4>2. ASSUME NEW l \in Loops, NEW o \in Events, Contains(turnq'[l], o)
            PROVE  loopOf'[o] = l /\ phase'[o] = "parked" /\ turnOf'[l] # o
        <5>1. CASE o = e
          BY <2>0, <3>1, <3>3, <4>2, <5>1 DEF k
        <5>2. CASE o # e
          BY <2>0, <3>1, <3>2, <3>3, <4>2, <5>2 DEF LockInv, QueuesFit
        <5> QED BY <5>1, <5>2
      <4>3. ASSUME NEW o \in Events, Contains(permitq', o)
            PROVE  phase'[o] = "parked" /\ turnOf'[loopOf'[o]] = o /\ o \notin permitOf'
        BY <2>0, <3>1, <4>3 DEF LockInv, QueuesFit
      <4> QED BY <4>1, <4>2, <4>3 DEF QueuesFit
    <3>5. HoldersLive'
      BY <1>0, <2>0, <3>1, HoldersStay DEF LockInv
    <3> QED BY <3>4, <3>5 DEF LockInv
  <2> QED BY <2>1, <2>2
<1>f. ASSUME NEW e \in Events, AcquirePermit(e) PROVE LockInv'
  <2>0. /\ phase[e] = "polling" /\ turnOf[loopOf[e]] = e /\ e \notin permitOf /\ UNCHANGED <<loopOf, turnOf, turnq>>
        /\ NoRepeats(permitq) /\ ~Contains(permitq, e) /\ \A l \in Loops : ~Contains(turnq[l], e)
    BY <1>0, <1>f DEF AcquirePermit, LockInv, QueuesFit
  <2>1. CASE Cardinality(permitOf) < MaxInFlight
    <3>1. permitOf' = permitOf \cup {e} /\ phase' = phase /\ permitq' = permitq
      BY <1>f, <2>1 DEF AcquirePermit
    <3>2. QueuesFit'
      BY <2>0, <3>1 DEF LockInv, QueuesFit
    <3>3. HoldersLive'
      BY <2>0, <3>1 DEF LockInv, HoldersLive
    <3> QED BY <3>2, <3>3 DEF LockInv
  <2>2. CASE ~(Cardinality(permitOf) < MaxInFlight)
    <3>1. /\ permitq' = Append(permitq, e) /\ permitOf' = permitOf
          /\ phase'[e] = "parked" /\ \A o \in Events : o # e => phase'[o] = phase[o]
      BY <1>0, <1>f, <2>2 DEF AcquirePermit
    <3>2. NoRepeats(permitq') /\ \A o \in Events : Contains(permitq', o) => Contains(permitq, o) \/ o = e
      BY <1>0, <2>0, <3>1, QueueEnds
    <3>3. QueuesFit'
      <4>1. ASSUME NEW o \in Events, Contains(permitq', o)
            PROVE  phase'[o] = "parked" /\ turnOf'[loopOf'[o]] = o /\ o \notin permitOf'
        <5>1. CASE o = e
          BY <2>0, <3>1, <5>1
        <5>2. CASE o # e
          BY <2>0, <3>1, <3>2, <4>1, <5>2 DEF LockInv, QueuesFit
        <5> QED BY <5>1, <5>2
      <4>2. ASSUME NEW l \in Loops, NEW o \in Events, Contains(turnq'[l], o)
            PROVE  loopOf'[o] = l /\ phase'[o] = "parked" /\ turnOf'[l] # o
        BY <2>0, <3>1, <4>2 DEF LockInv, QueuesFit
      <4>3. (\A l \in Loops : NoRepeats(turnq'[l])) /\ NoRepeats(permitq')
        BY <2>0, <3>2 DEF LockInv, QueuesFit
      <4> QED BY <4>1, <4>2, <4>3 DEF QueuesFit
    <3>4. HoldersLive'
      BY <1>0, <2>0, <3>1, HoldersStay DEF LockInv
    <3> QED BY <3>3, <3>4 DEF LockInv
  <2> QED BY <2>1, <2>2
<1>g. ASSUME NEW t \in Turns, spawn_turn(t) \/ TurnEnds(t) \/ AbortTurn(t) PROVE LockInv'
  BY <1>0, <1>g, LocksAsTheyWere DEF spawn_turn, TurnEnds, AbortTurn
<1>h. ASSUME BeginDrain \/ DrainStep PROVE LockInv'
  BY <1>0, <1>h, LocksAsTheyWere DEF BeginDrain, DrainStep, TakeTurns, Deadline, DrainReturns
<1>i. CASE UNCHANGED vars
  BY <1>0, <1>i, LocksAsTheyWere DEF vars, locks
<1> QED BY <1>a, <1>b, <1>c, <1>d, <1>e, <1>f, <1>g, <1>h, <1>i DEF Next, TaskStep, HandlerStep

\* However a task ends (returned, dropped, panicked, aborted), the turn, the
\* permit and every place in a queue go with it, for any number of loops.
THEOREM DispatchNoOrphan == Spec => []NoOrphanLock
<1>1. Init => TypeOK /\ LockInv
  <2> SUFFICES ASSUME Init PROVE TypeOK /\ LockInv
    OBVIOUS
  <2>1. TypeOK
    BY DEF Init, TypeOK, LoopStats, ZeroStats, Phases, TurnPhases, DrainPhases
  <2>2. QueuesFit
    <3>1. NoRepeats(<<>>) /\ \A e \in Events : ~Contains(<<>>, e)
      BY DEF NoRepeats, Contains
    <3>2. (\A l \in Loops : turnq[l] = <<>>) /\ permitq = <<>>
      BY DEF Init
    <3> QED BY <3>1, <3>2 DEF QueuesFit
  <2>3. HoldersLive
    BY DispatchAssumption DEF Init, HoldersLive
  <2> QED BY <2>1, <2>2, <2>3 DEF LockInv
<1>2. TypeOK /\ LockInv /\ [Next]_vars => (TypeOK /\ LockInv)'
  BY TypeStep, LockInvStep
<1>3. TypeOK /\ LockInv => NoOrphanLock
  <2> SUFFICES ASSUME TypeOK, LockInv, NEW e \in Events,
                      phase[e] \in {"new", "refused"} \cup Unwinding \cup Settled
               PROVE  /\ turnOf[loopOf[e]] # e /\ e \notin permitOf
                      /\ \A l \in Loops : ~Contains(turnq[l], e)
                      /\ ~Contains(permitq, e)
    BY DEF NoOrphanLock
  <2>1. phase[e] \notin {"parked", "polling", "running", "finished"} /\ loopOf[e] \in Loops
    BY DEF TypeOK, Unwinding, Settled
  <2> QED BY <2>1 DEF LockInv, QueuesFit, HoldersLive
<1> QED BY <1>1, <1>2, <1>3, PTL DEF Spec

\* An event that waits outside a poll when the drain has begun never starts.
THEOREM DispatchQueuedNeverStart == Spec => QueuedNeverStart
<1>1. ASSUME TypeOK, [Next]_vars, NEW e \in Events, closing, phase[e] \in {"spawned", "parked"}
      PROVE  phase'[e] \in {"spawned", "parked", "unwindQueued"}
  <2>0. phase \in [Events -> Phases]
    BY <1>1 DEF TypeOK
  <2>1. ASSUME NEW o \in Events, enqueue(o) \/ TaskStep(o) \/ HandlerStep(o)
        PROVE  phase'[e] \in {"spawned", "parked", "unwindQueued"}
    <3>1. CASE enqueue(o)
      BY <1>1, <2>0, <3>1 DEF enqueue, RefuseClosing, RefuseFull, Accept
    <3>2. CASE PollOpen(o)
      BY <1>1, <2>0, <3>2 DEF PollOpen
    <3>3. CASE PollClosed(o)
      BY <1>1, <2>0, <3>3 DEF PollClosed
    <3>4. CASE LockTurn(o)
      BY <1>1, <2>0, <3>4 DEF LockTurn
    <3>5. CASE AcquirePermit(o)
      BY <1>1, <2>0, <3>5 DEF AcquirePermit
    <3>6. CASE Start(o)
      BY <1>1, <2>0, <3>6 DEF Start
    <3>7. CASE Return(o)
      BY <1>1, <2>0, <3>7 DEF Return
    <3>8. CASE DropTicket(o)
      BY <1>1, <2>0, <3>8 DEF DropTicket, Unwinding
    <3>9. CASE Abort(o)
      BY <1>1, <2>0, <3>9 DEF Abort
    <3>10. CASE Panic(o)
      BY <1>1, <2>0, <3>10 DEF Panic
    <3>11. CASE \E ok \in BOOLEAN : Finish(o, ok)
      BY <1>1, <2>0, <3>11 DEF Finish
    <3> QED BY <2>1, <3>1, <3>2, <3>3, <3>4, <3>5, <3>6, <3>7, <3>8, <3>9, <3>10, <3>11 DEF TaskStep, HandlerStep
  <2>2. CASE (\E t \in Turns : spawn_turn(t) \/ TurnEnds(t) \/ AbortTurn(t)) \/ BeginDrain \/ DrainStep \/ UNCHANGED vars
    BY <1>1, <2>2 DEF spawn_turn, TurnEnds, AbortTurn, BeginDrain, DrainStep, TakeTurns, Deadline, DrainReturns, vars
  <2> QED BY <1>1, <2>1, <2>2 DEF Next
<1>2. TypeOK /\ [Next]_vars =>
        [\A e \in Events : closing /\ phase[e] \in {"spawned", "parked"}
            => phase'[e] \in {"spawned", "parked", "unwindQueued"}]_vars
  BY <1>1
<1> QED BY <1>2, DispatchTyped, PTL DEF Spec, QueuedNeverStart

(***************************************************************************)
(* The counters.                                                           *)
(***************************************************************************)

\* The five classes of tickets the counters count.
InQueue == Waiting \cup {"unwindQueued"}
InHand  == {"running", "unwindRunning"}
Booked  == {"finished", "ended"}
Left    == {"dropped", "aborted"}
Gone    == {"refused", "dropped", "aborted"}

Count(l, ps) == Cardinality(EventsIn(l, ps))

\* CountersExact of one loop.
CountedAt(l) ==
    /\ stats[l].queued = Count(l, InQueue)
    /\ stats[l].in_flight = Count(l, InHand)
    /\ stats[l].completed + stats[l].failed = Count(l, Booked)
    /\ stats[l].dropped = Count(l, Gone)
    /\ stats[l].accepted = stats[l].queued + stats[l].in_flight
         + stats[l].completed + stats[l].failed + Count(l, Left)

LEMMA CountersPerLoop == CountersExact <=> \A l \in Loops : CountedAt(l)
  BY DEF CountersExact, CountedAt, Count, InQueue, InHand, Booked, Left, Gone

\* What one event's move does to the number of events in a class.
LEMMA CountMoves ==
    ASSUME TypeOK, NEW e \in Events, NEW l \in Loops, NEW ps, loopOf' = loopOf,
           \A o \in Events : o # e => phase'[o] = phase[o]
    PROVE  /\ Count(l, ps) \in Nat /\ Count(l, ps)' \in Nat
           /\ loopOf[e] # l \/ (phase[e] \in ps <=> phase'[e] \in ps) => Count(l, ps)' = Count(l, ps)
           /\ loopOf[e] = l /\ phase[e] \notin ps /\ phase'[e] \in ps => Count(l, ps)' = Count(l, ps) + 1
           /\ loopOf[e] = l /\ phase[e] \in ps /\ phase'[e] \notin ps =>
                Count(l, ps) >= 1 /\ Count(l, ps)' = Count(l, ps) - 1
<1> DEFINE S == {o \in Events : loopOf[o] = l /\ phase[o] \in ps}
           T == {o \in Events : loopOf'[o] = l /\ phase'[o] \in ps}
<1>0. Count(l, ps) = Cardinality(S) /\ Count(l, ps)' = Cardinality(T)
  BY DEF Count, EventsIn
<1>1. IsFiniteSet(S) /\ IsFiniteSet(T) /\ Cardinality(S) \in Nat /\ Cardinality(T) \in Nat
  BY FS_Subset, FS_CardinalityType, DispatchAssumption
<1>2. ASSUME loopOf[e] # l \/ (phase[e] \in ps <=> phase'[e] \in ps) PROVE Cardinality(T) = Cardinality(S)
  <2>1. T = S
    BY <1>2
  <2> QED BY <2>1
<1>3. ASSUME loopOf[e] = l, phase[e] \notin ps, phase'[e] \in ps PROVE Cardinality(T) = Cardinality(S) + 1
  <2>1. T = S \cup {e} /\ e \notin S
    BY <1>3
  <2> QED BY <1>1, <2>1, FS_AddElement
<1>4. ASSUME loopOf[e] = l, phase[e] \in ps, phase'[e] \notin ps
      PROVE  Cardinality(S) >= 1 /\ Cardinality(T) = Cardinality(S) - 1
  <2>1. S = T \cup {e} /\ e \notin T
    BY <1>4
  <2>2. Cardinality(S) = Cardinality(T) + 1
    BY <1>1, <2>1, FS_AddElement
  <2> QED BY <1>1, <2>2
<1> HIDE DEF S, T
<1> QED BY <1>0, <1>1, <1>2, <1>3, <1>4

\* Only the counters of e's own loop have to be looked at.
LEMMA OtherLoopsCounted ==
    ASSUME TypeOK, CountersExact, NEW e \in Events, loopOf' = loopOf,
           \A o \in Events : o # e => phase'[o] = phase[o],
           \A l \in Loops : l # loopOf[e] => stats'[l] = stats[l],
           CountedAt(loopOf[e])'
    PROVE  CountersExact'
<1>1. ASSUME NEW l \in Loops PROVE CountedAt(l)'
  <2>1. CASE l = loopOf[e]
    BY <2>1
  <2>2. CASE l # loopOf[e]
    <3>1. \A ps : Count(l, ps)' = Count(l, ps)
      BY <2>2, CountMoves
    <3>2. CountedAt(l)
      BY CountersPerLoop
    <3>3. stats'[l] = stats[l]
      BY <2>2
    <3> QED BY <3>1, <3>2, <3>3 DEF CountedAt
  <2> QED BY <2>1, <2>2
<1> QED BY <1>1 DEF CountersExact, CountedAt, Count, InQueue, InHand, Booked, Left, Gone

\* A move inside one class changes no counter.
LEMMA MoveInsideClass ==
    ASSUME TypeOK, CountersExact, NEW e \in Events, loopOf' = loopOf, stats' = stats,
           \A o \in Events : o # e => phase'[o] = phase[o],
           \/ phase'[e] = phase[e]
           \/ phase[e] \in InQueue /\ phase'[e] \in InQueue
           \/ phase[e] \in InHand /\ phase'[e] \in InHand
           \/ phase[e] \in Booked /\ phase'[e] \in Booked
    PROVE  CountersExact'
<1> DEFINE k == loopOf[e]
<1>0. k \in Loops
  BY DEF TypeOK
<1>1. \A ps \in {InQueue, InHand, Booked, Gone, Left} : phase[e] \in ps <=> phase'[e] \in ps
  BY DEF InQueue, InHand, Booked, Gone, Left, Waiting
<1>2. \A ps \in {InQueue, InHand, Booked, Gone, Left} : Count(k, ps)' = Count(k, ps)
  BY <1>0, <1>1, CountMoves
<1>3. CountedAt(k)
  BY <1>0, CountersPerLoop
<1>4. CountedAt(k)'
  BY <1>2, <1>3 DEF CountedAt
<1> QED BY <1>4, OtherLoopsCounted

\* A ticket's counters: every booking is a move between two classes.
LEMMA CountersStep == TypeOK /\ CountersExact /\ [Next]_vars => CountersExact'
<1> SUFFICES ASSUME TypeOK, CountersExact, [Next]_vars PROVE CountersExact'
  OBVIOUS
<1>0. /\ phase \in [Events -> Phases] /\ loopOf \in [Events -> Loops] /\ stats \in [Loops -> LoopStats]
  BY DEF TypeOK
<1>a. ASSUME NEW e \in Events, enqueue(e) \/ Start(e) \/ DropTicket(e) \/ \E ok \in BOOLEAN : Finish(e, ok)
      PROVE  CountersExact'
  <2>4. PICK k : k = loopOf[e]
    OBVIOUS
  <2>1. k \in Loops /\ loopOf' = loopOf /\ (\A o \in Events : o # e => phase'[o] = phase[o])
        /\ \A l \in Loops : l # loopOf[e] => stats'[l] = stats[l]
    BY <1>0, <1>a, <2>4 DEF enqueue, RefuseClosing, RefuseFull, Accept, Start, DropTicket, Finish
  <2>2. CountedAt(k)
    BY <2>1, CountersPerLoop
  <2>3. /\ stats[k].queued \in Nat /\ stats[k].in_flight \in Nat /\ stats[k].accepted \in Nat
        /\ stats[k].completed \in Nat /\ stats[k].failed \in Nat /\ stats[k].dropped \in Nat
        /\ stats[k] \in LoopStats
    BY <1>0, <2>1 DEF LoopStats
  <2>5. \A ps \in {InQueue, InHand, Booked, Gone, Left} :
           /\ Count(k, ps) \in Nat /\ Count(k, ps)' \in Nat
           /\ (phase[e] \in ps <=> phase'[e] \in ps) => Count(k, ps)' = Count(k, ps)
           /\ phase[e] \notin ps /\ phase'[e] \in ps => Count(k, ps)' = Count(k, ps) + 1
           /\ phase[e] \in ps /\ phase'[e] \notin ps => Count(k, ps) >= 1 /\ Count(k, ps)' = Count(k, ps) - 1
    BY <2>1, <2>4, CountMoves
  <2>8. /\ Count(k, InQueue) \in Nat /\ Count(k, InHand) \in Nat /\ Count(k, Booked) \in Nat
        /\ Count(k, Gone) \in Nat /\ Count(k, Left) \in Nat
    BY <2>5
  <2>6. CountedAt(k)'
    <3>1. CASE RefuseClosing(e) \/ RefuseFull(e)
      <4>1. phase[e] = "new" /\ phase'[e] = "refused"
        BY <1>0, <3>1 DEF RefuseClosing, RefuseFull
      <4>2. stats'[k] = [stats[k] EXCEPT !.dropped = stats[k].dropped + 1]
        BY <1>0, <2>1, <2>4, <3>1 DEF RefuseClosing, RefuseFull, Refuse
      <4>3. /\ Count(k, InQueue)' = Count(k, InQueue) /\ Count(k, InHand)' = Count(k, InHand)
            /\ Count(k, Booked)' = Count(k, Booked) /\ Count(k, Left)' = Count(k, Left)
            /\ Count(k, Gone)' = Count(k, Gone) + 1
        BY <2>5, <4>1 DEF InQueue, InHand, Booked, Gone, Left, Waiting
      <4>4. /\ stats'[k].queued = stats[k].queued /\ stats'[k].in_flight = stats[k].in_flight
            /\ stats'[k].accepted = stats[k].accepted /\ stats'[k].completed = stats[k].completed
            /\ stats'[k].failed = stats[k].failed /\ stats'[k].dropped = stats[k].dropped + 1
        BY <2>3, <4>2 DEF LoopStats
      <4> QED BY <2>2, <2>3, <2>8, <4>3, <4>4 DEF CountedAt
    <3>2. CASE Accept(e)
      <4>1. phase[e] = "new" /\ phase'[e] = "spawned"
        BY <1>0, <3>2 DEF Accept
      <4>2. stats'[k] = [stats[k] EXCEPT !.accepted = stats[k].accepted + 1, !.queued = stats[k].queued + 1]
        BY <1>0, <2>1, <2>4, <3>2 DEF Accept, Queued
      <4>3. /\ Count(k, InQueue)' = Count(k, InQueue) + 1 /\ Count(k, InHand)' = Count(k, InHand)
            /\ Count(k, Booked)' = Count(k, Booked) /\ Count(k, Left)' = Count(k, Left)
            /\ Count(k, Gone)' = Count(k, Gone)
        BY <2>5, <4>1 DEF InQueue, InHand, Booked, Gone, Left, Waiting
      <4>4. /\ stats'[k].queued = stats[k].queued + 1 /\ stats'[k].in_flight = stats[k].in_flight
            /\ stats'[k].accepted = stats[k].accepted + 1 /\ stats'[k].completed = stats[k].completed
            /\ stats'[k].failed = stats[k].failed /\ stats'[k].dropped = stats[k].dropped
        BY <2>3, <4>2 DEF LoopStats
      <4> QED BY <2>2, <2>3, <2>8, <4>3, <4>4 DEF CountedAt
    <3>3. CASE Start(e)
      <4>1. phase[e] = "polling" /\ phase'[e] = "running"
        BY <1>0, <3>3 DEF Start
      <4>3. /\ Count(k, InQueue)' = Count(k, InQueue) - 1 /\ Count(k, InQueue) >= 1
            /\ Count(k, InHand)' = Count(k, InHand) + 1
            /\ Count(k, Booked)' = Count(k, Booked) /\ Count(k, Left)' = Count(k, Left)
            /\ Count(k, Gone)' = Count(k, Gone)
        BY <2>5, <4>1 DEF InQueue, InHand, Booked, Gone, Left, Waiting
      <4>2. stats'[k] = [stats[k] EXCEPT !.queued = SaturatingSub(stats[k].queued, 1),
                                         !.in_flight = stats[k].in_flight + 1]
        BY <1>0, <2>1, <2>4, <3>3 DEF Start, Started
      <4>5. SaturatingSub(stats[k].queued, 1) = stats[k].queued - 1
        BY <2>2, <2>3, <4>3 DEF CountedAt, SaturatingSub
      <4>4. /\ stats'[k].queued = stats[k].queued - 1 /\ stats'[k].in_flight = stats[k].in_flight + 1
            /\ stats'[k].accepted = stats[k].accepted /\ stats'[k].completed = stats[k].completed
            /\ stats'[k].failed = stats[k].failed /\ stats'[k].dropped = stats[k].dropped
        BY <2>3, <4>2, <4>5 DEF LoopStats
      <4> QED BY <2>2, <2>3, <2>8, <4>3, <4>4 DEF CountedAt
    <3>4. CASE \E ok \in BOOLEAN : Finish(e, ok)
      <4>0. PICK ok \in BOOLEAN : Finish(e, ok)
        BY <3>4
      <4>1. phase[e] = "running" /\ phase'[e] = "finished"
        BY <1>0, <4>0 DEF Finish
      <4>3. /\ Count(k, InQueue)' = Count(k, InQueue)
            /\ Count(k, InHand)' = Count(k, InHand) - 1 /\ Count(k, InHand) >= 1
            /\ Count(k, Booked)' = Count(k, Booked) + 1 /\ Count(k, Left)' = Count(k, Left)
            /\ Count(k, Gone)' = Count(k, Gone)
        BY <2>5, <4>1 DEF InQueue, InHand, Booked, Gone, Left, Waiting
      <4>2. \/ stats'[k] = [stats[k] EXCEPT !.in_flight = SaturatingSub(stats[k].in_flight, 1),
                                            !.completed = stats[k].completed + 1]
            \/ stats'[k] = [stats[k] EXCEPT !.in_flight = SaturatingSub(stats[k].in_flight, 1),
                                            !.failed = stats[k].failed + 1]
        BY <1>0, <2>1, <2>4, <4>0 DEF Finish, Finished
      <4>5. SaturatingSub(stats[k].in_flight, 1) = stats[k].in_flight - 1
        BY <2>2, <2>3, <4>3 DEF CountedAt, SaturatingSub
      <4>4. /\ stats'[k].queued = stats[k].queued /\ stats'[k].in_flight = stats[k].in_flight - 1
            /\ stats'[k].accepted = stats[k].accepted /\ stats'[k].dropped = stats[k].dropped
            /\ \/ stats'[k].completed = stats[k].completed + 1 /\ stats'[k].failed = stats[k].failed
               \/ stats'[k].completed = stats[k].completed /\ stats'[k].failed = stats[k].failed + 1
        BY <2>3, <4>2, <4>5 DEF LoopStats
      <4> QED BY <2>2, <2>3, <2>8, <4>3, <4>4 DEF CountedAt
    <3>5. CASE DropTicket(e)
      <4>1. CASE phase[e] = "unwindRunning"
        <5>1. phase'[e] = "aborted"
          BY <1>0, <3>5, <4>1 DEF DropTicket
        <5>2. /\ Count(k, InQueue)' = Count(k, InQueue)
              /\ Count(k, InHand)' = Count(k, InHand) - 1 /\ Count(k, InHand) >= 1
              /\ Count(k, Booked)' = Count(k, Booked) /\ Count(k, Left)' = Count(k, Left) + 1
              /\ Count(k, Gone)' = Count(k, Gone) + 1
          BY <2>5, <4>1, <5>1 DEF InQueue, InHand, Booked, Gone, Left, Waiting
        <5>3. stats'[k] = [stats[k] EXCEPT !.in_flight = SaturatingSub(stats[k].in_flight, 1),
                                           !.dropped = stats[k].dropped + 1]
          BY <1>0, <2>1, <2>4, <3>5, <4>1 DEF DropTicket, Dropped
        <5>4. SaturatingSub(stats[k].in_flight, 1) = stats[k].in_flight - 1
          BY <2>2, <2>3, <5>2 DEF CountedAt, SaturatingSub
        <5>5. /\ stats'[k].queued = stats[k].queued /\ stats'[k].in_flight = stats[k].in_flight - 1
              /\ stats'[k].accepted = stats[k].accepted /\ stats'[k].completed = stats[k].completed
              /\ stats'[k].failed = stats[k].failed /\ stats'[k].dropped = stats[k].dropped + 1
          BY <2>3, <5>3, <5>4 DEF LoopStats
        <5> QED BY <2>2, <2>3, <2>8, <5>2, <5>5 DEF CountedAt
      <4>2. CASE phase[e] = "unwindQueued"
        <5>1. phase'[e] = "dropped"
          BY <1>0, <3>5, <4>2 DEF DropTicket
        <5>2. /\ Count(k, InQueue)' = Count(k, InQueue) - 1 /\ Count(k, InQueue) >= 1
              /\ Count(k, InHand)' = Count(k, InHand)
              /\ Count(k, Booked)' = Count(k, Booked) /\ Count(k, Left)' = Count(k, Left) + 1
              /\ Count(k, Gone)' = Count(k, Gone) + 1
          BY <2>5, <4>2, <5>1 DEF InQueue, InHand, Booked, Gone, Left, Waiting
        <5>3. stats'[k] = [stats[k] EXCEPT !.queued = SaturatingSub(stats[k].queued, 1),
                                           !.dropped = stats[k].dropped + 1]
          BY <1>0, <2>1, <2>4, <3>5, <4>2 DEF DropTicket, Dropped
        <5>4. SaturatingSub(stats[k].queued, 1) = stats[k].queued - 1
          BY <2>2, <2>3, <5>2 DEF CountedAt, SaturatingSub
        <5>5. /\ stats'[k].queued = stats[k].queued - 1 /\ stats'[k].in_flight = stats[k].in_flight
              /\ stats'[k].accepted = stats[k].accepted /\ stats'[k].completed = stats[k].completed
              /\ stats'[k].failed = stats[k].failed /\ stats'[k].dropped = stats[k].dropped + 1
          BY <2>3, <5>3, <5>4 DEF LoopStats
        <5> QED BY <2>2, <2>3, <2>8, <5>2, <5>5 DEF CountedAt
      <4> QED BY <3>5, <4>1, <4>2 DEF DropTicket, Unwinding
    <3> QED BY <1>a, <3>1, <3>2, <3>3, <3>4, <3>5 DEF enqueue
  <2>7. CountedAt(loopOf[e])'
    BY <2>1, <2>4, <2>6
  <2> QED BY <2>1, <2>7, OtherLoopsCounted
<1>b. ASSUME NEW e \in Events, \/ PollOpen(e) \/ PollClosed(e) \/ LockTurn(e) \/ AcquirePermit(e)
                               \/ Return(e) \/ Panic(e) \/ Abort(e)
      PROVE  CountersExact'
  <2>1. loopOf' = loopOf /\ stats' = stats /\ \A o \in Events : o # e => phase'[o] = phase[o]
    BY <1>0, <1>b DEF PollOpen, PollClosed, LockTurn, AcquirePermit, Return, Panic, Abort
  <2>2. \/ phase'[e] = phase[e]
        \/ phase[e] \in InQueue /\ phase'[e] \in InQueue
        \/ phase[e] \in InHand /\ phase'[e] \in InHand
        \/ phase[e] \in Booked /\ phase'[e] \in Booked
    <3>1. CASE PollOpen(e)
      BY <1>0, <3>1 DEF PollOpen, Woken, InQueue, Waiting
    <3>2. CASE PollClosed(e)
      BY <1>0, <3>2 DEF PollClosed, InQueue, Waiting
    <3>3. CASE LockTurn(e)
      BY <1>0, <3>3 DEF LockTurn, InQueue, Waiting
    <3>4. CASE AcquirePermit(e)
      BY <1>0, <3>4 DEF AcquirePermit, InQueue, Waiting
    <3>5. CASE Return(e)
      BY <1>0, <3>5 DEF Return, Booked
    <3>6. CASE Panic(e)
      BY <1>0, <3>6 DEF Panic, InHand
    <3>7. CASE Abort(e)
      BY <1>0, <3>7 DEF Abort, InHand, InQueue, Waiting
    <3> QED BY <1>b, <3>1, <3>2, <3>3, <3>4, <3>5, <3>6, <3>7
  <2> QED BY <2>1, <2>2, MoveInsideClass
<1>c. CASE \/ \E t \in Turns : spawn_turn(t) \/ TurnEnds(t) \/ AbortTurn(t)
           \/ BeginDrain \/ DrainStep \/ UNCHANGED vars
  <2>1. phase' = phase /\ loopOf' = loopOf /\ stats' = stats
    BY <1>c DEF spawn_turn, TurnEnds, AbortTurn, BeginDrain, DrainStep, TakeTurns, Deadline, DrainReturns, vars
  <2>2. ASSUME NEW l \in Loops, NEW ps PROVE EventsIn(l, ps)' = EventsIn(l, ps)
    BY <2>1 DEF EventsIn
  <2> QED BY <2>1, <2>2 DEF CountersExact
<1> QED BY <1>a, <1>b, <1>c DEF Next, TaskStep, HandlerStep

\* The counters published by the heartbeat are exact for any number of loops
\* and events, and no saturating subtraction ever saturates.
THEOREM DispatchCountersExact == Spec => []CountersExact
<1>1. Init => CountersExact
  <2> SUFFICES ASSUME Init, NEW l \in Loops PROVE CountedAt(l)
    BY CountersPerLoop
  <2>1. EventsIn(l, InQueue) = {} /\ EventsIn(l, InHand) = {} /\ EventsIn(l, Booked) = {}
        /\ EventsIn(l, Left) = {} /\ EventsIn(l, Gone) = {}
    BY DEF Init, EventsIn, InQueue, InHand, Booked, Left, Gone, Waiting
  <2>2. stats[l] = ZeroStats
    BY DEF Init
  <2>3. Cardinality({}) = 0
    BY FS_EmptySet
  <2> QED BY <2>1, <2>2, <2>3 DEF CountedAt, Count, ZeroStats
<1>2. TypeOK /\ CountersExact /\ [Next]_vars => CountersExact'
  BY CountersStep
<1> QED BY <1>1, <1>2, DispatchTyped, PTL DEF Spec

-----------------------------------------------------------------------------
(* The report of drain.                                                    *)

\* The events of all loops in one of these phases, and those that were lost
\* without an abort.
InPhases(ps) == {e \in Events : phase[e] \in ps}

LostAlone == {e \in Events : phase[e] \in Gone /\ e \notin cancelled}

\* An aborted task is on its way to `dropped' and stays there; nothing is
\* aborted before the deadline; what `before' counted as dropped was not
\* aborted.
ReportInv ==
    /\ before \in Totals
    /\ \A e \in cancelled : phase[e] \in Unwinding \cup Left
    /\ drain \in {"open", "closing", "draining"} => cancelled = {}
    /\ closing => before.dropped <= Cardinality(LostAlone)

\* Exact counters of every loop make exact totals.
LEMMA TotalsExact ==
    ASSUME TypeOK, CountersExact
    PROVE  /\ totals.finished = Cardinality(InPhases(Booked))
           /\ totals.dropped = Cardinality(InPhases(Gone))
<1>1. ASSUME NEW ps, NEW f, DOMAIN f = Loops, \A l \in Loops : f[l] = Count(l, ps)
      PROVE  SumFunction(f) = Cardinality(InPhases(ps))
  <2>1. IsFiniteSet(InPhases(ps)) /\ IsFiniteSet(Loops)
    BY FS_Subset, DispatchAssumption DEF InPhases
  <2>2. ASSUME NEW l \in Loops
        PROVE  f[l] = Cardinality(Classes(InPhases(ps), loopOf, {l}))
    <3>1. EventsIn(l, ps) = Classes(InPhases(ps), loopOf, {l})
      BY DEF EventsIn, InPhases, Classes
    <3> QED BY <1>1, <3>1 DEF Count
  <2>3. SumFunctionOnSet(f, Loops) = Cardinality(Classes(InPhases(ps), loopOf, Loops))
    BY <2>1, <2>2, SumCounts
  <2>4. Classes(InPhases(ps), loopOf, Loops) = InPhases(ps)
    BY DEF TypeOK, InPhases, Classes
  <2> QED BY <1>1, <2>3, <2>4 DEF SumFunction
<1>2. \A l \in Loops : CountedAt(l)
  BY CountersPerLoop
<1> DEFINE fin == [l \in Loops |-> stats[l].completed + stats[l].failed]
           drp == [l \in Loops |-> stats[l].dropped]
<1>3. \A l \in Loops : fin[l] = Count(l, Booked) /\ drp[l] = Count(l, Gone)
  BY <1>2 DEF CountedAt
<1>4. DOMAIN fin = Loops /\ DOMAIN drp = Loops
  OBVIOUS
<1>5. totals.finished = SumFunction(fin) /\ totals.dropped = SumFunction(drp)
  BY DEF totals
<1> HIDE DEF fin, drp
<1> QED BY <1>1, <1>3, <1>4, <1>5

\* A step that neither books a drain nor aborts keeps ReportInv if lost
\* events stay lost.
LEMMA ReportKept ==
    ASSUME TypeOK, TypeOK', ReportInv, before' = before, drain' = drain, cancelled' = cancelled,
           \A e \in Events : phase[e] \in Gone => phase'[e] \in Gone,
           \A e \in Events : phase[e] \in Unwinding \cup Left => phase'[e] \in Unwinding \cup Left
    PROVE  ReportInv'
<1>1. LostAlone \subseteq LostAlone' /\ IsFiniteSet(LostAlone')
  BY FS_Subset, DispatchAssumption DEF LostAlone
<1>2. Cardinality(LostAlone) <= Cardinality(LostAlone')
  BY <1>1, FS_Subset
<1>3. Cardinality(LostAlone) \in Nat /\ Cardinality(LostAlone') \in Nat
  BY <1>1, FS_Subset, FS_CardinalityType
<1>4. closing => before.dropped <= Cardinality(LostAlone')
  BY <1>2, <1>3 DEF ReportInv, Totals
<1>5. \A e \in cancelled' : phase'[e] \in Unwinding \cup Left
  BY DEF ReportInv, TypeOK
<1> QED BY <1>4, <1>5 DEF ReportInv, closing

LEMMA ReportStep == TypeOK /\ CountersExact /\ ReportInv /\ [Next]_vars => ReportInv'
<1> SUFFICES ASSUME TypeOK, CountersExact, ReportInv, [Next]_vars PROVE ReportInv'
  OBVIOUS
<1>0. TypeOK' /\ phase \in [Events -> Phases]
  BY TypeStep DEF TypeOK
<1>1. ASSUME NEW e \in Events, \/ enqueue(e) \/ PollOpen(e) \/ PollClosed(e) \/ LockTurn(e)
                               \/ AcquirePermit(e) \/ Start(e) \/ Return(e) \/ DropTicket(e)
                               \/ HandlerStep(e)
      PROVE  ReportInv'
  <2>1. before' = before /\ drain' = drain /\ cancelled' = cancelled
        /\ \A o \in Events : o # e => phase'[o] = phase[o]
    BY <1>0, <1>1 DEF enqueue, RefuseClosing, RefuseFull, Accept, PollOpen, PollClosed, LockTurn,
                 AcquirePermit, Start, Return, DropTicket, HandlerStep, Panic, Finish
  <2>2. \/ phase'[e] = phase[e]
        \/ phase[e] \in Unwinding /\ phase'[e] \in Left
        \/ phase[e] \notin Unwinding \cup Gone
    BY <1>0, <1>1 DEF enqueue, RefuseClosing, RefuseFull, Accept, PollOpen, PollClosed, LockTurn,
                 AcquirePermit, Start, Return, DropTicket, HandlerStep, Panic, Finish, Woken,
                 Unwinding, Left, Gone
  <2>3. /\ \A o \in Events : phase[o] \in Gone => phase'[o] \in Gone
        /\ \A o \in Events : phase[o] \in Unwinding \cup Left => phase'[o] \in Unwinding \cup Left
    BY <2>1, <2>2 DEF Unwinding, Left, Gone
  <2> QED BY <1>0, <2>1, <2>3, ReportKept
<1>2. ASSUME NEW e \in Events, Abort(e) PROVE ReportInv'
  <2>1. /\ drain = "aborting" /\ drain' = drain /\ before' = before
        /\ cancelled' = cancelled \cup {e}
        /\ phase[e] \in {"spawned", "parked", "running"} /\ phase'[e] \in Unwinding
        /\ \A o \in Events : o # e => phase'[o] = phase[o]
    BY <1>0, <1>2 DEF Abort, Unwinding
  <2>2. \A o \in cancelled' : phase'[o] \in Unwinding \cup Left
    BY <2>1 DEF ReportInv, TypeOK
  <2>3. LostAlone' = LostAlone
    BY <2>1 DEF LostAlone, Gone, Unwinding
  <2> QED BY <2>1, <2>2, <2>3 DEF ReportInv, closing
<1>3. CASE BeginDrain
  <2>1. /\ drain = "open" /\ drain' = "closing" /\ before' = totals
        /\ phase' = phase /\ cancelled' = cancelled
    BY <1>3 DEF BeginDrain
  <2>2. cancelled = {}
    BY <2>1 DEF ReportInv
  <2>3. LostAlone = InPhases(Gone) /\ LostAlone' = LostAlone
    BY <2>1, <2>2 DEF LostAlone, InPhases
  <2>4. IsFiniteSet(InPhases(Gone)) /\ IsFiniteSet(InPhases(Booked))
    BY FS_Subset, DispatchAssumption DEF InPhases
  <2>5. Cardinality(InPhases(Gone)) \in Nat /\ Cardinality(InPhases(Booked)) \in Nat
    BY <2>4, FS_CardinalityType
  <2>6. totals.finished \in Nat /\ totals.dropped \in Nat
        /\ totals.dropped = Cardinality(LostAlone)
    BY <2>3, <2>5, TotalsExact
  <2>7. totals = [finished |-> totals.finished, dropped |-> totals.dropped]
    BY DEF totals
  <2>8. totals \in Totals
    BY <2>6, <2>7 DEF Totals
  <2>9. before'.dropped <= Cardinality(LostAlone')
    BY <2>1, <2>3, <2>6
  <2> QED BY <2>1, <2>2, <2>8, <2>9 DEF ReportInv
<1>4. CASE \/ \E t \in Turns : spawn_turn(t) \/ TurnEnds(t) \/ AbortTurn(t)
           \/ DrainStep \/ UNCHANGED vars
  <2>1. /\ phase' = phase /\ cancelled' = cancelled /\ before' = before
        /\ \/ drain' = drain
           \/ drain = "closing" /\ drain' = "draining"
           \/ drain = "draining" /\ drain' = "aborting"
           \/ drain \in {"draining", "aborting"} /\ drain' = "returned"
    BY <1>4 DEF spawn_turn, TurnEnds, AbortTurn, DrainStep, TakeTurns, Deadline, DrainReturns, vars
  <2>2. LostAlone' = LostAlone
    BY <2>1 DEF LostAlone
  <2> QED BY <2>1, <2>2 DEF ReportInv, closing
<1> QED BY <1>1, <1>2, <1>3, <1>4 DEF Next, TaskStep

\* The report tells of every event: drain's differences and its saturating
\* subtraction lose nothing, for any number of loops and events and whatever
\* was refused, dropped, aborted or left unfinished.
THEOREM DispatchReportAddsUp == Spec => ReportAddsUp
<1>1. Init => ReportInv
  <2> SUFFICES ASSUME Init PROVE ReportInv
    OBVIOUS
  <2>1. before \in Totals /\ cancelled = {} /\ drain = "open"
    BY DEF Init, Totals
  <2> QED BY <2>1 DEF ReportInv, closing
<1>2. TypeOK /\ CountersExact /\ ReportInv /\ [Next]_vars => ReportInv'
  BY ReportStep
<1>3. TypeOK /\ CountersExact /\ ReportInv /\ [Next]_vars
        => [drain # "returned" /\ drain' = "returned" =>
              before.finished + before.dropped
                  + report'.finished + report'.dropped + report'.aborted
                = Cardinality({e \in Events : phase[e] # "new"})]_vars
  <2> SUFFICES ASSUME TypeOK, CountersExact, ReportInv, [Next]_vars,
                      drain # "returned", drain' = "returned"
               PROVE  before.finished + before.dropped
                        + report'.finished + report'.dropped + report'.aborted
                      = Cardinality({e \in Events : phase[e] # "new"})
    OBVIOUS
  <2>1. DrainReturns
    BY DEF Next, vars, enqueue, RefuseClosing, RefuseFull, Accept, TaskStep, PollOpen, PollClosed,
           LockTurn, AcquirePermit, Start, Return, DropTicket, Abort, HandlerStep, Panic, Finish,
           spawn_turn, TurnEnds, AbortTurn, BeginDrain, DrainStep, TakeTurns, Deadline
  <2>2. \A e \in Events : phase[e] \in {"new", "refused"} \cup Settled
    BY <2>1 DEF DrainReturns
  <2> DEFINE B == InPhases(Booked)
             G == InPhases(Gone)
  <2>3. IsFiniteSet(B) /\ IsFiniteSet(G) /\ IsFiniteSet(LostAlone) /\ IsFiniteSet(cancelled)
    BY FS_Subset, DispatchAssumption DEF InPhases, LostAlone, TypeOK
  <2>4. /\ Cardinality(B) \in Nat /\ Cardinality(G) \in Nat
        /\ Cardinality(LostAlone) \in Nat /\ Cardinality(cancelled) \in Nat
    BY <2>3, FS_CardinalityType
  <2>5. G = cancelled \cup LostAlone /\ cancelled \cap LostAlone = {}
    BY <2>2 DEF InPhases, LostAlone, ReportInv, TypeOK, Gone, Left, Settled, Unwinding
  <2>6. {e \in Events : phase[e] # "new"} = B \cup G /\ B \cap G = {}
    BY <2>2 DEF InPhases, Booked, Gone, Settled
  <2>7. ASSUME NEW X, NEW Y, IsFiniteSet(X), IsFiniteSet(Y), X \cap Y = {}
        PROVE  Cardinality(X \cup Y) = Cardinality(X) + Cardinality(Y)
    <3>1. Cardinality(X \cup Y) = Cardinality(X) + Cardinality(Y) - Cardinality(X \cap Y)
      BY <2>7, FS_Union
    <3>2. Cardinality(X \cap Y) = 0
      BY <2>7, FS_EmptySet
    <3>3. Cardinality(X) \in Nat /\ Cardinality(Y) \in Nat
      BY <2>7, FS_CardinalityType
    <3> QED BY <3>1, <3>2, <3>3
  <2>8. /\ Cardinality(G) = Cardinality(cancelled) + Cardinality(LostAlone)
        /\ Cardinality({e \in Events : phase[e] # "new"}) = Cardinality(B) + Cardinality(G)
    <3> HIDE DEF B, G
    <3> QED BY <2>3, <2>5, <2>6, <2>7
  <2>9. totals.finished = Cardinality(B) /\ totals.dropped = Cardinality(G)
    BY TotalsExact
  <2>10. before.finished \in Nat /\ before.dropped \in Nat
         /\ before.dropped <= Cardinality(LostAlone)
    BY <2>1 DEF ReportInv, Totals, closing, DrainReturns
  <2>11. /\ report'.finished = totals.finished - before.finished
         /\ report'.dropped = SaturatingSub(totals.dropped - before.dropped, Cardinality(cancelled))
         /\ report'.aborted = Cardinality(cancelled)
    BY <2>1 DEF DrainReturns
  <2>12. PICK b, g, c, o : /\ b = Cardinality(B) /\ g = Cardinality(G)
                           /\ c = Cardinality(cancelled) /\ o = Cardinality(LostAlone)
    OBVIOUS
  <2>13. /\ b \in Nat /\ g \in Nat /\ c \in Nat /\ o \in Nat /\ g = c + o
         /\ before.dropped <= o
         /\ report'.finished = b - before.finished /\ report'.aborted = c
         /\ report'.dropped = SaturatingSub(g - before.dropped, c)
    BY <2>4, <2>8, <2>9, <2>10, <2>11, <2>12
  <2>14. report'.dropped = g - before.dropped - c
    BY <2>10, <2>13 DEF SaturatingSub
  <2>15. before.finished + before.dropped + report'.finished + report'.dropped + report'.aborted
           = b + g
    BY <2>10, <2>13, <2>14
  <2> QED BY <2>8, <2>12, <2>15
<1> QED BY <1>1, <1>2, <1>3, DispatchTyped, DispatchCountersExact, PTL DEF Spec, ReportAddsUp
=============================================================================
