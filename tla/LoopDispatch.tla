---------------------------- MODULE LoopDispatch ----------------------------
(***************************************************************************)
(* The loop dispatch of one process: application/runtime/loops.rs.         *)
(*                                                                         *)
(* Every accepted loop event is one tokio task.  The task waits for its    *)
(* loop's FIFO mutex (`turn'), then for one of the process's in-flight     *)
(* permits (a FIFO semaphore), runs the handler, and books what happened   *)
(* in the loop's counters through a Ticket.  `drain' refuses new work,     *)
(* drops what waits, lets what runs finish until a deadline, aborts the    *)
(* rest and reports.  Orchestrator turns are owned by the same dispatch    *)
(* but have no queue and no cap.                                           *)
(*                                                                         *)
(* The runtime is multi-threaded (#[tokio::main], main.rs), so a task is   *)
(* polled in several steps and other tasks move between them: the biased   *)
(* select reads `closing' first and tries its locks after.                 *)
(***************************************************************************)
EXTENDS Integers, FiniteSets, FiniteSetsExt, Sequences, SequencesExt

CONSTANTS Loops,        \* the [decision_loops] of the process
          Events,       \* the events callers will submit, each once
          Turns,        \* the orchestrator turns callers will spawn, each once
          MaxInFlight,  \* [runtime] max_decisions_in_flight
          MaxQueued,    \* [runtime] max_queued_per_loop
          NoEvent       \* nobody holds the lock

ASSUME DispatchAssumption ==
    /\ IsFiniteSet(Loops) /\ IsFiniteSet(Events) /\ IsFiniteSet(Turns)
    /\ MaxInFlight \in Nat \ {0}
    /\ MaxQueued \in Nat \ {0}
    /\ NoEvent \notin Events

VARIABLES
    phase,     \* where each event's task is
    loopOf,    \* the loop each event was submitted to
    turnOf,    \* per loop: the event holding the `turn' mutex
    turnq,     \* per loop: the tasks queued on the mutex, FIFO
    permitOf,  \* the events holding an in-flight permit
    permitq,   \* the tasks queued on the semaphore, FIFO
    stats,     \* per loop: LoopStats (the counters; times and texts left out)
    cancelled, \* the tasks whose JoinError is `cancelled'
    turn,      \* where each orchestrator turn is
    drain,     \* where the shutdown is
    before,    \* the totals drain read when it began
    report     \* what drain returned

vars == <<phase, loopOf, turnOf, turnq, permitOf, permitq, stats,
          cancelled, turn, drain, before, report>>

locks == <<turnOf, turnq, permitOf, permitq>>

-----------------------------------------------------------------------------

\* Accepted, and the task has not started the handler nor begun to unwind.
\* "parked" has returned Pending; "polling" is inside a poll that saw
\* `closing' false.
Waiting == {"spawned", "parked", "polling"}

\* The task's guards are gone but its ticket is not: locals drop in reverse
\* order, so the permit and the turn go before the ticket books the event.
Unwinding == {"unwindQueued", "unwindRunning"}

\* The task has ended (and its `done' receiver is closed).
Settled == {"ended", "dropped", "aborted"}

\* "finished" has booked its result (ticket.finish) and not released its locks.
Phases == {"new", "refused", "running", "finished"}
              \cup Waiting \cup Unwinding \cup Settled

\* "done" (before the drain) and "doneInGrace" turns are still in their JoinSet,
\* "reaped" ones are not.
TurnPhases == {"new", "refused", "running", "done", "doneInGrace", "reaped",
               "aborted"}

\* "closing": `closing' is set and the events' JoinSet taken; the turns'
\* JoinSet is taken next ("draining"); "aborting" after the deadline.
DrainPhases == {"open", "closing", "draining", "aborting", "returned"}

closing == drain # "open"

LoopStats == [queued: Nat, in_flight: Nat, accepted: Nat, completed: Nat,
              failed: Nat, dropped: Nat]

ZeroStats == [queued |-> 0, in_flight |-> 0, accepted |-> 0, completed |-> 0,
              failed |-> 0, dropped |-> 0]

Totals == [finished: Nat, dropped: Nat]

DrainReport == [finished: Nat, dropped: Nat, aborted: Nat,
                turns_finished: Nat, turns_aborted: Nat]

ZeroReport == [finished |-> 0, dropped |-> 0, aborted |-> 0,
               turns_finished |-> 0, turns_aborted |-> 0]

SaturatingSub(a, b) == IF a >= b THEN a - b ELSE 0
\* The counters after each thing a Ticket books.
Queued(st) == [st EXCEPT !.accepted = @ + 1, !.queued = @ + 1]

Refuse(st) == [st EXCEPT !.dropped = @ + 1]

Started(st) == [st EXCEPT !.queued = SaturatingSub(@, 1), !.in_flight = @ + 1]

\* Mutant: the wrong counter goes down, without the saturation.
FinishedWrongCounter(st, ok) ==
    IF ok THEN [st EXCEPT !.queued = @ - 1, !.completed = @ + 1]
    ELSE [st EXCEPT !.queued = @ - 1, !.failed = @ + 1]

Finished(st, ok) ==
    IF ok THEN [st EXCEPT !.in_flight = SaturatingSub(@, 1), !.completed = @ + 1]
    ELSE [st EXCEPT !.in_flight = SaturatingSub(@, 1), !.failed = @ + 1]

\* Mutant: the ticket forgets that it was running.
DroppedAsQueued(st, running) ==
    [st EXCEPT !.queued = SaturatingSub(@, 1), !.dropped = @ + 1]

Dropped(st, running) ==
    IF running THEN [st EXCEPT !.in_flight = SaturatingSub(@, 1), !.dropped = @ + 1]
    ELSE [st EXCEPT !.queued = SaturatingSub(@, 1), !.dropped = @ + 1]

\* Mutant: failed events are forgotten.
TotalsWithoutFailed ==
    [finished |-> SumFunction([l \in Loops |-> stats[l].completed]),
     dropped  |-> SumFunction([l \in Loops |-> stats[l].dropped])]

totals ==
    [finished |-> SumFunction([l \in Loops |-> stats[l].completed + stats[l].failed]),
     dropped  |-> SumFunction([l \in Loops |-> stats[l].dropped])]

Init ==
    /\ phase = [e \in Events |-> "new"]
    /\ loopOf \in [Events -> Loops]
    /\ turnOf = [l \in Loops |-> NoEvent]
    /\ turnq = [l \in Loops |-> <<>>]
    /\ permitOf = {}
    /\ permitq = <<>>
    /\ stats = [l \in Loops |-> ZeroStats]
    /\ cancelled = {}
    /\ turn = [t \in Turns |-> "new"]
    /\ drain = "open"
    /\ before = [finished |-> 0, dropped |-> 0]
    /\ report = ZeroReport

-----------------------------------------------------------------------------
(* enqueue: one critical section of the `tasks' lock.                      *)

RefuseClosing(e) ==
    /\ phase[e] = "new"
    /\ closing
    /\ phase' = [phase EXCEPT ![e] = "refused"]
    /\ stats' = [stats EXCEPT ![loopOf[e]] = Refuse(@)]
    /\ UNCHANGED <<loopOf, locks, cancelled, turn, drain, before, report>>

RefuseFull(e) ==
    /\ phase[e] = "new"
    /\ ~closing
    /\ stats[loopOf[e]].queued >= MaxQueued
    /\ phase' = [phase EXCEPT ![e] = "refused"]
    /\ stats' = [stats EXCEPT ![loopOf[e]] = Refuse(@)]
    /\ UNCHANGED <<loopOf, locks, cancelled, turn, drain, before, report>>
\* Mutant: the queue check is off by one.
AcceptOneMore(e) ==
    LET l == loopOf[e] IN
    /\ phase[e] = "new"
    /\ ~closing
    /\ stats[l].queued <= MaxQueued
    /\ phase' = [phase EXCEPT ![e] = "spawned"]
    /\ stats' = [stats EXCEPT ![l] = Queued(@)]
    /\ UNCHANGED <<loopOf, locks, cancelled, turn, drain, before, report>>

Accept(e) ==
    LET l == loopOf[e] IN
    /\ phase[e] = "new"
    /\ ~closing
    /\ stats[l].queued < MaxQueued
    /\ phase' = [phase EXCEPT ![e] = "spawned"]
    /\ stats' = [stats EXCEPT ![l] = Queued(@)]
    /\ UNCHANGED <<loopOf, locks, cancelled, turn, drain, before, report>>

enqueue(e) == RefuseClosing(e) \/ RefuseFull(e) \/ Accept(e)

-----------------------------------------------------------------------------
(* The locks.  Tokio hands a released lock to the head of its queue before *)
(* the woken task is polled; a queued task that goes away leaves its place.*)

Without(q, e) == IF \E i \in 1..Len(q) : q[i] = e
                 THEN RemoveAt(q, CHOOSE i \in 1..Len(q) : q[i] = e)
                 ELSE q

\* Drop e's guards, or its places in the queues.
ReleaseAll(e) ==
    LET l == loopOf[e] IN
    /\ IF turnOf[l] # e
       THEN /\ turnq' = [turnq EXCEPT ![l] = Without(@, e)]
            /\ UNCHANGED turnOf
       ELSE IF turnq[l] = <<>>
       THEN /\ turnOf' = [turnOf EXCEPT ![l] = NoEvent]
            /\ UNCHANGED turnq
       ELSE /\ turnOf' = [turnOf EXCEPT ![l] = Head(turnq[l])]
            /\ turnq' = [turnq EXCEPT ![l] = Tail(@)]
    /\ IF e \notin permitOf
       THEN /\ permitq' = Without(permitq, e)
            /\ UNCHANGED permitOf
       ELSE IF permitq = <<>>
       THEN /\ permitOf' = permitOf \ {e}
            /\ UNCHANGED permitq
       ELSE /\ permitOf' = (permitOf \ {e}) \cup {Head(permitq)}
            /\ permitq' = Tail(permitq)

\* The task is scheduled: never polled yet, or a lock it queued for is its.
Woken(e) ==
    \/ phase[e] = "spawned"
    \/ /\ phase[e] = "parked"
       /\ turnOf[loopOf[e]] = e
       /\ \A i \in 1..Len(permitq) : permitq[i] # e

-----------------------------------------------------------------------------
(* One event's task.                                                       *)
\* Mutant: the select is not biased, the locks may win over `closing'.
PollUnbiased(e) ==
    /\ Woken(e)
    /\ phase' = [phase EXCEPT ![e] = "polling"]
    /\ UNCHANGED <<loopOf, locks, stats, cancelled, turn, drain, before, report>>

\* A poll begins and the select's first branch finds `closing' false.
PollOpen(e) ==
    /\ Woken(e)
    /\ ~closing
    /\ phase' = [phase EXCEPT ![e] = "polling"]
    /\ UNCHANGED <<loopOf, locks, stats, cancelled, turn, drain, before, report>>
\* Mutant: the task returns and its lock future lives on in the queues.
PollClosedKeepsPlace(e) ==
    /\ phase[e] \in {"spawned", "parked"}
    /\ drain \in {"closing", "draining"}
    /\ phase' = [phase EXCEPT ![e] = "unwindQueued"]
    /\ UNCHANGED <<locks, loopOf, stats, cancelled, turn, drain, before, report>>

\* A poll begins and finds `closing' true (the watch wakes every waiter): the
\* select drops the lock future, and the task returns without running.  After
\* abort_all an idle task is cancelled instead of polled.
PollClosed(e) ==
    /\ phase[e] \in {"spawned", "parked"}
    /\ drain \in {"closing", "draining"}
    /\ phase' = [phase EXCEPT ![e] = "unwindQueued"]
    /\ ReleaseAll(e)
    /\ UNCHANGED <<loopOf, stats, cancelled, turn, drain, before, report>>

\* slot.turn.lock_owned(): take the mutex, or queue for it and park.
LockTurn(e) ==
    LET l == loopOf[e] IN
    /\ phase[e] = "polling"
    /\ turnOf[l] # e
    /\ IF turnOf[l] = NoEvent
       THEN /\ turnOf' = [turnOf EXCEPT ![l] = e]
            /\ UNCHANGED <<phase, turnq>>
       ELSE /\ turnq' = [turnq EXCEPT ![l] = Append(@, e)]
            /\ phase' = [phase EXCEPT ![e] = "parked"]
            /\ UNCHANGED turnOf
    /\ UNCHANGED <<loopOf, permitOf, permitq, stats, cancelled, turn,
                   drain, before, report>>
\* permits.acquire_owned(), with the turn held.
AcquirePermit(e) ==
    /\ phase[e] = "polling"
    /\ turnOf[loopOf[e]] = e
    /\ e \notin permitOf
    /\ IF Cardinality(permitOf) < MaxInFlight
       THEN /\ permitOf' = permitOf \cup {e}
            /\ UNCHANGED <<phase, permitq>>
       ELSE /\ permitq' = Append(permitq, e)
            /\ phase' = [phase EXCEPT ![e] = "parked"]
            /\ UNCHANGED permitOf
    /\ UNCHANGED <<loopOf, turnOf, turnq, stats, cancelled, turn,
                   drain, before, report>>
\* Mutant: the guards are not bound, so they drop before the handler runs.
StartUnguarded(e) ==
    LET l == loopOf[e] IN
    /\ phase[e] = "polling"
    /\ turnOf[l] = e
    /\ e \in permitOf
    /\ phase' = [phase EXCEPT ![e] = "running"]
    /\ stats' = [stats EXCEPT ![l] = Started(@)]
    /\ ReleaseAll(e)
    /\ UNCHANGED <<loopOf, cancelled, turn, drain, before, report>>

\* Ticket::start, and the handler is called in the same poll.
Start(e) ==
    LET l == loopOf[e] IN
    /\ phase[e] = "polling"
    /\ turnOf[l] = e
    /\ e \in permitOf
    /\ phase' = [phase EXCEPT ![e] = "running"]
    /\ stats' = [stats EXCEPT ![l] = Started(@)]
    /\ UNCHANGED <<loopOf, locks, cancelled, turn, drain, before, report>>
\* The handler returned; Ticket::finish books the result, the locks are
\* still held.
Finish(e, ok) ==
    LET l == loopOf[e] IN
    /\ phase[e] = "running"
    /\ phase' = [phase EXCEPT ![e] = "finished"]
    /\ stats' = [stats EXCEPT ![l] = Finished(@, ok)]
    /\ UNCHANGED <<loopOf, locks, cancelled, turn, drain, before, report>>
\* Mutant: the guards are leaked.
ReturnWithLocks(e) ==
    /\ phase[e] = "finished"
    /\ phase' = [phase EXCEPT ![e] = "ended"]
    /\ UNCHANGED <<locks, loopOf, stats, cancelled, turn, drain, before, report>>

\* The task returns: permit, turn and the (done) ticket are dropped.
Return(e) ==
    /\ phase[e] = "finished"
    /\ phase' = [phase EXCEPT ![e] = "ended"]
    /\ ReleaseAll(e)
    /\ UNCHANGED <<loopOf, stats, cancelled, turn, drain, before, report>>

\* The handler panics: tokio catches it at the task's edge, the locals unwind.
Panic(e) ==
    /\ phase[e] = "running"
    /\ phase' = [phase EXCEPT ![e] = "unwindRunning"]
    /\ ReleaseAll(e)
    /\ UNCHANGED <<loopOf, stats, cancelled, turn, drain, before, report>>
\* drop(Ticket) of an event that never finished: the task is gone with it.
DropTicket(e) ==
    LET l == loopOf[e] IN
    /\ phase[e] \in Unwinding
    /\ phase' = [phase EXCEPT ![e] = IF @ = "unwindRunning" THEN "aborted"
                                     ELSE "dropped"]
    /\ stats' = [stats EXCEPT ![l] = Dropped(@, phase[e] = "unwindRunning")]
    /\ UNCHANGED <<loopOf, locks, cancelled, turn, drain, before, report>>

-----------------------------------------------------------------------------
(* Orchestrator turns (Turns::spawn), and the shutdown.                    *)

Reap == [t \in Turns |-> IF turn[t] \in {"done", "doneInGrace"} THEN "reaped"
                         ELSE turn[t]]
\* Mutant: the turns' set is never closed.
SpawnTurnAlways(t) ==
    /\ turn[t] = "new"
    /\ turn' = [Reap EXCEPT ![t] = "running"]
    /\ UNCHANGED <<phase, loopOf, locks, stats, cancelled, drain, before, report>>

\* Finished turns leave the JoinSet only here (try_join_next), when the next
\* one is spawned.
spawn_turn(t) ==
    /\ turn[t] = "new"
    /\ turn' = IF drain \in {"open", "closing"}
               THEN [Reap EXCEPT ![t] = "running"]
               ELSE [turn EXCEPT ![t] = "refused"]
    /\ UNCHANGED <<phase, loopOf, locks, stats, cancelled, drain, before, report>>

TurnEnds(t) ==
    /\ turn[t] = "running"
    /\ turn' = [turn EXCEPT ![t] = IF closing THEN "doneInGrace" ELSE "done"]
    /\ UNCHANGED <<phase, loopOf, locks, stats, cancelled, drain, before, report>>

\* drain, up to the end of its critical section.
BeginDrain ==
    /\ drain = "open"
    /\ drain' = "closing"
    /\ before' = totals
    /\ UNCHANGED <<phase, loopOf, locks, stats, cancelled, turn, report>>

\* Turns::drain takes the turns' JoinSet: further turns are refused.
TakeTurns ==
    /\ drain = "closing"
    /\ drain' = "draining"
    /\ UNCHANGED <<phase, loopOf, locks, stats, cancelled, turn, before, report>>

\* drain_until's timeout: abort_all.
Deadline ==
    /\ drain = "draining"
    /\ drain' = "aborting"
    /\ UNCHANGED <<phase, loopOf, locks, stats, cancelled, turn, before, report>>
\* Mutant: only what waits is aborted, a running handler is awaited for ever.
AbortWaiting(e) ==
    /\ drain = "aborting"
    /\ phase[e] \in {"spawned", "parked"}
    /\ cancelled' = cancelled \cup {e}
    /\ phase' = [phase EXCEPT ![e] = "unwindQueued"]
    /\ ReleaseAll(e)
    /\ UNCHANGED <<loopOf, stats, turn, drain, before, report>>

\* An aborted task is cancelled at an await point: its future is dropped.
Abort(e) ==
    /\ drain = "aborting"
    /\ phase[e] \in {"spawned", "parked", "running"}
    /\ cancelled' = cancelled \cup {e}
    /\ phase' = [phase EXCEPT ![e] = IF @ = "running" THEN "unwindRunning"
                                     ELSE "unwindQueued"]
    /\ ReleaseAll(e)
    /\ UNCHANGED <<loopOf, stats, turn, drain, before, report>>

AbortTurn(t) ==
    /\ drain = "aborting"
    /\ turn[t] = "running"
    /\ turn' = [turn EXCEPT ![t] = "aborted"]
    /\ UNCHANGED <<phase, loopOf, locks, stats, cancelled, drain, before, report>>

TurnsIn(ps) == {t \in Turns : turn[t] \in ps}

\* Both JoinSets are empty: drain reads the totals again and returns.
DrainReturns ==
    /\ drain \in {"draining", "aborting"}
    /\ \A e \in Events : phase[e] \in {"new", "refused"} \cup Settled
    /\ TurnsIn({"running"}) = {}
    /\ drain' = "returned"
    /\ LET aborted == Cardinality(cancelled) IN
       report' = [finished |-> totals.finished - before.finished,
                  dropped |-> SaturatingSub(totals.dropped - before.dropped, aborted),
                  aborted |-> aborted,
                  turns_finished |-> Cardinality(TurnsIn({"done", "doneInGrace"})),
                  turns_aborted |-> Cardinality(TurnsIn({"aborted"}))]
    /\ UNCHANGED <<phase, loopOf, locks, stats, cancelled, turn, before>>

-----------------------------------------------------------------------------

\* What the runtime does for a task once it is scheduled.
TaskStep(e) ==
    \/ PollOpen(e) \/ PollClosed(e) \/ LockTurn(e) \/ AcquirePermit(e)
    \/ Start(e) \/ Return(e) \/ DropTicket(e) \/ Abort(e)

\* What the handler does.
HandlerStep(e) == Panic(e) \/ \E ok \in BOOLEAN : Finish(e, ok)

DrainStep == TakeTurns \/ Deadline \/ DrainReturns

Next ==
    \/ \E e \in Events : enqueue(e) \/ TaskStep(e) \/ HandlerStep(e)
    \/ \E t \in Turns : spawn_turn(t) \/ TurnEnds(t) \/ AbortTurn(t)
    \/ BeginDrain
    \/ DrainStep

\* The scheduler polls what is woken, timers fire, aborted tasks are dropped
\* at their await point.  Nothing is assumed of callers or of handlers.
Fairness ==
    /\ \A e \in Events : WF_vars(TaskStep(e))
    /\ \A t \in Turns : WF_vars(AbortTurn(t))
    /\ WF_vars(DrainStep)

Spec == Init /\ [][Next]_vars /\ Fairness

-----------------------------------------------------------------------------
(* Properties.                                                             *)

EventsIn(l, ps) == {e \in Events : loopOf[e] = l /\ phase[e] \in ps}

\* Every variable has its type; a counter that wrapped or a queue holding a
\* stranger (Slot, LoopStats, Turns) would leave it.
TypeOK ==
    /\ phase \in [Events -> Phases]
    /\ loopOf \in [Events -> Loops]
    /\ turnOf \in [Loops -> Events \cup {NoEvent}]
    /\ turnq \in [Loops -> Seq(Events)]
    /\ permitOf \subseteq Events
    /\ permitq \in Seq(Events)
    /\ stats \in [Loops -> LoopStats]
    /\ cancelled \subseteq Events
    /\ turn \in [Turns -> TurnPhases]
    /\ drain \in DrainPhases

\* "one event at a time per loop": two handlers of a loop never run at once,
\* whatever order tasks are polled, dropped, aborted or unwound in.
OneAtATime ==
    \A l \in Loops : Cardinality(EventsIn(l, {"running", "finished"})) <= 1

\* "<= max_decisions_in_flight running across loops".
InFlightCap ==
    Cardinality({e \in Events : phase[e] \in {"running", "finished"}})
        <= MaxInFlight

\* Both: no handler of a loop overlaps another's, and no more run than the
\* semaphore allows.
Excludes == OneAtATime /\ InFlightCap

\* "<= max_queued_per_loop waiting per loop": the check and Ticket::queue are
\* one critical section, so concurrent submits never overshoot.
QueueBound == \A l \in Loops : stats[l].queued <= MaxQueued

\* The counters the heartbeat and the trace publish are the truth about the
\* tickets: every event accepted or refused is in exactly one of them, and
\* the saturating subtractions never saturate.
CountersExact ==
    \A l \in Loops :
        /\ stats[l].queued = Cardinality(EventsIn(l, Waiting \cup {"unwindQueued"}))
        /\ stats[l].in_flight = Cardinality(EventsIn(l, {"running", "unwindRunning"}))
        /\ stats[l].completed + stats[l].failed
             = Cardinality(EventsIn(l, {"finished", "ended"}))
        /\ stats[l].dropped
             = Cardinality(EventsIn(l, {"refused", "dropped", "aborted"}))
        /\ stats[l].accepted = stats[l].queued + stats[l].in_flight
             + stats[l].completed + stats[l].failed
             + Cardinality(EventsIn(l, {"dropped", "aborted"}))

\* A task that is gone, or on its way out, holds no lock and no place in a
\* queue: one that did would block its loop (or a permit) for ever.
NoOrphanLock ==
    \A e \in Events : phase[e] \in {"new", "refused"} \cup Unwinding \cup Settled =>
        /\ turnOf[loopOf[e]] # e
        /\ e \notin permitOf
        /\ \A l \in Loops : ~Contains(turnq[l], e)
        /\ ~Contains(permitq, e)

\* "queued ones dropped": an event that waits outside a poll when the drain
\* has begun never starts (only one whose poll already read `closing' may).
QueuedNeverStart ==
    [][\A e \in Events : closing /\ phase[e] \in {"spawned", "parked"}
         => phase'[e] \in {"spawned", "parked", "unwindQueued"}]_vars

\* drain returns with nothing left behind: no task of an accepted event and
\* no orchestrator turn outlives it, and none can be spawned after it (the
\* callers release their leases next).
QuietAfterDrain ==
    drain = "returned" =>
        /\ \A e \in Events : phase[e] \in {"new", "refused"} \cup Settled
        /\ TurnsIn({"running"}) = {}

\* The report adds up: what drain says it finished, dropped and aborted is
\* every event that was alive when it began plus every one refused since, so
\* the saturating subtraction hides nothing.
ReportAddsUp ==
    [][drain # "returned" /\ drain' = "returned" =>
         before.finished + before.dropped
             + report'.finished + report'.dropped + report'.aborted
           = Cardinality({e \in Events : phase[e] # "new"})]_vars

\* Shutdown ends: handlers and turns may hang, the deadline aborts them.
DrainEnds == closing ~> drain = "returned"

\* No event starves: if handlers return, every accepted event is run or
\* dropped in the end, whatever else is submitted (FIFO locks, no lost wakeup).
EventsSettle ==
    (\A e \in Events : phase[e] = "running" ~> phase[e] # "running")
        => \A e \in Events : phase[e] = "spawned" ~> phase[e] \in Settled
=============================================================================
