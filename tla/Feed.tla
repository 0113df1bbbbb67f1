-------------------------------- MODULE Feed --------------------------------
(***************************************************************************)
(* One `[feeds.<n>]' of `tengu run' (application/runtime/feeds.rs): when   *)
(* it fires (domain/schedule.rs), what a failed run leads to               *)
(* (domain/backoff.rs), its ticks to a decision loop, and the health row   *)
(* it keeps (application/runtime/health.rs, domain/runtime.rs FeedHealth). *)
(*                                                                         *)
(* Times are kept relative to the clock: an instant is its distance from   *)
(* now, and the schedule repeats, so the clock needs no bound and the      *)
(* state space stays finite.  A distance further back than the code can    *)
(* tell apart is clamped.                                                  *)
(***************************************************************************)
EXTENDS Integers, FiniteSets, FiniteSetsExt

CONSTANTS Kinds,      \* what the feed may be: "tool" (tools and jobs), "tick"
          Calls,      \* the fan-out entries of a tool feed
          Schedule,   \* the fires of one period: "at", "grid" or "none" per instant
          Every,      \* interval of the grid
          Jitter,     \* jitter_pct of it
          AtGrace,    \* MIN_GRACE_MS
          Window,     \* AT_RETRY_WINDOW_MS
          Cap,        \* longest retry delay
          MaxPark,    \* bound: longest park
          StaleAfter, \* stale_after_s
          Ahead,      \* bound: how far the wall clock jumps forward
          Back,       \* bound: how far it steps back
          MaxJumps,   \* bound: jumps in a behaviour
          None

Period == Cardinality(DOMAIN Schedule)

\* PendingRetry and Next.
RetryRec(instants, waits) ==
    [slot: instants, at: waits, atTick: BOOLEAN, calls: (SUBSET Calls) \ {{}}]
NextRec(instants) ==
    [at: instants, slot: instants, fresh: BOOLEAN, grace: Nat,
     calls: (SUBSET Calls) \ {{}}, atTick: BOOLEAN]

ASSUME FeedAssumption ==
    /\ Kinds \subseteq {"tool", "tick"}
    /\ Period \in Nat \ {0}
    /\ Schedule \in [0..(Period - 1) -> {"at", "grid", "none"}]
    /\ \E k \in DOMAIN Schedule : Schedule[k] # "none"
    /\ IsFiniteSet(Calls) /\ Calls # {}
    /\ {Every, Jitter, AtGrace, Window, Cap, MaxPark, StaleAfter, Ahead, Back,
        MaxJumps} \subseteq Nat
    /\ None \notin Int /\ None \notin RetryRec(Int, Int) /\ None \notin NextRec(Int)

VARIABLES
    kind,    \* what this feed is
    phase,   \* the clock, within the period
    pc,      \* where run_feed stands
    last,    \* last_slot_ms
    gate,    \* gate_ms
    retry,   \* the PendingRetry
    next,    \* the Next it naps for or acts on
    left,    \* calls of the run that have not ended
    failed,  \* failed calls of the run, with their classes
    ok,      \* a call of the run ended well
    tick,    \* tick_done: the previous tick's event
    health,  \* FeedHealth.state
    item,    \* last_item_at_ms (else started_at_ms)
    up,      \* the service answers; the loop takes and ends its events
    stop,    \* the stop signal fired
    jumps,   \* jumps of the clock so far
    owed     \* history: calls the last at-tick slot still owes in its window

runVars == <<left, failed, ok>>
healthVars == <<health, item>>
envVars == <<up, stop, jumps>>
vars == <<kind, phase, pc, last, gate, retry, next, runVars, tick, healthVars,
          envVars, owed>>

-----------------------------------------------------------------------------
(* Instants, relative to now.                                              *)

Never == None

\* How far the clock steps back in a behaviour.
StepsBack == MaxJumps * Back

\* Instant x when the clock has moved by k: clamped where nothing but its
\* being past is compared, less the steps back, and `window' more.
Shift(x, k, window) ==
    IF x = Never THEN Never ELSE Max({x - k, -(StepsBack + window + 1)})

Graces == Max({Every, AtGrace})

\* Every instant when the clock moves by k.
Moved(k) ==
    /\ phase' = (phase + k) % Period
    /\ last' = Shift(last, k, 0)
    /\ gate' = Shift(gate, k, 0)
    /\ retry' = IF retry = None THEN None
                ELSE [retry EXCEPT !.slot = Shift(@, k, Window), !.at = Shift(@, k, 0)]
    /\ next' = IF next = None THEN None
               ELSE [next EXCEPT !.slot = Shift(@, k, Window), !.at = Shift(@, k, Graces)]
    /\ item' = Shift(item, k, StaleAfter)

FireAt(d) == Schedule[(phase + d) % Period]

\* next_fire(schedule, from, last): the earliest fire at or after `from' and
\* strictly after the last slot; a last slot after `from' counts as `from'.
NextFire(from) ==
    LET seen == IF last = Never THEN from - 1 ELSE IF last > from THEN from ELSE last
        t == Max({from, seen + 1}) IN
    CHOOSE d \in t..(t + Period - 1) :
        FireAt(d) # "none" /\ \A e \in t..(d - 1) : FireAt(e) = "none"

\* Mutant: a park holds back only the retry.
FromNowOnly == 0

\* max(now, gate): no slot before the park is over.
From == IF gate = Never THEN 0 ELSE Max({0, gate})

\* late_grace_ms; a retry and the start run are never late (i64::MAX).
Grace(fire) == IF fire = "grid" THEN Graces ELSE AtGrace
Forever == Graces + StepsBack + 1

-----------------------------------------------------------------------------
(* FeedHealth.                                                             *)

\* refresh: a quiet live feed is stalled.
Refreshed(h) == IF h = "live" /\ -item > StaleAfter THEN "stalled" ELSE h

\* The row after a run: its error first, then its items.
Reported(error, items) ==
    /\ health' = IF items THEN "live" ELSE IF error = "none" THEN health ELSE error
    /\ item' = IF items THEN 0 ELSE item

DropReported == health' = Refreshed(health) /\ UNCHANGED item

\* heartbeat_task: one beat.
Beat ==
    /\ ~stop
    /\ health' = Refreshed(health)
    /\ UNCHANGED <<kind, phase, pc, last, gate, retry, next, runVars, tick, item,
                   envVars, owed>>

-----------------------------------------------------------------------------

Init ==
    /\ kind \in Kinds
    /\ phase \in DOMAIN Schedule
    /\ pc \in {"start", "next"}          \* run_on_start, or not
    /\ last = Never /\ gate = Never /\ retry = None /\ next = None
    /\ left = {} /\ failed = {} /\ ok = FALSE
    /\ tick = "none"
    /\ health = "connecting" /\ item = 0
    /\ up \in BOOLEAN /\ stop = FALSE /\ jumps = 0
    /\ owed = {}

\* run_on_start: a slot now; at-tick rules when the schedule has no grid.
Start ==
    /\ pc = "start"
    /\ ~stop
    /\ next' = [at |-> 0, slot |-> 0, fresh |-> TRUE, grace |-> Forever, calls |-> Calls,
                atTick |-> \A k \in DOMAIN Schedule : Schedule[k] # "grid"]
    /\ pc' = "nap"
    /\ UNCHANGED <<kind, phase, last, gate, retry, runVars, tick, healthVars,
                   envVars, owed>>

\* FeedRunner::next: the pending retry when it comes before the next slot,
\* else that slot.
Plan ==
    LET d == NextFire(From) IN
    /\ pc = "next"
    /\ ~stop
    /\ IF retry # None /\ retry.at < d
       THEN next' = [at |-> retry.at, slot |-> retry.slot, fresh |-> FALSE,
                     grace |-> Forever, calls |-> retry.calls, atTick |-> retry.atTick]
       ELSE \E j \in 0..(IF FireAt(d) = "grid" THEN Jitter ELSE 0) :
                next' = [at |-> d + j, slot |-> d, fresh |-> TRUE, grace |-> Grace(FireAt(d)),
                         calls |-> Calls, atTick |-> FireAt(d) = "at"]
    /\ pc' = "nap"
    /\ UNCHANGED <<kind, phase, last, gate, retry, runVars, tick, healthVars,
                   envVars, owed>>

\* The nap is over: FeedRunner::run begins.  Any run drops the pending
\* retry; a slot becomes the last one.
Wakes ==
    /\ pc = "nap"
    /\ ~stop
    /\ next.at <= 0
    /\ retry' = None
    /\ last' = IF next.fresh THEN next.slot ELSE last
    /\ owed' = IF next.fresh THEN {} ELSE owed
    /\ UNCHANGED <<kind, phase, gate, envVars>>

TooLate == next.fresh /\ -next.at > next.grace

\* Reached too late: skipped.
SkipLate ==
    /\ Wakes
    /\ TooLate
    /\ pc' = "next" /\ next' = None
    /\ DropReported
    /\ UNCHANGED <<runVars, tick>>

\* run_tool, run_job: the calls begin.
BeginRun ==
    /\ Wakes
    /\ ~TooLate
    /\ kind = "tool"
    /\ pc' = "run"
    /\ left' = next.calls /\ failed' = {} /\ ok' = FALSE
    /\ UNCHANGED <<next, tick, healthVars>>

\* Mutant: only a value on the channel counts as done.
TickRunningUnlessSent == tick \in {"waiting", "closed"}

\* The receiver is empty: the event is queued or running.
TickRunning == tick = "waiting"

\* run_tick: not sent while the previous event is queued or running.
SkipTick ==
    /\ Wakes
    /\ ~TooLate
    /\ kind = "tick"
    /\ TickRunning
    /\ DropReported
    /\ pc' = "next" /\ next' = None
    /\ UNCHANGED <<runVars, tick>>

\* submit_tracked takes the event.
SendTick ==
    /\ Wakes
    /\ ~TooLate
    /\ kind = "tick"
    /\ ~TickRunning
    /\ tick' = "waiting"
    /\ Reported("none", TRUE)
    /\ pc' = "next" /\ next' = None
    /\ UNCHANGED runVars

\* submit_tracked refuses: queue full (dropped), shutting down (nothing) or
\* no such loop (down).
RefuseTick ==
    /\ Wakes
    /\ ~TooLate
    /\ kind = "tick"
    /\ ~TickRunning
    /\ ~up
    /\ DropReported \/ UNCHANGED healthVars \/ Reported("down", FALSE)
    /\ pc' = "next" /\ next' = None
    /\ UNCHANGED <<runVars, tick>>

\* The dispatch is done with the event: finished, failed, dropped or
\* aborted, its ticket closes the channel.
TickDone ==
    /\ tick = "waiting"
    /\ tick' = "closed"
    /\ UNCHANGED <<kind, phase, pc, last, gate, retry, next, runVars, healthVars,
                   envVars, owed>>

-----------------------------------------------------------------------------
(* A run's calls and settle.                                               *)

Classes == {"quota", "limited", "transient", "fatal"}

\* retry_rank: quota, rate limit, then timeout and transient; the others
\* (auth, fatal, decode, not applicable) have none.
Rank(class) ==
    CASE class = "quota" -> 3 [] class = "limited" -> 2 [] class = "transient" -> 1
      [] class = "fatal" -> 0

CallOk(c) ==
    /\ pc = "run"
    /\ c \in left
    /\ left' = left \ {c}
    /\ ok' = TRUE
    /\ owed' = owed \ {c}
    /\ UNCHANGED <<kind, phase, pc, last, gate, retry, next, failed, tick, healthVars,
                   envVars>>

CallFails(c, class) ==
    /\ pc = "run"
    /\ ~up
    /\ c \in left
    /\ left' = left \ {c}
    /\ failed' = failed \cup {[call |-> c, class |-> class]}
    /\ UNCHANGED <<kind, phase, pc, last, gate, retry, next, ok, tick, healthVars,
                   envVars, owed>>

\* Not started: the stop came first.
CallSkipped(c) ==
    /\ pc = "run"
    /\ stop
    /\ c \in left
    /\ left' = left \ {c}
    /\ UNCHANGED <<kind, phase, pc, last, gate, retry, next, failed, ok, tick,
                   healthVars, envVars, owed>>

\* An at-tick slot inside its window retries every failed call.
InWindow == next.atTick /\ -next.slot < Window

\* Mutant: the class alone decides.
RetryableByClass == {f \in failed : Rank(f.class) > 0}

Retryable == {f \in failed : InWindow \/ Rank(f.class) > 0}

CallsOf(fs) == {f.call : f \in fs}

\* Mutant: the server's Retry-After comes on top of the quota's park.
DelaysAdded ==
    IF Max({Rank(f.class) : f \in Retryable}) = 3
    THEN {[ms |-> d + e, park |-> TRUE] : d \in 1..MaxPark, e \in 1..MaxPark}
    ELSE {[ms |-> d, park |-> FALSE] : d \in 1..Cap}

\* next_delay of the most conservative failure: quota parks, a rate limit
\* retries or, past the cap, parks, the rest retries.
Delays ==
    LET lead == Max({Rank(f.class) : f \in Retryable}) IN
    (IF lead < 3 THEN {[ms |-> d, park |-> FALSE] : d \in 1..Cap} ELSE {}) \cup
    (IF lead = 3 THEN {[ms |-> d, park |-> TRUE] : d \in 1..MaxPark} ELSE {}) \cup
    (IF lead = 2 THEN {[ms |-> d, park |-> TRUE] : d \in (Cap + 1)..MaxPark} ELSE {})

Settled ==
    /\ pc = "run"
    /\ left = {}
    /\ pc' = "next" /\ next' = None
    /\ failed' = {} /\ ok' = FALSE
    /\ UNCHANGED <<kind, phase, last, left, tick, envVars>>

\* Some failure is retried: after the delay, or parked until then.
SettleRetries ==
    /\ Settled
    /\ Retryable # {}
    /\ \E d \in Delays :
         /\ gate' = IF d.park THEN d.ms ELSE Never
         /\ retry' = [slot |-> next.slot, calls |-> CallsOf(Retryable), at |-> d.ms,
                      atTick |-> next.atTick]
    /\ Reported("backoff", ok)
    /\ owed' = IF InWindow THEN CallsOf(failed) ELSE {}

\* Nothing to retry: the next slot tries again.
SettleDone ==
    /\ Settled
    /\ Retryable = {}
    /\ gate' = Never
    /\ Reported(IF failed = {} THEN "none" ELSE "down", ok)
    /\ owed' = {}
    /\ UNCHANGED retry

-----------------------------------------------------------------------------
(* The stop, the service, the clock.                                       *)

Stop ==
    /\ ~stop
    /\ stop' = TRUE
    /\ UNCHANGED <<kind, phase, pc, last, gate, retry, next, runVars, tick,
                   healthVars, up, jumps, owed>>

\* run_feed returns at its next look at the signal.
Return ==
    /\ stop
    /\ pc \in {"start", "next", "nap"}
    /\ pc' = "stopped" /\ next' = None /\ retry' = None /\ owed' = {}
    /\ UNCHANGED <<kind, phase, last, gate, runVars, tick, healthVars, envVars>>

Service ==
    /\ up' = ~up
    /\ UNCHANGED <<kind, phase, pc, last, gate, retry, next, runVars, tick,
                   healthVars, stop, jumps, owed>>

\* Tokio polls the feed at once when it can go on: only a run, a nap, a
\* sleeping host or a set clock takes time.
Due ==
    \/ pc \in {"start", "next"}
    \/ pc = "nap" /\ (stop \/ next.at <= 0)
    \/ pc = "run" /\ left = {}

Tick ==
    /\ ~Due
    /\ Moved(1)
    /\ UNCHANGED <<kind, pc, runVars, tick, health, envVars, owed>>

\* The host slept, or the wall clock was set.
Jump ==
    /\ jumps < MaxJumps
    /\ jumps' = jumps + 1
    /\ Moved(Ahead) \/ Moved(-Back)
    /\ UNCHANGED <<kind, pc, runVars, tick, health, up, stop, owed>>

-----------------------------------------------------------------------------

FeedStep ==
    \/ Start \/ Plan \/ SkipLate \/ BeginRun \/ SkipTick \/ SendTick \/ RefuseTick
    \/ SettleRetries \/ SettleDone \/ Return

CallEnds(c) == CallOk(c) \/ CallSkipped(c) \/ \E k \in Classes : CallFails(c, k)

Next ==
    \/ FeedStep \/ Beat \/ TickDone
    \/ \E c \in Calls : CallEnds(c)
    \/ Stop \/ Service \/ Tick \/ Jump

Spec == Init /\ [][Next]_vars

\* Tokio polls the feed's task, calls time out, the loop ends its events,
\* the heartbeat beats, time passes.
Fairness ==
    /\ WF_vars(FeedStep)
    /\ \A c \in Calls : WF_vars(CallEnds(c))
    /\ WF_vars(TickDone)
    /\ WF_vars(Beat /\ health' # health)
    /\ WF_vars(Tick)

FairSpec == Spec /\ Fairness

-----------------------------------------------------------------------------
(* Properties.                                                             *)

Longest == Max({Cap, MaxPark})

Instants ==
    -(StepsBack + 1 + Max({Window, Graces, StaleAfter}))..(Longest + Period + StepsBack + Jitter)

Waits == {x \in Instants : x <= Longest + StepsBack}

\* Every instant, plan and row has its type; what is retried is some call of
\* the feed, and no wait is longer than the longest delay and the steps back
\* of the clock (PendingRetry, Next, FeedHealth, next_delay).
TypeOK ==
    /\ kind \in Kinds /\ phase \in DOMAIN Schedule
    /\ pc \in {"start", "next", "nap", "run", "stopped"}
    /\ last \in Instants \cup {Never} /\ gate \in Waits \cup {Never}
    /\ retry = None \/ retry \in RetryRec(Instants, Waits)
    /\ next = None \/ next \in NextRec(Instants)
    /\ (next = None) <=> pc \notin {"nap", "run"}
    /\ left \subseteq Calls /\ failed \subseteq [call: Calls, class: Classes]
    /\ ok \in BOOLEAN
    /\ tick \in {"none", "waiting", "closed"}
    /\ health \in {"connecting", "live", "stalled", "backoff", "down"}
    /\ item \in Instants
    /\ up \in BOOLEAN /\ stop \in BOOLEAN /\ jumps \in 0..MaxJumps
    /\ owed \subseteq Calls

\* A call of an at-tick slot that failed inside the slot's window is going
\* to be run again: it is in the pending retry or in the run going on, until
\* a newer slot takes its place; whatever its class and however often the
\* plan is made anew (settle, AT_RETRY_WINDOW_MS).
OwedIsRetried ==
    owed \subseteq
        (IF retry = None THEN {} ELSE retry.calls) \cup
        (IF pc = "run" /\ ~next.fresh THEN next.calls ELSE {})

\* No call begins while the feed is parked: neither a slot, nor the retry,
\* nor a slot planned before (Delay::Park, gate_ms).
ParkHolds == [][pc # "run" /\ pc' = "run" => gate = Never \/ gate <= 0]_vars

\* Once the service answers and the loop takes its ticks, items keep coming
\* and no error is left standing on the health row, whatever retries, parks,
\* skipped slots and jumps of the clock came before (next, settle, run_tick).
FeedRecovers ==
    <>[](up /\ ~stop) => []<>(item = 0) /\ <>[](health \in {"live", "stalled"})
=============================================================================
