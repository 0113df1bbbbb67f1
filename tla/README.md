# Tengu Cluster in TLA+

Formal models of the core of Tengu Cluster, a Rust program that runs
multi-agent sandboxes: decision loops fed by schedules and webhooks, a paper
trading desk behind a risk gate, Solana writes, a weekly evidence-to-decision
cycle (SOE), a strategy ranking, and an orchestrator that plans and runs agent
tasks. The code is hexagonal: `domain` (pure), `ports`, `application`,
`adapters`, `bootstrap`, all under `src/src`.

Paths below are relative to `src/src` unless they begin with `src/`.

1. [Inventory](#1-inventory) · 2. [Plan](#2-plan) · 3. [Modules and code](#3-modules-and-code)
· 4. [Runs](#4-runs) · 5. [Fairness](#5-fairness) · 6. [Proofs](#6-proofs)
· 7. [Where code and comments disagree](#7-where-code-and-comments-disagree)
· 8. [Limits](#8-limits) · 9. [How to run](#9-how-to-run)

## 1. Inventory

| Component | State | Operations | Interacts with | What is hard |
|---|---|---|---|---|
| **Loop dispatch** `application/runtime/loops.rs` | per loop a `turn` mutex and counters; a semaphore of in-flight permits; a set of orchestrator turns; `closing` | `submit`, `submit_tracked`, `spawn_turn`, `drain` | feeds and webhooks submit; the handler is the decision loop; shutdown drains | tasks polled on several threads, panics, aborts, a drain at any await |
| **Runner leases** `application/runtime/mod.rs`, `adapters/outbound/runtime_store.rs`, `bootstrap/runtime.rs` | SQLite rows; what a process believes it holds and until when; `lost`; the stop signal | take, keep (renewal task), ensure (writer), release | every guarded write asks `ensure`; shutdown drains, then releases | clocks read before an await, store errors, expiry, takeover, crash |
| **Paper desk** `adapters/outbound/paper_store.rs`, `application/paper.rs`, `domain/xm/{ledger,risk,risk_state}.rs`, `adapters/outbound/tools/xm/{exec_common,risk_status}.rs`, `adapters/inbound/cli/risk.rs` | ledger tables (account, cash, position, orders, funding), `risk_state`, the kill-switch file | exec tool calls, `place`, `risk_status`, `tengu risk halt` / `resume` | decision loops and agents call the tools from several processes on one ledger | stale clocks and snapshots, retries, the operator acting in between |
| Paper exits `tools/xm/exits.rs`, `domain/xm/exits.rs` | the fired trigger of an opening | check, close, retry | exec path of the desk | first trigger wins, ids of retries |
| **Feeds** `application/runtime/feeds.rs`, `domain/{schedule,backoff}.rs` | last slot, failures, gate, pending retry, pending tick | next, run, settle | submit ticks to loops, run tools and jobs, report health | late slots, back-off and parks, a tick still running, a wall clock that jumps |
| **Health** `application/runtime/health.rs`, `domain/runtime.rs` | board of feeds, heartbeat file | item, error, dropped | feeds write, doctor and Studio read | staleness |
| Decision loop `application/decision_loop` | state, history, audit lines | `run_event` | called by the dispatch, calls tools, escalates | step cap, sequences, one step failing |
| **Solana writes** `adapters/outbound/solana/{send,writes_store}.rs`, `adapters/outbound/tools/solana/write_{common,swap}.rs` | wallet lease, pending record, fence | open session, resolve, send, confirm, close | the chain, through RPC and Jupiter; every process of the install, through the store | ambiguous sends, expiry, crash between record and send, a lease that lapses meanwhile |
| **Orchestrator** `application/orchestrator`, `domain/plan.rs` | plan, finished steps, steps in flight | plan, run, retry, replan | agents as child processes | aborts, reuse of outputs across replans |
| **SOE cycle** `application/soe/{cycle,freeze,job}.rs`, `adapters/outbound/soe/store.rs` | run directory, phase markers, manifest, three logs | claim, phases, submit, freeze, append, resume | leases (`ensure` before every write), model stages | crash or takeover between freeze and appends |
| Ranking `application/ranking` | manifest and published files of a date | run, resume, publish | a lease per contract | resume after a lost lease |
| A2A server `application/a2a` | tasks, contexts | send, cancel, list | orchestrator turns | cancel against completion, full store |
| Studio `application/studio` | control phase, streams | play, stop, event | starts and stops the runtime | two controllers |
| Trace, rate limits, chat and engines, decisions cache, backtest and lineage, sources and evidence, memory and skills, webhooks and Telegram, seal proxy, config, CLI, TUI | see `PROJECT.json` | | | mostly I/O, text or batch computation |

What makes each of the modelled components correct:

- **Dispatch**: one handler per loop and at most `max_decisions_in_flight`
  altogether; bounded queues; counters that tell the truth whichever way a task
  ends; no lock left with a dead task; a drain that ends, leaves nothing
  running and reports every event.
- **Leases**: a write made under `ensure` happens while the writer owns every
  lease; a refused start holds nothing; one live owner per resource; a loss
  stops the run.
- **Paper desk**: one order per `client_order_id`; caps and rates that hold for
  concurrent processes; halts nobody loses; entries that stop and exits that go
  out; cash and funding exact.
- **Feeds**: what an at-tick slot owes is retried; a parked service is left
  alone; a feed comes back, and its row with it, once the service does.
- **Solana writes**: a wallet has one transaction that can still land, it is
  on record, its report is true, and the next tool plans from a chain that
  holds what landed.
- **Orchestrator**: a turn ends; a step reads the outputs its plan says; no
  finished step is paid for twice.
- **SOE cycle**: every line of a frozen cycle is logged, once; the forecast
  chain never forks.

The hazards, each at its line, are in `PROJECT.json`, with the properties that
cover them.

## 2. Plan

| # | Module | Contents | Status |
|---|---|---|---|
| 1 | `LoopDispatch`, `LoopDispatchProofs` | the dispatch and its drain | modelled, checked; every safety property proved |
| 2 | `Lease`, `LeaseProofs` | leases of a runner | modelled, checked; every safety property proved |
| 3 | `PaperDesk`, `PaperDeskProofs` | the ledger, gate and tools | modelled, checked; every property proved |
| 4 | `WalletSends`, `SolanaSend`, `SolanaSendProofs` | the send session against a chain that lands late, and the promise it refines | modelled, checked; every property proved, the refinement included |
| 5 | `Feed`, `FeedProofs` | slots, retries, parks, ticks, health row | modelled, checked; every safety property proved |
| 6 | `Orchestrator`, `OrchestratorProofs` | DAG executor, retry, replan with reuse | modelled, checked; every safety property proved |
| 7 | `SoeCycle`, `SoeCycleProofs` | claim, freeze, appends, resume, over `Lease`'s `ensure` | modelled, checked; every safety property proved |
| - | `SumProofs` | sums of finite functions | lemmas for 1 and 3 |
| 8 | `PaperExits` | `trigger_exit`, exit ids, retries on top of `PaperDesk` | planned |
| 9 | `DecisionLoop`, then ranking, A2A tasks, Studio control, rate limits | | as far as they carry properties of their own |

Order: what every other part relies on first (dispatch, leases), then the part
where a mistake costs most (the desk, then Solana), then the producers (feeds,
orchestrator, weekly cycle).

Every module is written to be proved about as well as checked: constants with
named assumptions, one action per operation, invariants as named conjunctions,
no `RECURSIVE` operator.

## 3. Modules and code

`PROJECT.json` maps each definition to its lines. `MC*` modules only give
constants their values.

### LoopDispatch

`phase[e]` is where the task of event `e` stands in the body of `enqueue`'s
spawned future: `spawned`, polling, parked on the mutex or the semaphore,
`running`, `finished`, unwinding, and how it ended. `turnOf`/`turnq` are the
per-loop tokio mutex and its FIFO, `permitOf`/`permitq` the batch semaphore,
`stats` the `LoopStats` counters with their saturating subtractions, `turn` the
orchestrator turns of `Turns`, `drain` the progress of `drain` and
`before`/`report` the two halves of `DrainReport`.

`RefuseClosing`, `RefuseFull`, `Accept` are `enqueue`; `PollOpen`/`PollClosed`
read `closing` at the head of the `select!`; `LockTurn`, `AcquirePermit`,
`Start`, `Finish`, `Return`, `Panic`, `DropTicket` are the task and `Ticket`'s
methods and drop; `BeginDrain`, `TakeTurns`, `Deadline`, `Abort`, `AbortTurn`,
`TurnsIn`, `DrainReturns` are `drain`. One poll is several steps, because the
runtime is multi-threaded and another task may run between them. `totals` adds
the loops' counters with `SumFunction`. Left out: trace events, times, error
texts.

### Lease

`row` is the table; `known`/`acquired`/`lost` are `HeldLeases`; `call[p][c]` is
a store call of client `c` (a renewal task per resource, and the writer):
asked with the clock read before it, executed by the store, answered, applied.
`pc` is the process: `take` (all or none), up, draining, releasing, exited,
crashed. `Takes`/`Acquired` are `ACQUIRE_SQL`; `Loses` and `Applied` are
`renew`; `EnsureAsks`/`EnsureApplies` walk the writer through its plan.
`MaxCall`, `WriteTime` and `Prompt` are the environment's timing, stated as
constants so that each run says what it assumes.

### PaperDesk

One account, one instrument. A call (`call[c]`) goes `idle → begun → (owing) →
rows → ready → done`; between these steps other calls, `risk_status`, the
operator, the market and the clock act. Each ledger transaction is one step, as
`BEGIN IMMEDIATE` makes it. `Judged` is what `place_tx` computes — settle the
funding, size the order from the stored position, value the account, roll the
day, decide, trip — and `PlaceStored`, `PlaceDenied`, `PlaceSent` what it
writes. The gate keeps every rule whose inputs are in the model (kill switch,
halt, losses, rate, position cap, reduce-only, `allow_reduce_degraded`); the
rules that read only market data are `OthersMayDeny`, a nondeterministic
denial. The fill engine is any filled size up to the one asked. A call that
dies is one that takes no further step; its retry is another call with the same
id.

In the runs prices are even and sizes at most two, so average prices stay
integral. Elsewhere the model's whole-number division would round where the code
divides floating-point numbers: the theorem about cash says so (section 6).

### WalletSends and SolanaSend

`WalletSends` is what the `WriteStatus` table promises of one wallet: a
transaction is unsent, live (may still land), landed or dead; a new one is
submitted only when none is live; and a status, once told, is true of the
transaction's fate. `SolanaSend` has one session per tool call. `session[s].pc`
is the await it is in, from `open_session` over `resolve_pending` (status, then
block height), the tool's reads, `renew`, simulation and signature, the pending
record, the submitter, `confirm`'s rounds, to `close`; `lease`, `pending`,
`fence` are the three tables. The cluster lands what it received at any block
up to the last valid one; a process may die at any await; a store or RPC call
may fail at each of them. `Wallet == INSTANCE WalletSends WITH fate <- ...,
told <- report` computes the fate from what was sent, where it landed and the
height; `OneSendToldTruly` is `Wallet!Spec`. One clock counts blocks and time.

### Feed

`next` is what `FeedRunner::next` planned, `retry` the pending retry, `gate`
the park, `left`/`failed`/`ok` the calls of the run in progress, `tick` the
receiver of the previous tick, `health`/`item` the row of the board. `Plan`,
`SkipLate`, `BeginRun`, `CallOk`/`CallFails`/`CallSkipped`, `SettleRetries`,
`SettleDone`, `SendTick`/`SkipTick`/`RefuseTick`, `Return` are the loop of
`run_feed`. All instants are distances from now and the schedule is periodic,
so time is unbounded and liveness is checked on a finite graph; the unit is
longer than `CLOCK_STEP_GRACE_MS`. `StepsBack` is how far the wall clock may be
set back altogether. A job is a tool feed with one call. The loop
that takes ticks is module `LoopDispatch`'s promise that a ticket always closes
(`EventsSettle`), used as `TickDone`'s fairness. `owed` is history: what the
last at-tick slot still owes.

### Orchestrator

A plan is a sequence of `[id, work, deps]`; an output is told apart by the
attempt that made it and by which outputs it read, which is all the properties
ask of it. `finished` is `drive`'s map across attempts, `done` and `flying` the
executor's `completed_outputs` and tasks. The worklist of `Plan::validate` and
the loop of `run_reusing` are stated by what they compute: `Kahn` and `Reused`
are the least sets closed under one round of the loop.

### SoeCycle

`status`/`sealed` are the run dirs, `candidates`/`episodes`/`forecast` the
three logs, `lines` the forecast log as a run read it before its claim, `todo`
the weeks whose dirs `resume_learn` has still to look at, earliest first, and
`queue` the lines it has still to append, first one first. The lease is its row (`holder`,
`fresh`); a renewal together with the write behind it is one step, which is
what `Lease`'s `SafeWrite` gives. `Fail`, `Crash`, `Expire`, `LeaseLost` may
come between any two steps.

## 4. Runs

| Run | Instance | Shows |
|---|---|---|
| `dispatch_safety` | 2 loops, 3 events, 2 turns, 1 permit, queue of 1 | `TypeOK`, `Excludes`, `QueueBound`, `CountersExact`, `NoOrphanLock`, `QuietAfterDrain`, `QueuedNeverStart`, `ReportAddsUp` |
| `dispatch_live` | 2 loops, 2 events, 1 turn | `DrainEnds`, `EventsSettle` under fairness |
| `lease_shared` | 2 sandboxes, one shared state lease, store calls that fit the guard, one store error | `SafeWrite` over a plan of two, `RefusedHoldsNothing`, `LossStopsRun` |
| `lease_exclusive` | 2 runners, renewals on time, TTL 4 | `OneRunner` |
| `paper_gate` | 2 entries of one sandbox, 1 of another, 3 operator actions, 1 status read, a day of 1 tick, a rate of 1 per window | `RateCap`, `HaltHolds` |
| `paper_book` | a short with a deadline, an increase / a flip, a close / a reduce-only retry under the flip's id; 2 prices; an hour boundary, rates and probes that may be missing | `TypeOK`, `OneOrderPerId`, `PositionCap`, `CashConserved`, `FundingOnce`, `ExitsGoOut`, `CloseCloses`, `DeadlineKept` |
| `solana_send` | a tool of two transactions and a Jupiter swap, TTL 3, validity 2, calls and polling up to 1, clock to 5; 1.6 M states | `TypeOK`, `Tracked`, `BuildsOnLanded`, refinement `OneSendToldTruly` |
| `solana_expired` | the same | violation: `ExpiredDidNotLand` |
| `feed` | two calls or ticks, an at-tick and a grid fire in a period of 4, parks up to 3, one jump of the clock | `TypeOK`, `OwedIsRetried`, `ParkHolds`, `FeedRecovers` under fairness |
| `orchestrator_turn` | 10 plans over 4 steps (6 of them broken), 3 attempts of the turn, 3 tries of a step | `TypeOK`, `RanFresh`, `PaidOnce`, `NeverStuck`, `TurnEnds` under fairness |
| `orchestrator_reuse` | 2 plans, 3 attempts | violation: `ReuseFresh` |
| `soe_cycle` | 2 processes, 2 weeks (the second also dated before the first), up to 2 lines a file, 2 faults; 350 k states | `EachLineOnce`, `ChainHolds`, `FrozenIsLogged` under fairness |

Why the bounds are enough for the questions asked: three events on two loops
with one permit give a waiter on the mutex, a waiter on the semaphore and a
holder at once, and one refused by a queue of one; two processes are what
exclusion is about, and TTL, guard and period differ by one tick each so that
every order of expiry, renewal and takeover occurs; three calls are an order,
its competitor and a third that reads what both left, with clocks that lag by
one tick against windows and hours of two. Two sessions are a sender and the
one that takes its lease over; with a TTL of 3 and five blocks the takeover, a
late landing and a late clear of the first all happen (each mutant of the
run needs one of them). A period of four with a window of two and parks of
three lets a park outlive a slot and a retry outlive its window. Three attempts
are the least in which an output can be two attempts old. Two faults are a stop
after a freeze and another one during its repair.

Deadlock is checked in `feed` and `soe_cycle`. The other instances have
finitely many events, calls, ticks or attempts and stop when they are used up.

Conditions a property needs. The runs state them by their constants, the
theorems as hypotheses; the numbers are the code's.

- `SafeWrite` (`GuardCovers`): the expiry guard covers one pass of `ensure` over
  the writer's leases and the write, `Guard >= (Len(Plan) + 1) * MaxCall +
  WriteTime`, and the TTL is longer. `EXPIRY_GUARD_MS` is 1 s and the store's
  `busy_timeout` 5 s: it holds while the store answers in a fraction of a
  second, and not when it is contended for longer.
- `OneRunner` (`TtlCovers`): renewal tasks on time, no store error, and the TTL
  covers the longest gap between renewals, a call, and the grace of the drain.
  30 s against a renewal every 10 s and a default grace of 20 s: the shipped
  values leave no margin for the call, and a longer grace can be configured.
- `FundingOnce`: a call waits less than an hour for the ledger's lock
  (`MaxLag < Hour`; `busy_timeout` is 5 s).
- `Tracked`, `BuildsOnLanded`, `OneSendToldTruly` (`LeaseCovers`, `NoBatch`):
  preparing and polling one transaction, and preparing twice, fit in the wallet
  lease (`MaxPrep + MaxPoll < Ttl`, `2 * MaxPrep < Ttl`: 20 s RPC timeouts with
  a retry and at most 120 s of polling or 110 s of `/execute`, against 150 s),
  and no tool sends an independent batch (section 7 says what such a batch does
  to the record).

`BuildsOnLanded` speaks of tools whose fence could be read and of landings
whose fence could be stored: the code only warns when it cannot.

## 5. Fairness

- `LoopDispatch`: weak fairness of every task's next step, of the drain and of
  the abort of a turn — tokio polls a woken task and an aborted one, and
  `drain_until` has a deadline. Handlers and turns themselves are **not** fair:
  `DrainEnds` holds though they hang; `EventsSettle` assumes handlers return
  in its own hypothesis.
- `Lease`: weak fairness of the execution of a store call that was asked and of
  the renewal task's reaction (`keep_lease` loops until it stops). Ticks of the
  clock, crashes and writers are not fair.
- `Feed`: weak fairness of the feed's own steps, of each call's end (tools time
  out), of the end of a tick's event, of the beat and of the clock. The service
  is not fair: `FeedRecovers` assumes in its hypothesis that it is up for good.
- `Orchestrator`: weak fairness of the driver and of each try: planner calls
  and agent children have timeouts. Failing and panicking are ends too.
- `SoeCycle`: weak fairness of a run's steps, of the expiry of a dead holder's
  lease and of new runs (the job's weekly slot keeps coming). No fairness says
  a run succeeds; faults are bounded.
- `PaperDesk` and `SolanaSend` state no liveness.

## 6. Proofs

Every invariant and every action property the runs check is also a theorem, for
every value of the constants under the module's named assumption; so is the
refinement of `WalletSends`. Each theorem names the property it states; the
hypotheses, where there are any, are the conditions of section 4.

**LoopDispatchProofs** (`DispatchAssumption`: finite sets, positive caps)

| Theorem | Property | Argument |
|---|---|---|
| `DispatchTyped` | `TypeOK` | by cases on the action; `ReleaseTypes` for every way a task drops its guards, `CounterTypes` for the saturating counters |
| `DispatchExcludes` | `Excludes` | not inductive: nothing in it ties a running handler to its locks. `HoldsLocks` (a running or finished task owns its loop's mutex and a permit) and `PermitCap` (permits out, counting the hand-over inside a release) are inductive with `TypeOK`. The delicate step is `ReleaseKeeps`: a release, which hands the lock to the next waiter, never takes one from a third task |
| `DispatchQueueBound` | `QueueBound` | inductive with `TypeOK`: only `Accept` increments, under its check |
| `DispatchQuiet` | `QuietAfterDrain` | inductive with `TypeOK`: `drain` returns only from a state without live tasks, and `closing` refuses new ones for good |
| `DispatchNoOrphan` | `NoOrphanLock` | `LockInv`: the wait queues hold exactly the parked tasks, once each (`QueuesFit`), and every holder is a live task that has come far enough (`HoldersLive`) |
| `DispatchQueuedNeverStart` | `QueuedNeverStart` | a parked task leaves a wait only through a poll, and a poll reads `closing` first |
| `DispatchCountersExact` | `CountersExact` | each counter is compared with the set of tickets it counts (`CountedAt`); `CountMoves` says how both change when one event changes phase, and so that no saturating subtraction saturates |
| `DispatchReportAddsUp` | `ReportAddsUp` | at the return every task is settled, so the exact counters, added over the loops, count the events (`TotalsExact`); `ReportInv` says what was counted `before`, that cancelled tasks are on their way out and that none was cancelled before the deadline |

**SumProofs.** `SumFunction` is a recursive function over the subsets of a
domain. That such a function exists and is the only one follows by least
counterexample on the cardinality (`WFMin` of the library, which takes no
operator as parameter), and from it that a sum unfolds at any element, that sums
of whole numbers are whole, that a sum over a sequence grows by what is
appended, and that summing class sizes counts the union.

**LeaseProofs** (`LeaseAssumption`)

| Theorem | Property | Hypothesis and argument |
|---|---|---|
| `GuardedWriteHoldsLeases` | `SafeWrite` | `GuardCovers`. A write relies on what the process believes, and what it believes is out of date: `KnownTrue` (the row is still its own while the known expiry lies ahead), `GrantTrue` and `GuardTrue` (the same of the answers on their way, with the clocks from before the call) and `EnsuredHeld` (each lease `ensure` has passed stays held until the write is due) |
| `RefusedStartHoldsNothing` | `RefusedHoldsNothing` | none. `TakenHeld`: a start that failed half way holds no more than the prefix of its plan it has still to release |
| `OneRunnerPerLease` | `OneRunner` | `TtlCovers`. `RunnerHolds`: a live runner's row is its own; `RunnerTimes` bounds how old the renewal behind the row can be, through the call in flight and the drain |

**PaperDeskProofs** (`DeskAssumption`)

| Theorem | Property | Hypothesis and argument |
|---|---|---|
| `DeskTypeCorrect` | `TypeOK` | none. `RiskRow` needs that every clock a transaction brings is over (`Clocks`, `StatusTypes`), the equity that the money is whole (`MoneyTypes`) |
| `OneOrder` | `OneOrderPerId` | none. With `RowsStored`: an answer from the table names a row that stays |
| `EntriesCapped` | `RateCap` | none. With `Clocks`: the gate counts every entry after the window's start, those stamped later than its own clock too, so any window that holds the new entry holds no more than it counted |
| `PositionCapped` | `PositionCap` | none. An entry ends between the position before and the one the gate judged, a reduce moves towards zero |
| `HaltStands` | `HaltHolds` | none. Rolls and trips keep a sticky halt; the probe inside the transaction sees the file |
| `ExitsSent` | `ExitsGoOut` | none |
| `ReducesOnly` | `CloseCloses` | none. The size is taken from the position the same transaction fills |
| `DeadlineStands` | `DeadlineKept` | none |
| `FundingChargedOnce` | `FundingOnce` | `MaxLag < Hour`. `BookInv` over the rows booked and owed together: no hour twice, none after the last settled one, none missing between the opening and it; `Lags` bounds how old the clock is that a waiting call brings |
| `CashIsConserved` | `CashConserved` | the behaviour's increases average without a rounding (`[][AverageExact]_vars`), as they do in the run. `Balanced`: cash less the cost of the position is the deposit less what was paid, fees and funding. A fill that adds pays into the cost, one that reduces realises the difference, a flip does both (`FillAdds`, `FillReduces`); a settlement moves what it books (`SettledMoney`) |

**SolanaSendProofs** (`SendAssumption`; all but the first under `LeaseCovers`
and `NoBatch`)

| Theorem | Property | Argument |
|---|---|---|
| `TypeCorrect` | `TypeOK` | by cases |
| `RecordTracksSends` | `Tracked` | `SendInv`: who is between opening and settling has the lease (`LeaseHeld`, by the time since its renewal), the record it found or wrote is not replaced (`RecordKept`), what its place says of the transaction is so (`Outcomes`), and nothing is live while one is planned (`NothingLive`) |
| `PinnedToolsBuildOnLanded` | `BuildsOnLanded` | with `FenceInv`: a landing not fenced yet is still on record, so no session clears it or plans before it is fenced |
| `PipelineRefinesWallet` | `OneSendToldTruly` | under the mapping of `fate` and `told` the initial state is `WalletSends`'s, and each step is a submission, a landing, a death, a report or a stutter, by `SendInv` |

**FeedProofs** (`FeedAssumption`, no further hypothesis): `FeedTyped` (`TypeOK`),
`OwedCallsRetried` (`OwedIsRetried`), `ParksHold` (`ParkHolds`). Instants are
distances from now, so a step back of the clock pushes all of them ahead:
`Times` bounds each by the steps taken so far, `Parked` says neither the retry
nor the nap ends before the park, or the park is over for good, `Owing` where
the owed calls are kept. `NextFireIs` proves that the next fire of a periodic
schedule exists and lies within a period.

**OrchestratorProofs** (`OrchestratorAssumption`, no further hypothesis):
`TurnTyped` (`TypeOK`), `StepsReadFresh` (`RanFresh`), `WorkPaidOnce`
(`PaidOnce`), `PlanNeverStuck` (`NeverStuck`). `TurnInv`: what is finished is of
an earlier attempt, what is complete was reused or ran now on what is complete,
a task read what its dependencies have, and every ready step is in flight. The
last, with a plan that Kahn's count accepted, leaves no step behind: the steps
that never become ready would be a closed set Kahn's set does not meet.

**SoeCycleProofs** (`SoeAssumption`, no further hypothesis): `LinesLoggedOnce`
(`EachLineOnce`), `ForecastChainHolds` (`ChainHolds`). Only the lease's holder
writes, so the invariant is what the holder knows (`HolderKnows`): the log it
read before its claim is the log, what is owed is still before it, and its queue
is what the file misses; at most one frozen cycle waits for its line
(`OneOwed`).

Only model-checked: liveness (`DrainEnds`, `EventsSettle`, `LossStopsRun`,
`FeedRecovers`, `TurnEnds`, `FrozenIsLogged`), because TLAPS proves neither
liveness under fairness nor `ENABLED` here. The prover also cannot instantiate
the library's induction theorems or work with `RECURSIVE` operators; where an
induction is needed it is a least-counterexample argument, and the fixpoints are
stated as least closed sets.

## 7. Where code and comments disagree

Two are runs that violate what a comment says:

- `solana_expired`: `resolve_pending` asks for the status, then for the block
  height; a transaction that lands in between is told "expired unseen", its
  record goes and no fence is raised (`send.rs:333`–`367`; `confirm` looks once
  more after the height, `send.rs:578`). `domain/solana_write.rs:15`: "did not
  land, safe to retry". Nothing else of the promise breaks: no report of the
  transaction itself says so, and none can land beside another.
- `orchestrator_reuse`: the outputs of attempts are merged step by step, so a
  later attempt may keep an output made from an older version of a dependency
  it keeps too (`replan.rs:77` against `executor.rs:54`). `RanFresh` states
  what does hold: up to the first replan, and for everything that ran.

Seen while modelling and not given a run, because the code plainly behaves so:

- Dispatch: events of a loop need not run in arrival order; each is a task that
  queues on the mutex at its first poll (`loops.rs:409` against `loops.rs:7`).
  After a panic `in_flight` can read 2 for one loop until the ticket drops
  (`loops.rs:422`, `:87`); `DrainReport.dropped` also counts refusals and panics
  (`:484`, `:121`); `turns_finished` counts turns that ended earlier and were
  never reaped (`:184`, `:125`).
- Leases: renewal ends at the stop signal while the drain may go on past the
  TTL (`runtime/mod.rs:314` against `domain/runtime.rs:28`; the default grace of
  20 s fits, up to 3600 s are allowed). `ensure` compares a clock read before a
  store call that can wait five times the guard (`runtime/mod.rs:262` against
  `ports/runtime.rs:90`). A renewal with an older clock moves `expires_at_ms`
  back (`runtime_store.rs:33`); the statement of an aborted renewal may
  re-insert a released lease (`runtime/mod.rs:148`).
- Paper desk: a call with a clock from before midnight that commits after one of
  the new day rolls the day back, and the next takes a second base
  (`risk_state.rs:90` against `:54`).
- Solana: in an independent batch the next transaction's record replaces that of
  one left unconfirmed (`write_common.rs:310`, `writes_store.rs:108`); a fence
  that cannot be stored is only warned of (`send.rs:375`), one that cannot be
  read pins nothing (`write_common.rs:296`); a Jupiter order is not pinned.
- Feeds: `nap_until` waits for an absolute instant, so a clock set far back
  holds the feed for as long (`feeds.rs:652`), though `next_fire` allows for it;
  a slot that is skipped as late also drops the pending retry (`feeds.rs:213`).
- Orchestrator: Kahn's count takes a dependency named twice as two, so such a
  plan is refused as a cycle (`domain/plan.rs:177`).
- SOE: `append_line` is not atomic; half a line left by a full disk is glued to
  the next one (`soe/store.rs:322`). Two `soe_cycle` feeds of one sandbox share
  its leases, so nothing keeps their runs apart (`soe/weekly.rs:220` says a live
  cycle never runs beside the job).

## 8. Limits

Not modelled: the components marked `not_modelled` in `PROJECT.json`, with
their reasons. The program is large and most of it is adapters, parsers,
prompts, tables of market arithmetic and terminal views; the modules are about
the parts where order, concurrency and failure decide. Inside the modelled ones: trace events, wording and formatting;
floats (prices and cash are small integers, tolerances are left out); several
instruments in one account; the caps that span instruments; the fill
engine's rounding of a reduce-only size to the open position; venue facts; verdict
rows and the audit file; `tengu risk status`, which only reads. An aborted task is gone at
once in `Orchestrator` (tokio lets a poll in progress end). SQLite is
trusted to be serialisable and durable, tokio's mutex and semaphore to be FIFO.

## 9. How to run

In this directory: `tlc -workers 2 -config <run>.cfg <module>` with the module
`PROJECT.json` names, and `tlapm <module>.tla` for `LoopDispatchProofs`,
`LeaseProofs`, `PaperDeskProofs`, `SolanaSendProofs`, `FeedProofs`,
`OrchestratorProofs`, `SoeCycleProofs` and `SumProofs`.
