----------------------------- MODULE PaperDesk -----------------------------
(***************************************************************************)
(* The paper account of a sandbox: the ledger (adapters/outbound/          *)
(* paper_store.rs), the gate that runs inside its transactions             *)
(* (application/paper.rs decide, domain/xm/risk.rs, risk_state.rs), the    *)
(* exec tools (tools/xm/exec_common.rs), `risk_status' and `tengu risk'.   *)
(*                                                                         *)
(* One account, one instrument.  Tool calls run in any process and         *)
(* interleave between their ledger transactions; each transaction is one   *)
(* step (BEGIN IMMEDIATE).  A call that stops half way is one that takes   *)
(* no more steps; its retry is another call with the same client_order_id. *)
(* A call reads the clock before it waits for the ledger's write lock, so  *)
(* transactions do not commit in the order of their clocks.                *)
(***************************************************************************)
EXTENDS Integers, FiniteSets, Sequences, SequencesExt, FiniteSetsExt

CONSTANTS
    Calls,        \* exec tool calls
    Asks,         \* per call: what it may ask for (client_order_id, close or side
                  \* and size, reduce_only, deadline)
    Sandbox,      \* per call: the sandbox its ledger handle writes as
    Home,         \* the sandbox risk_status runs in
    None,         \* an absent value
    Prices,       \* mark and book prices
    InitialCash,  \* [paper] initial_cash_usd
    Fee,          \* fee of a fill
    Rate,         \* funding per unit held and hour
    MaxNotional,  \* [risk] max_position_notional_usd
    MaxOrders,    \* [risk] max_orders_per_min
    Window,       \* ORDER_RATE_WINDOW_MS
    DailyLimit,   \* [risk] daily_loss_limit_usd
    TotalLimit,   \* [risk] total_loss_limit_usd
    Degraded,     \* [risk] allow_reduce_degraded
    Hour, Day,    \* HOUR_MS, DAY_MS
    ProbeFails,   \* TRUE: a kill-switch probe may fail to tell
    RateFails,    \* TRUE: the funding rate may be missing or old
    MaxLag,       \* the longest wait for the ledger's lock (external)
    MaxOps,       \* bound: what the operator does
    MaxReads,     \* bound: risk_status reads
    StartTime,    \* bound: the clock at the start
    MaxTime       \* bound: the clock at the end

Sides == {1, -1}

Sticky == {"file", "total_loss", "operator"}
Reasons == Sticky \cup {"daily_loss"}

Request == [coid: STRING, close: BOOLEAN, reduce: BOOLEAN, side: Sides, qty: Nat,
            exitAt: Nat \cup {None}]

ASSUME DeskAssumption ==
    /\ \A c \in Calls : Asks[c] \subseteq Request /\ Asks[c] # {}
    /\ Prices \subseteq Nat \ {0} /\ Prices # {}
    /\ InitialCash \in Nat /\ Fee \in Nat /\ Rate \in Nat
    /\ MaxNotional \in Nat /\ MaxOrders \in Nat /\ Window \in Nat \ {0}
    /\ DailyLimit \in Nat /\ TotalLimit \in Nat
    /\ Degraded \in BOOLEAN /\ ProbeFails \in BOOLEAN /\ RateFails \in BOOLEAN
    /\ Hour \in Nat \ {0} /\ Day \in Nat \ {0}
    /\ MaxLag \in Nat /\ MaxOps \in Nat /\ MaxReads \in Nat
    /\ StartTime \in Nat /\ MaxTime \in Nat /\ StartTime <= MaxTime
    /\ None \notin Int /\ None \notin Reasons

VARIABLES
    now,      \* the clock
    px,       \* the market's price
    file,     \* the kill-switch file exists
    owner,    \* accounts.sandbox: None = no account, Unowned = no owner yet
    acct,     \* cash and the instrument's positions row
    owed,     \* funding_owed: the hours settled without a rate, in order
    funding,  \* funding: the hours booked, in order
    orders,   \* the order rows and their fills, in order
    risk,     \* risk_state: the halt, the day and its starting equity
    call,     \* per call: how far it is and what it has read
    status,   \* a risk_status read between its snapshot and its commit
    console,  \* `tengu risk resume' between its check and its commit
    ops,      \* operator actions so far
    reads     \* risk_status reads so far

ledger == <<owner, acct, owed, funding, orders>>
vars == <<now, px, file, ledger, risk, call, status, console, ops, reads>>

Unowned == "unowned"
Probes == {"absent", "present", "unknown"}

Abs(x) == IF x < 0 THEN -x ELSE x
Sign(x) == IF x > 0 THEN 1 ELSE IF x < 0 THEN -1 ELSE 0
Earlier(a, b) == IF a <= b THEN a ELSE b

-----------------------------------------------------------------------------
(* domain/xm/ledger.rs: the position.                                      *)

Flat == [cash |-> InitialCash, qty |-> 0, avg |-> 0, opened |-> None, lastHour |-> None,
         exitAt |-> None]

\* Mutant: a reduce of a short books its loss as a gain.
ApplyFillUnsigned(a, side, qty, price, t) ==
    LET delta == side * qty
        closed == Earlier(qty, Abs(a.qty))
    IN  IF Sign(a.qty) \in {0, side}
        THEN [a EXCEPT !.qty = @ + delta, !.cash = @ - Fee,
                       !.avg = (Abs(a.qty) * a.avg + qty * price) \div Abs(a.qty + delta),
                       !.opened = IF a.qty = 0 THEN t ELSE @]
        ELSE [a EXCEPT !.qty = @ + delta,
                       !.cash = @ + closed * (price - a.avg) - Fee,
                       !.avg = IF closed < qty THEN price
                               ELSE IF a.qty + delta = 0 THEN 0 ELSE @,
                       !.opened = IF closed < qty THEN t
                                  ELSE IF a.qty + delta = 0 THEN None ELSE @]

\* Mutant: a close keeps the opening time.
ApplyFillStaysOpened(a, side, qty, price, t) ==
    LET delta == side * qty
        closed == Earlier(qty, Abs(a.qty))
    IN  IF Sign(a.qty) \in {0, side}
        THEN [a EXCEPT !.qty = @ + delta, !.cash = @ - Fee,
                       !.avg = (Abs(a.qty) * a.avg + qty * price) \div Abs(a.qty + delta),
                       !.opened = IF a.qty = 0 THEN t ELSE @]
        ELSE [a EXCEPT !.qty = @ + delta,
                       !.cash = @ + closed * (price - a.avg) * Sign(a.qty) - Fee,
                       !.avg = IF closed < qty THEN price
                               ELSE IF a.qty + delta = 0 THEN 0 ELSE @,
                       !.opened = IF closed < qty THEN t ELSE @]

\* The account after a fill: average cost; a reduce realises P&L into cash,
\* a fill past zero flips.  Averages are exact for the sizes of the models.
ApplyFill(a, side, qty, price, t) ==
    LET delta == side * qty
        closed == Earlier(qty, Abs(a.qty))
    IN  IF Sign(a.qty) \in {0, side}
        THEN [a EXCEPT !.qty = @ + delta, !.cash = @ - Fee,
                       !.avg = (Abs(a.qty) * a.avg + qty * price) \div Abs(a.qty + delta),
                       !.opened = IF a.qty = 0 THEN t ELSE @]
        ELSE [a EXCEPT !.qty = @ + delta,
                       !.cash = @ + closed * (price - a.avg) * Sign(a.qty) - Fee,
                       !.avg = IF closed < qty THEN price
                               ELSE IF a.qty + delta = 0 THEN 0 ELSE @,
                       !.opened = IF closed < qty THEN t
                                  ELSE IF a.qty + delta = 0 THEN None ELSE @]

\* Mutant: an increase takes the order's deadline.
ExitDeadlineOfOrder(before, after, order) == IF after.qty = 0 THEN None ELSE order

\* exit_deadline: an open or a flip takes the order's, an increase keeps the
\* earlier, a reduce keeps the position's, flat has none.
ExitDeadline(before, after, order) ==
    LET held == before.exitAt IN
    IF after.qty = 0 THEN None
    ELSE IF Sign(before.qty) # Sign(after.qty) THEN order
    ELSE IF Abs(after.qty) < Abs(before.qty) THEN held
    ELSE IF held = None THEN order
    ELSE IF order = None THEN held
    ELSE Earlier(held, order)

\* due_funding_hours: on or after the opening, after the last hour settled.
DueHours(a, t) ==
    {h \in 0..t : /\ h % Hour = 0
                  /\ a.qty # 0 /\ h >= a.opened
                  /\ a.lastHour # None => h > a.lastHour}

\* The units funding rows charge for.
Charged(rows) == SumFunction([i \in DOMAIN rows |-> rows[i].qty])

\* Mutant: an hour left owed is not settled.
SettledIfBooked(a, ow, rate, t) ==
    LET due == DueHours(a, t)
        rows == [i \in 1..Cardinality(due) |->
                   [hour |-> Min(due) + (i - 1) * Hour, qty |-> a.qty]]
        booked == IF rate THEN ow \o rows ELSE <<>>
    IN  [acct |-> [a EXCEPT !.lastHour = IF due = {} \/ ~rate THEN @ ELSE Max(due),
                            !.cash = @ - Rate * Charged(booked)],
         owed |-> IF rate THEN <<>> ELSE ow \o rows,
         booked |-> booked]

\* Position::settle: with a rate the owed and the due hours are booked at the
\* size held, without one the due hours become owed; both are then settled.
Settled(a, ow, rate, t) ==
    LET due == DueHours(a, t)
        rows == [i \in 1..Cardinality(due) |->
                   [hour |-> Min(due) + (i - 1) * Hour, qty |-> a.qty]]
        booked == IF rate THEN ow \o rows ELSE <<>>
    IN  [acct |-> [a EXCEPT !.lastHour = IF due = {} THEN @ ELSE Max(due),
                            !.cash = @ - Rate * Charged(booked)],
         owed |-> IF rate THEN <<>> ELSE ow \o rows,
         booked |-> booked]

\* PaperPositions::build: cash and the position at its mark, None without one.
Equity(a, mark) ==
    IF a.qty = 0 THEN a.cash
    ELSE IF mark = None THEN None
    ELSE a.cash + a.qty * (mark - a.avg)

-----------------------------------------------------------------------------
(* domain/xm/risk_state.rs: the halt and the UTC day.                      *)

DayStart(t) == t - (t % Day)

\* The halt in force at t: a daily_loss halt ends at the next 00:00 UTC.
EffectiveHalt(r, t) ==
    IF r.reason = "daily_loss" /\ r.since < DayStart(t) THEN None ELSE r.reason

\* RiskState::roll: an expired halt is dropped, the day's first known equity
\* is its base.
Roll(r, t, equity) ==
    LET today == DayStart(t) IN
    [reason |-> EffectiveHalt(r, t),
     since |-> IF EffectiveHalt(r, t) = None THEN 0 ELSE r.since,
     day |-> today,
     base |-> IF r.day # today \/ r.base = None THEN equity ELSE r.base]

TripOrder == <<"file", "total_loss", "operator", "daily_loss">>

\* RiskState::trip: a sticky halt stands, a daily_loss halt yields to one.
Trip(r, trips, t) ==
    LET current == EffectiveHalt(r, t)
        first == TripOrder[Min({i \in DOMAIN TripOrder : TripOrder[i] \in trips})]
        stands == trips = {} \/ current \in Sticky \/ (current # None /\ first \notin Sticky)
    IN  [r EXCEPT !.reason = IF stands THEN current ELSE first,
                  !.since = IF ~stands THEN t ELSE IF current = None THEN 0 ELSE @]

\* LossState::breaches of an account valued at `equity'; none when unknown.
Breaches(r, equity) ==
    {x \in {"total_loss", "daily_loss"} :
       /\ equity # None
       /\ x = "total_loss" => InitialCash - equity > TotalLimit
       /\ x = "daily_loss" => r.base # None /\ r.base - equity > DailyLimit}

\* kill_switch_state.
ProbeOf(present) ==
    {IF present THEN "present" ELSE "absent"} \cup (IF ProbeFails THEN {"unknown"} ELSE {})

\* Mutant: the probe made before `place' decides.
EitherProbeBefore(before, inside) == before

\* either_probe: the more halting of the two.
EitherProbe(before, inside) ==
    IF "present" \in {before, inside} THEN "present"
    ELSE IF "unknown" \in {before, inside} THEN "unknown"
    ELSE "absent"

\* The halts a valuation calls for.
TripsOf(kill, r, equity) ==
    (IF kill = "present" THEN {"file"} ELSE {}) \cup Breaches(r, equity)

-----------------------------------------------------------------------------
(* The gate and the fill inside `place' (application/paper.rs decide).     *)

\* order_fingerprint: close, or side and size; not reduce_only.
Fingerprint(r) ==
    [close |-> r.close, side |-> IF r.close THEN 0 ELSE r.side, qty |-> IF r.close THEN 0 ELSE r.qty]

\* The order is reduce-only: it was asked to be, or it closes.
ReduceOnly(r) == r.close \/ r.reduce

Stored(coid) == {i \in DOMAIN orders : orders[i].coid = coid}

\* Mutant: the rate window also ends at the order's clock.
RecentEntriesUpTo(t) ==
    Cardinality({i \in DOMAIN orders : ~orders[i].ro /\ orders[i].ts > t - Window /\ orders[i].ts <= t})

\* load_snapshot's orders_last_min: entries only.
RecentEntries(t) ==
    Cardinality({i \in DOMAIN orders : ~orders[i].ro /\ orders[i].ts > t - Window})

\* Mutant: a close keeps the size it was sent with.
OrderOfPlan(c, a) ==
    IF call[c].req.close THEN [side |-> -Sign(call[c].held), qty |-> Abs(call[c].held)]
    ELSE [side |-> call[c].req.side, qty |-> call[c].req.qty]

\* A close is re-sized from the position read inside the transaction.
OrderOf(c, a) ==
    IF call[c].req.close THEN [side |-> -Sign(a.qty), qty |-> Abs(a.qty)]
    ELSE [side |-> call[c].req.side, qty |-> call[c].req.qty]

\* Mutant: the caps are judged on the position read before the latency.
ExposureStaleOk(c, a, o, in) ==
    Abs(call[c].held + o.side * o.qty) * (IF a.qty = 0 THEN call[c].book ELSE in.mark) <= MaxNotional

\* check_exposure: the position after the order, at its mark (a new one at
\* the book).
ExposureOk(c, a, o, in) ==
    Abs(a.qty + o.side * o.qty) * (IF a.qty = 0 THEN call[c].book ELSE in.mark) <= MaxNotional

\* What the gate is given besides the plan: the mark and the book as read,
\* unless one was missing or is too old by now, and the file probed again.
Inputs(c) ==
    [mark: {call[c].mark, None}, book: {call[c].book, None}, inside: ProbeOf(file)]

\* check_intent: a size, and a price to value it at.  An order that fails it
\* is denied and records no halt.
IntentOk(a, o, in) == o.qty > 0 /\ (in.book # None \/ in.mark # None \/ a.qty # 0)

\* evaluate for an entry, as far as its inputs are modelled.
EntryAllowed(c, a, o, in, kill, rolled, equity) ==
    /\ ~ReduceOnly(call[c].req)
    /\ in.book # None
    /\ kill = "absent"
    /\ EffectiveHalt(rolled, call[c].t) = None
    /\ equity # None
    /\ Breaches(rolled, equity) = {}
    /\ RecentEntries(call[c].t) < MaxOrders
    /\ ExposureOk(c, a, o, in)

\* Gate::start, check_reduce_only: a reduce-only order that does reduce.
Reduces(c, a, o) ==
    ReduceOnly(call[c].req) /\ a.qty # 0 /\ o.side = -Sign(a.qty) /\ o.qty \in 1..Abs(a.qty)

\* Mutant: a halt also stops exits.
ExitAllowedUnhalted(c, a, o, in, kill, rolled) ==
    /\ Reduces(c, a, o)
    /\ EffectiveHalt(rolled, call[c].t) = None
    /\ Degraded \/ (kill = "absent" /\ in.book # None)

\* evaluate for an exit: the kill switch, a halt and a missing book are
\* waived under allow_reduce_degraded; losses and rates never gate it.
ExitAllowed(c, a, o, in, kill, rolled) ==
    /\ Reduces(c, a, o)
    /\ \/ Degraded
       \/ kill = "absent" /\ EffectiveHalt(rolled, call[c].t) = None /\ in.book # None

\* The rules whose inputs are not modelled may deny too: permission, data
\* ages, market status, edge, liquidity, the other caps.  An exit skips them,
\* the ages only under allow_reduce_degraded.
OthersMayDeny(c, a, o) == ~(Reduces(c, a, o) /\ Degraded)

\* What place_tx computes before it writes: the funding settled, the order,
\* the account valued and the day rolled, the verdict and its trips.
Judged(c, in) ==
    LET k == call[c]
        s == Settled(acct, owed, k.rate, k.t)
        o == OrderOf(c, s.acct)
        kill == IF ReduceOnly(k.req) THEN k.kill ELSE EitherProbe(k.kill, in.inside)
        equity == Equity(s.acct, in.mark)
        rolled == Roll(risk, k.t, equity)
    IN  [settled |-> s, order |-> o,
         allow |-> \/ EntryAllowed(c, s.acct, o, in, kill, rolled, equity)
                   \/ ExitAllowed(c, s.acct, o, in, kill, rolled),
         risk |-> Trip(rolled, IF IntentOk(s.acct, o, in) THEN TripsOf(kill, rolled, equity) ELSE {},
                       k.t)]

-----------------------------------------------------------------------------
(* tools/xm/exec_common.rs exec: one exec tool call.                       *)

Idle == [at |-> "idle", req |-> None, t |-> 0, held |-> 0, mark |-> None, rate |-> FALSE,
          book |-> None, kill |-> "unknown", row |-> 0, how |-> "none"]

Answer(r, row, how) == [Idle EXCEPT !.at = "done", !.req = r, !.row = row, !.how = how]

\* An order stored under the id answers; another request's is refused.
FromStored(r, i) ==
    IF orders[i].print = Fingerprint(r) THEN Answer(r, i, "replayed") ELSE Answer(r, 0, "conflict")

\* open_account and check_owner: created, claimed, or one's own.
Claim(s) == owner \in {None, Unowned, s} /\ owner' = s

\* Steps 1-4: the account, then an order already stored.
Begin(c) ==
    /\ call[c].at = "idle"
    /\ Claim(Sandbox[c])
    /\ \E r \in Asks[c] :
         call' = [call EXCEPT ![c] =
                    IF Stored(r.coid) = {}
                    THEN [Idle EXCEPT !.at = "begun", !.req = r, !.t = now]
                    ELSE FromStored(r, Min(Stored(r.coid)))]
    /\ UNCHANGED <<now, px, file, acct, owed, funding, orders, risk, status, console, ops, reads>>

\* The account is another sandbox's: refused, nothing written.
BeginRefused(c) ==
    /\ call[c].at = "idle"
    /\ owner \notin {None, Unowned, Sandbox[c]}
    /\ \E r \in Asks[c] : call' = [call EXCEPT ![c] = Answer(r, 0, "refused")]
    /\ UNCHANGED <<now, px, file, ledger, risk, status, console, ops, reads>>

\* Steps 5-6: the snapshot and the market rows; funding is settled first
\* when the snapshot owes some and the rate is fresh.
Snapshot(c) ==
    /\ call[c].at = "begun"
    /\ \E rate \in {TRUE} \cup {~RateFails} :
         call' = [call EXCEPT ![c].held = acct.qty, ![c].mark = px, ![c].rate = rate,
                    ![c].at = IF rate /\ (owed # <<>> \/ DueHours(acct, call[c].t) # {})
                              THEN "owing" ELSE "rows"]
    /\ UNCHANGED <<now, px, file, ledger, risk, status, console, ops, reads>>

\* accrue_due_funding: settle_funding's transaction, at the first clock.
Accrue(c) ==
    LET s == Settled(acct, owed, TRUE, call[c].t) IN
    /\ call[c].at = "owing"
    /\ acct' = s.acct /\ owed' = s.owed /\ funding' = funding \o s.booked
    /\ call' = [call EXCEPT ![c].at = "rows"]
    /\ UNCHANGED <<now, px, file, owner, orders, risk, status, console, ops, reads>>

\* Step 7: a close of a position the snapshot did not hold.
NoPosition(c) ==
    /\ call[c].at = "rows"
    /\ call[c].req.close /\ call[c].held = 0
    /\ call' = [call EXCEPT ![c] = Answer(call[c].req, 0, "no_position")]
    /\ UNCHANGED <<now, px, file, ledger, risk, status, console, ops, reads>>

\* Step 8: the latency is over and the book is read; then the clock and the
\* kill switch are read and the call queues for the ledger.
Arrive(c) ==
    /\ call[c].at = "rows"
    /\ call[c].req.close => call[c].held # 0
    /\ \E kill \in ProbeOf(file) :
         call' = [call EXCEPT ![c].at = "ready", ![c].t = now, ![c].book = px, ![c].kill = kill]
    /\ UNCHANGED <<now, px, file, ledger, risk, status, console, ops, reads>>

\* place_tx finds the id stored.
PlaceStored(c) ==
    /\ call[c].at = "ready"
    /\ Stored(call[c].req.coid) # {}
    /\ call' = [call EXCEPT ![c] = FromStored(call[c].req, Min(Stored(call[c].req.coid)))]
    /\ UNCHANGED <<now, px, file, ledger, risk, status, console, ops, reads>>

\* Mutant: place_tx trusts the check made before the latency.
MayJudgeUnchecked(c) == call[c].at = "ready"

\* The id is new inside the transaction.
MayJudge(c) == call[c].at = "ready" /\ Stored(call[c].req.coid) = {}

\* What place_tx writes whatever the verdict: the settlement and the risk
\* state.
Judges(j) ==
    /\ owed' = j.settled.owed
    /\ funding' = funding \o j.settled.booked
    /\ risk' = j.risk

\* Denied: a verdict row and no order.
PlaceDenied(c) ==
    /\ MayJudge(c)
    /\ \E in \in Inputs(c) :
         LET j == Judged(c, in) IN
         /\ Judges(j)
         /\ ~j.allow \/ OthersMayDeny(c, j.settled.acct, j.order)
         /\ acct' = j.settled.acct
    /\ call' = [call EXCEPT ![c] = Answer(call[c].req, 0, "denied")]
    /\ UNCHANGED <<now, px, file, owner, orders, status, console, ops, reads>>

\* Allowed: sent to the paper venue, which fills some, all or none of it (a
\* rejection is an order too; so is an exit whose book could not be read).
PlaceSent(c) ==
    /\ MayJudge(c)
    /\ \E in \in Inputs(c) :
         LET j == Judged(c, in)
             k == call[c]
             a == j.settled.acct
         IN  /\ Judges(j)
             /\ j.allow
             /\ \E f \in 0..(IF in.book = None THEN 0 ELSE j.order.qty) :
                  LET filled == ApplyFill(a, j.order.side, f, k.book, k.t) IN
                  /\ acct' = IF f = 0 THEN a
                             ELSE [filled EXCEPT !.exitAt = ExitDeadline(a, filled, call[c].req.exitAt)]
                  /\ orders' = Append(orders,
                                 [coid |-> call[c].req.coid, print |-> Fingerprint(call[c].req),
                                  ro |-> ReduceOnly(call[c].req), side |-> j.order.side,
                                  asked |-> j.order.qty, filled |-> f,
                                  px |-> IF f = 0 THEN 0 ELSE k.book, ts |-> k.t])
    /\ call' = [call EXCEPT ![c] = Answer(call[c].req, Len(orders) + 1, "placed")]
    /\ UNCHANGED <<now, px, file, owner, status, console, ops, reads>>

-----------------------------------------------------------------------------
(* tools/xm/risk_status.rs read_status.                                    *)

NotReading == [at |-> "idle", t |-> 0, mark |-> None, kill |-> "unknown"]

\* The clock, the account, its mark and the kill switch are read.
StatusRead ==
    /\ status.at = "idle"
    /\ reads < MaxReads /\ reads' = reads + 1
    /\ Claim(Home)
    /\ \E kill \in ProbeOf(file) :
         status' = [at |-> "read", t |-> now, mark |-> px, kill |-> kill]
    /\ UNCHANGED <<now, px, file, acct, owed, funding, orders, risk, call, console, ops>>

\* update_risk_state: the account valued at that mark (unless it was missing
\* or old), the day rolled, the halts it calls for recorded.
StatusCommit ==
    /\ status.at = "read"
    /\ \E mark \in {status.mark, None} :
         LET equity == Equity(acct, mark)
             rolled == Roll(risk, status.t, equity)
         IN  risk' = Trip(rolled, TripsOf(status.kill, rolled, equity), status.t)
    /\ status' = NotReading
    /\ UNCHANGED <<now, px, file, ledger, call, console, ops, reads>>

-----------------------------------------------------------------------------
(* adapters/inbound/cli/risk.rs: the operator's handle has no owner.       *)

Operates == ops < MaxOps /\ ops' = ops + 1

\* The kill-switch file is created or removed.
TouchFile ==
    /\ Operates
    /\ file' = ~file
    /\ UNCHANGED <<now, px, ledger, risk, call, status, console, reads>>

\* `tengu risk halt'.
RiskHalt ==
    /\ Operates
    /\ owner' = IF owner = None THEN Unowned ELSE owner
    /\ risk' = Trip(risk, {"operator"}, now)
    /\ UNCHANGED <<now, px, file, acct, owed, funding, orders, call, status, console, reads>>

\* `tengu risk resume' is let through to its prompt.
ResumeAsked ==
    /\ Operates
    /\ console = "idle"
    /\ "absent" \in ProbeOf(file)
    /\ owner # None /\ EffectiveHalt(risk, now) # None
    /\ console' = "typing"
    /\ UNCHANGED <<now, px, file, ledger, risk, call, status, reads>>

\* The name (and the secret) is typed, rightly or not; the file is probed
\* again inside the transaction.
ResumeCommit ==
    /\ console = "typing"
    /\ console' = "idle"
    /\ \E typed \in BOOLEAN, kill \in ProbeOf(file) :
         risk' = IF typed /\ kill = "absent" THEN [risk EXCEPT !.reason = None, !.since = 0] ELSE risk
    /\ UNCHANGED <<now, px, file, ledger, call, status, ops, reads>>

-----------------------------------------------------------------------------
(* The market and the clock.                                               *)

MoveMarket ==
    /\ px' \in Prices \ {px}
    /\ UNCHANGED <<now, file, ledger, risk, call, status, console, ops, reads>>

Tick ==
    /\ now < MaxTime
    /\ \A c \in Calls : call[c].at = "ready" => now - call[c].t < MaxLag
    /\ status.at = "read" => now - status.t < MaxLag
    /\ now' = now + 1
    /\ UNCHANGED <<px, file, ledger, risk, call, status, console, ops, reads>>

Init ==
    /\ now = StartTime
    /\ px \in Prices
    /\ file = FALSE
    /\ owner = None
    /\ acct = Flat
    /\ owed = <<>> /\ funding = <<>> /\ orders = <<>>
    /\ risk = [reason |-> None, since |-> 0, day |-> None, base |-> None]
    /\ call = [c \in Calls |-> Idle]
    /\ status = NotReading
    /\ console = "idle"
    /\ ops = 0 /\ reads = 0

Next ==
    \/ \E c \in Calls :
         \/ Begin(c) \/ BeginRefused(c) \/ Snapshot(c) \/ Accrue(c) \/ NoPosition(c)
         \/ Arrive(c) \/ PlaceStored(c) \/ PlaceDenied(c) \/ PlaceSent(c)
    \/ StatusRead \/ StatusCommit
    \/ TouchFile \/ RiskHalt \/ ResumeAsked \/ ResumeCommit
    \/ MoveMarket \/ Tick

Spec == Init /\ [][Next]_vars

-----------------------------------------------------------------------------
(* Properties.                                                             *)

\* Every variable has its type: the ledger tables, the risk state and what
\* calls have read (place_tx, exec).
TypeOK ==
    /\ now \in StartTime..MaxTime /\ px \in Prices /\ file \in BOOLEAN
    /\ owner \in {None, Unowned, Home} \cup {Sandbox[c] : c \in Calls}
    /\ acct.cash \in Int /\ acct.qty \in Int /\ acct.avg \in Nat
    /\ acct.opened \in Nat \cup {None} /\ (acct.qty = 0 <=> acct.opened = None)
    /\ acct.lastHour \in Nat \cup {None}
    /\ \A i \in DOMAIN orders :
         /\ orders[i].side \in Sides /\ orders[i].filled \in 0..orders[i].asked
         /\ orders[i].ts \in 0..now
    /\ risk.reason \in Reasons \cup {None}
    /\ risk.since \in 0..now /\ risk.day \in (0..now) \cup {None} /\ risk.base \in Int \cup {None}
    /\ \A c \in Calls :
         /\ call[c].at \in {"idle", "begun", "owing", "rows", "ready", "done"}
         /\ call[c].row \in 0..Len(orders)
         /\ call[c].kill \in Probes /\ call[c].t \in 0..now
    /\ console \in {"idle", "typing"} /\ ops \in 0..MaxOps /\ reads \in 0..MaxReads

\* A client_order_id is placed once however its retries race, and every call
\* is answered from the order of its own request: exec's `stored' check and
\* place_tx's second read of the id.
OneOrderPerId ==
    /\ \A i, j \in DOMAIN orders : orders[i].coid = orders[j].coid => i = j
    /\ \A c \in Calls : call[c].row # 0 =>
         /\ orders[call[c].row].coid = call[c].req.coid
         /\ orders[call[c].row].print = Fingerprint(call[c].req)

\* No window of Window holds more than MaxOrders entries, although calls
\* commit out of the order of their clocks: load_snapshot's orders_last_min.
RateCap ==
    \A t \in 0..now :
      Cardinality({i \in DOMAIN orders : /\ ~orders[i].ro
                                         /\ orders[i].ts > t - Window /\ orders[i].ts <= t})
        <= MaxOrders

\* Concurrent entries never take the position past the cap at the lowest
\* price it could have been judged at: place_tx judges the stored position.
PositionCap == Abs(acct.qty) * Min(Prices) <= MaxNotional

\* Average-cost accounting conserves cash: whatever was bought, sold, flipped
\* and funded, cash is the deposit less what was paid out, plus the cost of
\* what is still held (Position::apply_fill, settle, append_cash).
CashConserved ==
    acct.cash = InitialCash
                - SumFunction([i \in DOMAIN orders |-> orders[i].side * orders[i].filled * orders[i].px])
                - Fee * Cardinality({i \in DOMAIN orders : orders[i].filled > 0})
                - Rate * Charged(funding)
                + acct.qty * acct.avg

\* Funding of an hour is charged once, booked or owed, and no hour of the
\* open position that counts as settled was skipped: accrue_due_funding, the
\* settlement inside place_tx and due_funding_hours.
FundingOnce ==
    LET charged == funding \o owed IN
    /\ \A i, j \in DOMAIN charged : charged[i].hour = charged[j].hour => i = j
    /\ acct.qty # 0 /\ acct.lastHour # None =>
         \A h \in acct.opened..acct.lastHour :
           h % Hour = 0 => \E i \in DOMAIN charged : charged[i].hour = h

NewOrder == Len(orders') > Len(orders)

\* A halt holds.  No entry is stored while the kill-switch file exists or a
\* sticky halt is recorded, however long the call waited for the ledger (the
\* second probe inside the transaction, check_halted on the stored state);
\* and a sticky halt ends only by `tengu risk resume', with the file gone: no
\* roll, trip, status read or restart loses it.
HaltHolds ==
    [][/\ NewOrder /\ ~orders'[Len(orders')].ro => ~file /\ risk.reason \notin Sticky
       /\ risk.reason \in Sticky /\ risk'.reason # risk.reason
            => console = "typing" /\ ~file /\ risk'.reason = None]_vars

\* With allow_reduce_degraded a close judged on an open position is always
\* sent: no halt, kill switch, loss or rate holds it back.
ExitsGoOut ==
    [][\A c \in Calls :
         Degraded /\ call[c].at = "ready" /\ call[c].req.close /\ acct.qty # 0
           /\ call'[c].at = "done" /\ call'[c].how \notin {"replayed", "conflict"}
         => NewOrder]_vars

\* A reduce-only order never grows or flips the position, and a close that
\* fills leaves it flat, whatever others did to it during the latency.
CloseCloses ==
    [][NewOrder /\ orders'[Len(orders')].ro =>
         /\ acct.qty * acct'.qty >= 0 /\ Abs(acct'.qty) <= Abs(acct.qty)
         /\ orders'[Len(orders')].print.close /\ orders'[Len(orders')].filled = orders'[Len(orders')].asked
              => acct'.qty = 0]_vars

\* While a position stays open its exit deadline is neither dropped nor moved
\* later: exit_deadline over concurrent increases and reduces.
DeadlineKept ==
    [][acct.qty * acct'.qty > 0 /\ acct.exitAt # None
         => acct'.exitAt # None /\ acct'.exitAt <= acct.exitAt]_vars
=============================================================================
