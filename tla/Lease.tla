------------------------------- MODULE Lease -------------------------------
(***************************************************************************)
(* The single-runner leases of `tengu run': the rows of runtime.db         *)
(* (adapters/outbound/runtime_store.rs), the process that takes, renews    *)
(* and releases them (bootstrap/runtime.rs OwnerLeases and Runtime) and    *)
(* its view of them (application/runtime/mod.rs HeldLeases, keep_lease).   *)
(*                                                                         *)
(* A process is one incarnation: a restart is a new holder id.  A renewal  *)
(* is three steps: read the clock and the known expiry, let the store's    *)
(* one statement run, act on the answer.  Other renewals and other         *)
(* processes move in between.  Clocks are one clock (one host).            *)
(***************************************************************************)
EXTENDS Integers, FiniteSets, Sequences, SequencesExt

CONSTANTS Procs,       \* process incarnations (holder ids)
          Resources,   \* lease names: runtime:<sandbox>, state:<dir>
          Plan,        \* per process: LeasePlan::resources, in order
          Writers,     \* processes whose use cases write under the leases
          Nobody,      \* no row
          Ttl,         \* LEASE_TTL_MS
          RenewEvery,  \* LEASE_RENEW_MS
          Guard,       \* EXPIRY_GUARD_MS
          Grace,       \* [runtime] shutdown_grace_secs
          MaxCall,     \* the longest a store call takes (external)
          WriteTime,   \* the longest a guarded write takes (external)
          Prompt,      \* TRUE: renewal tasks tick on time; FALSE: at any time
          MaxErrors,   \* bound: store errors in a behaviour
          MaxTime      \* bound: the clock

Writer == "writer"                     \* a use case that writes under the leases

ASSUME LeaseAssumption ==
    /\ \A p \in Procs : Plan[p] \in Seq(Resources) /\ Len(Plan[p]) > 0
    /\ Writers \subseteq Procs
    /\ Nobody \notin Procs
    /\ Writer \notin Resources
    /\ Ttl \in Nat \ {0} /\ RenewEvery \in Nat \ {0}
    /\ Guard \in Nat /\ Grace \in Nat /\ MaxCall \in Nat /\ WriteTime \in Nat
    /\ MaxErrors \in Nat /\ MaxTime \in Nat
    /\ Prompt \in BOOLEAN

Clients == Resources \cup {Writer}     \* keep_lease of a resource, or the writer
Time == 0..(MaxTime + Ttl)

VARIABLES
    now,      \* the clock
    row,      \* the leases table
    pc,       \* per process: its life
    taken,    \* per process: how many leases of its plan it took
    acquired, \* per process and lease: acquired_at_ms as taken
    known,    \* per process and lease: HeldLeases.expires
    lost,     \* per process: the sticky loss
    stop,     \* per process: the stop signal has fired
    due,      \* per process and lease: the renewal task's next tick
    deadline, \* per process: the end of its drain
    call,     \* per process and client: the renewal in flight
    ensured,  \* per process: leases the writer's `ensure' has renewed
    readyAt,  \* per process: when `ensure' returned Ok
    clean,    \* per process: every release it tried worked
    errors    \* store errors so far

procVars == <<pc, taken, acquired, known, lost, stop, due, deadline>>
writerVars == <<ensured, readyAt>>
vars == <<now, row, procVars, call, writerVars, clean, errors>>

-----------------------------------------------------------------------------

\* A row of the table, or none.
Free == [holder |-> Nobody, acquired |-> 0, expires |-> 0]

Mine(p) == ToSet(Plan[p])

\* The process serves loop events, feeds and jobs.
Live(p) == pc[p] \in {"up", "draining"}

\* Every lease renewed, the write not landed yet.
Ready(p) == ensured[p] = Len(Plan[p])

NextTick == IF Prompt THEN now + RenewEvery ELSE 0

Idle == [at |-> "idle", res |-> Nobody, t |-> 0, guarded |-> FALSE, answer |-> "none"]

\* Mutant: the upsert without its WHERE.
TakesAlways(p, r, t) == TRUE

\* ACQUIRE_SQL takes the row when it is free, expired at `t', or p's own.
Takes(p, r, t) == row[r].holder \in {Nobody, p} \/ row[r].expires <= t

\* The row after ACQUIRE_SQL: renewal keeps acquired_at_ms.
Acquired(p, r, t) ==
    IF ~Takes(p, r, t) THEN row[r]
    ELSE [holder |-> p,
          acquired |-> IF row[r].holder = p THEN row[r].acquired ELSE t,
          expires |-> t + Ttl]

\* What HeldLeases::renew can tell apart in the store's reply.
Answer(p, r, t) ==
    IF ~Takes(p, r, t) THEN "refused"
    ELSE IF Acquired(p, r, t).acquired = acquired[p][r] THEN "granted"
    ELSE "another"

Init ==
    /\ now = 0
    /\ row = [r \in Resources |-> Free]
    /\ pc = [p \in Procs |-> "down"]
    /\ taken = [p \in Procs |-> 0]
    /\ acquired = [p \in Procs |-> [r \in Resources |-> 0]]
    /\ known = [p \in Procs |-> [r \in Resources |-> 0]]
    /\ lost = [p \in Procs |-> FALSE]
    /\ stop = [p \in Procs |-> FALSE]
    /\ due = [p \in Procs |-> [r \in Resources |-> 0]]
    /\ deadline = [p \in Procs |-> 0]
    /\ call = [p \in Procs |-> [c \in Clients |-> Idle]]
    /\ ensured = [p \in Procs |-> 0]
    /\ readyAt = [p \in Procs |-> 0]
    /\ clean = [p \in Procs |-> TRUE]
    /\ errors = 0

-----------------------------------------------------------------------------
(* OwnerLeases::take and Runtime::begin.                                   *)

\* The next lease of the plan is granted.  `t' is the clock as read before
\* the store call.
TakeGranted(p) ==
    LET r == Plan[p][taken[p] + 1] IN
    /\ pc[p] = "down"
    /\ taken[p] < Len(Plan[p])
    /\ \E t \in {u \in Time : u <= now /\ u >= now - MaxCall} :
         /\ Takes(p, r, t)
         /\ row' = [row EXCEPT ![r] = Acquired(p, r, t)]
         /\ acquired' = [acquired EXCEPT ![p][r] = Acquired(p, r, t).acquired]
         /\ known' = [known EXCEPT ![p][r] = t + Ttl]
    /\ taken' = [taken EXCEPT ![p] = @ + 1]
    /\ UNCHANGED <<now, pc, lost, stop, due, deadline, call, writerVars, clean, errors>>

\* Mutant: start fails without releasing what was taken.
TakeRefusedKeeps(p) ==
    LET r == Plan[p][taken[p] + 1] IN
    /\ pc[p] = "down"
    /\ taken[p] < Len(Plan[p])
    /\ ~Takes(p, r, now)
    /\ pc' = [pc EXCEPT ![p] = "refused"]
    /\ UNCHANGED <<now, row, taken, acquired, known, lost, stop, due, deadline,
                   call, writerVars, clean, errors>>

\* Refused, or a store error: what was taken is released, start fails.
TakeRefused(p) ==
    LET r == Plan[p][taken[p] + 1] IN
    /\ pc[p] = "down"
    /\ taken[p] < Len(Plan[p])
    /\ \/ /\ ~Takes(p, r, now)
          /\ UNCHANGED <<row, clean, errors>>
       \/ /\ errors < MaxErrors
          /\ errors' = errors + 1
          /\ row' \in {row, [row EXCEPT ![r] = Acquired(p, r, now)]}
          /\ clean' = [clean EXCEPT ![p] = FALSE]
    /\ pc' = [pc EXCEPT ![p] = "undoing"]
    /\ UNCHANGED <<now, taken, acquired, known, lost, stop, due, deadline, call,
                   writerVars>>

\* Every lease taken: the renewal tasks are spawned.
Begin(p) ==
    /\ pc[p] = "down"
    /\ taken[p] = Len(Plan[p])
    /\ pc' = [pc EXCEPT ![p] = "up"]
    /\ due' = [due EXCEPT ![p] = [r \in Resources |-> NextTick]]
    /\ UNCHANGED <<now, row, taken, acquired, known, lost, stop, deadline, call,
                   writerVars, clean, errors>>

-----------------------------------------------------------------------------
(* HeldLeases::renew, by a renewal task or by the writer's ensure.         *)

\* The loss is checked, the clock and the known expiry are read: `guarded'
\* when a store error would still keep the lease.
Ask(p, c, r) ==
    /\ Live(p)
    /\ call[p][c] = Idle
    /\ ~lost[p]
    /\ call' = [call EXCEPT ![p][c] =
                  [at |-> "asked", res |-> r, t |-> now,
                   guarded |-> now + Guard < known[p][r], answer |-> "none"]]

\* keep_lease: the tick fires (the next one RenewEvery later, Delay).  select!
\* may still pick a tick that is due together with the stop.
KeeperAsks(p, r) ==
    /\ r \in Mine(p)
    /\ pc[p] = "draining" => now + Grace = deadline[p]
    /\ now >= due[p][r]
    /\ Ask(p, r, r)
    /\ due' = [due EXCEPT ![p][r] = NextTick]
    /\ UNCHANGED <<now, row, pc, taken, acquired, known, lost, stop, deadline,
                   writerVars, clean, errors>>

\* Mutant: the task forgets the stop.
KeeperSeesLossQuietly(p, r) ==
    /\ r \in Mine(p)
    /\ Live(p) /\ ~stop[p] /\ lost[p]
    /\ call[p][r] = Idle
    /\ now >= due[p][r]
    /\ UNCHANGED vars

\* keep_lease: a tick after another client's loss fails at once.
KeeperSeesLoss(p, r) ==
    /\ r \in Mine(p)
    /\ Live(p) /\ ~stop[p] /\ lost[p]
    /\ call[p][r] = Idle
    /\ now >= due[p][r]
    /\ stop' = [stop EXCEPT ![p] = TRUE]
    /\ UNCHANGED <<now, row, pc, taken, acquired, known, lost, due, deadline,
                   call, writerVars, clean, errors>>

\* Ownership::ensure begins, or goes on with the next lease.
EnsureAsks(p) ==
    /\ p \in Writers
    /\ ensured[p] < Len(Plan[p])
    /\ Ask(p, Writer, Plan[p][ensured[p] + 1])
    /\ UNCHANGED <<now, row, procVars, writerVars, clean, errors>>

\* ensure meets a loss recorded meanwhile: Err, nothing is written.
EnsureSeesLoss(p) ==
    /\ Live(p) /\ lost[p]
    /\ ensured[p] \in 1..(Len(Plan[p]) - 1)
    /\ call[p][Writer] = Idle
    /\ ensured' = [ensured EXCEPT ![p] = 0]
    /\ UNCHANGED <<now, row, procVars, call, readyAt, clean, errors>>

\* The reply waits for its task; there is none once the process drained.
Reply(p, k, a) == 
    IF Live(p) THEN [k EXCEPT !.at = "answered", !.answer = a,
                              !.guarded = k.guarded /\ a = "error"]
    ELSE Idle

\* The store runs the statement with the clock the caller read.  Once asked
\* it runs on a blocking thread: an aborted task does not stop it.
Exec(p, c) ==
    LET k == call[p][c] IN
    /\ k.at = "asked"
    /\ pc[p] # "crashed"
    /\ row' = [row EXCEPT ![k.res] = Acquired(p, k.res, k.t)]
    /\ call' = [call EXCEPT ![p][c] = Reply(p, k, Answer(p, k.res, k.t))]
    /\ UNCHANGED <<now, procVars, writerVars, clean, errors>>

\* The store fails: the statement did not run (busy, I/O), or it did and
\* reading the row back failed.
ExecFails(p, c) ==
    LET k == call[p][c] IN
    /\ k.at = "asked"
    /\ pc[p] # "crashed"
    /\ errors < MaxErrors
    /\ errors' = errors + 1
    /\ row' \in {row, [row EXCEPT ![k.res] = Acquired(p, k.res, k.t)]}
    /\ call' = [call EXCEPT ![p][c] = Reply(p, k, "error")]
    /\ UNCHANGED <<now, procVars, writerVars, clean>>

\* Mutant: a store error never loses a lease.
LosesIfAnswered(k) == k.answer \in {"refused", "another"}

\* A store error keeps the lease when the known expiry was more than the
\* guard away at the clock read before the call.
Loses(k) == \/ k.answer \in {"refused", "another"}
            \/ k.answer = "error" /\ ~k.guarded

\* renew acts on the answer; a renewal task that lost stops the run.
Applied(p, c) ==
    LET k == call[p][c] IN
    /\ Live(p)
    /\ k.at = "answered"
    /\ call' = [call EXCEPT ![p][c] = Idle]
    /\ lost' = [lost EXCEPT ![p] = @ \/ Loses(k)]
    /\ known' = IF k.answer = "granted"
                THEN [known EXCEPT ![p][k.res] = IF @ >= k.t + Ttl THEN @ ELSE k.t + Ttl]
                ELSE known

KeeperApplies(p, r) ==
    /\ Applied(p, r)
    /\ stop' = [stop EXCEPT ![p] = @ \/ Loses(call[p][r])]
    /\ UNCHANGED <<now, row, pc, taken, acquired, due, deadline, writerVars,
                   clean, errors>>

EnsureApplies(p) ==
    LET n == ensured[p] + 1 IN
    /\ Applied(p, Writer)
    /\ ensured' = [ensured EXCEPT ![p] = IF Loses(call[p][Writer]) THEN 0 ELSE n]
    /\ readyAt' = [readyAt EXCEPT ![p] = IF ensured'[p] = Len(Plan[p]) THEN now ELSE 0]
    /\ UNCHANGED <<now, row, pc, taken, acquired, stop, due, deadline, clean, errors>>

\* The guarded write lands.
Write(p) ==
    /\ Live(p)
    /\ Ready(p)
    /\ ensured' = [ensured EXCEPT ![p] = 0]
    /\ readyAt' = [readyAt EXCEPT ![p] = 0]
    /\ UNCHANGED <<now, row, procVars, call, clean, errors>>

-----------------------------------------------------------------------------
(* Runtime::shutdown, OwnerLeases::release, crashes, time.                 *)

StopSignal(p) ==
    /\ pc[p] = "up"
    /\ ~stop[p]
    /\ stop' = [stop EXCEPT ![p] = TRUE]
    /\ UNCHANGED <<now, row, pc, taken, acquired, known, lost, due, deadline,
                   call, writerVars, clean, errors>>

BeginShutdown(p) ==
    /\ pc[p] = "up"
    /\ stop[p]
    /\ pc' = [pc EXCEPT ![p] = "draining"]
    /\ deadline' = [deadline EXCEPT ![p] = now + Grace]
    /\ UNCHANGED <<now, row, taken, acquired, known, lost, stop, due, call,
                   writerVars, clean, errors>>

\* The drain is over: every task ended by itself, or was aborted at the
\* deadline with its renewal in flight.
EndDrain(p) ==
    /\ pc[p] = "draining"
    /\ now = deadline[p] \/ \A c \in Clients : call[p][c] = Idle
    /\ call' = [call EXCEPT ![p] = [c \in Clients |->
                  IF @[c].at = "answered" THEN Idle ELSE @[c]]]
    /\ pc' = [pc EXCEPT ![p] = "releasing"]
    /\ ensured' = [ensured EXCEPT ![p] = 0]
    /\ readyAt' = [readyAt EXCEPT ![p] = 0]
    /\ UNCHANGED <<now, row, taken, acquired, known, lost, stop, due, deadline,
                   clean, errors>>

\* release frees the last lease taken (holder-scoped), or fails to.
ReleaseNext(p) ==
    LET r == Plan[p][taken[p]] IN
    /\ pc[p] \in {"undoing", "releasing"}
    /\ taken[p] > 0
    /\ taken' = [taken EXCEPT ![p] = @ - 1]
    /\ \/ /\ row' = IF row[r].holder = p THEN [row EXCEPT ![r] = Free] ELSE row
          /\ UNCHANGED <<clean, errors>>
       \/ /\ errors < MaxErrors
          /\ errors' = errors + 1
          /\ clean' = [clean EXCEPT ![p] = FALSE]
          /\ UNCHANGED row
    /\ UNCHANGED <<now, pc, acquired, known, lost, stop, due, deadline, call, writerVars>>

\* The process is gone, and its memory with it.
Forget(p) ==
    /\ taken' = [taken EXCEPT ![p] = 0]
    /\ acquired' = [acquired EXCEPT ![p] = [r \in Resources |-> 0]]
    /\ known' = [known EXCEPT ![p] = [r \in Resources |-> 0]]
    /\ lost' = [lost EXCEPT ![p] = FALSE]
    /\ stop' = [stop EXCEPT ![p] = FALSE]
    /\ due' = [due EXCEPT ![p] = [r \in Resources |-> 0]]
    /\ deadline' = [deadline EXCEPT ![p] = 0]
    /\ ensured' = [ensured EXCEPT ![p] = 0]
    /\ readyAt' = [readyAt EXCEPT ![p] = 0]

\* The statement of an aborted renewal may still be running.
Exit(p) ==
    /\ pc[p] \in {"undoing", "releasing"}
    /\ taken[p] = 0
    /\ pc' = [pc EXCEPT ![p] = IF @ = "undoing" THEN "refused" ELSE "exited"]
    /\ Forget(p)
    /\ UNCHANGED <<now, row, call, clean, errors>>

\* kill -9, power, the second signal.
Crash(p) ==
    /\ pc[p] \notin {"crashed", "exited", "refused"}
    /\ pc[p] = "down" => taken[p] > 0
    /\ pc' = [pc EXCEPT ![p] = "crashed"]
    /\ call' = [call EXCEPT ![p] = [c \in Clients |-> Idle]]
    /\ Forget(p)
    /\ UNCHANGED <<now, row, clean, errors>>

\* Steps that take no time of their own, and calls and writes that are
\* bounded, happen before the clock moves past their bound.
MayPass(p) ==
    /\ \A c \in Clients : call[p][c] # Idle => now - call[p][c].t < MaxCall
    /\ Live(p) /\ Ready(p) => now - readyAt[p] < WriteTime
    /\ Live(p) /\ ensured[p] \in 1..(Len(Plan[p]) - 1) => call[p][Writer] # Idle
    /\ pc[p] = "up" => ~stop[p]
    /\ pc[p] = "draining" => now < deadline[p]
    /\ Prompt /\ pc[p] = "up" =>
          \A r \in Mine(p) : call[p][r] = Idle => now < due[p][r]
    /\ Prompt => pc[p] \notin {"undoing", "releasing"}
    /\ Prompt /\ pc[p] = "down" => taken[p] = 0

Tick ==
    /\ now < MaxTime
    /\ \A p \in Procs : MayPass(p)
    /\ now' = now + 1
    /\ UNCHANGED <<row, procVars, call, writerVars, clean, errors>>

-----------------------------------------------------------------------------

Next ==
    \/ \E p \in Procs :
          \/ TakeGranted(p) \/ TakeRefused(p) \/ Begin(p)
          \/ \E r \in Resources :
                KeeperAsks(p, r) \/ KeeperSeesLoss(p, r) \/ KeeperApplies(p, r)
          \/ EnsureAsks(p) \/ EnsureSeesLoss(p) \/ EnsureApplies(p) \/ Write(p)
          \/ \E c \in Clients : Exec(p, c) \/ ExecFails(p, c)
          \/ StopSignal(p) \/ BeginShutdown(p) \/ EndDrain(p)
          \/ ReleaseNext(p) \/ Exit(p) \/ Crash(p)
    \/ Tick

Spec == Init /\ [][Next]_vars

\* Store calls end (busy_timeout) and renewal tasks are polled.
Fairness ==
    \A p \in Writers : \A r \in Mine(p) :
        /\ WF_vars(Exec(p, r) \/ ExecFails(p, r))
        /\ WF_vars(KeeperApplies(p, r) \/ KeeperSeesLoss(p, r))

FairSpec == Spec /\ Fairness

-----------------------------------------------------------------------------
(* Properties.                                                             *)

\* A guarded write lands only while every lease of the writer is its own:
\* however late renewals, takeovers, failures of the store and the writer's
\* own concurrent renewals come (HeldLeases' table).  It needs the guard to
\* cover the store calls and the write: the run's constants say how much.
SafeWrite ==
    \A p \in Procs : Live(p) /\ Ready(p) =>
        \A r \in Mine(p) : row[r].holder = p

\* take is all or none: a start that was refused, and whose releases worked,
\* holds no lease; nor does its late statement come back (take waits for it).
RefusedHoldsNothing ==
    \A p \in Procs : pc[p] = "refused" /\ clean[p] =>
        \A r \in Resources : row[r].holder # p

\* One runner per sandbox, one owner per state dir: with renewal tasks on
\* time, a working store and a drain that fits in what a renewal leaves, two
\* processes that share a lease are never live at once.
OneRunner ==
    \A p, q \in Procs :
        p # q /\ Live(p) /\ Live(q) => Mine(p) \cap Mine(q) = {}

\* A loss that a writer's ensure found stops the whole run: a renewal task
\* meets it at its next tick and fires the stop signal.
LossStopsRun == \A p \in Writers : lost[p] ~> (stop[p] \/ ~Live(p))
=============================================================================
