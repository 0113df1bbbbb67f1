------------------------------ MODULE SoeCycle ------------------------------
(***************************************************************************)
(* The weekly SOE cycle over its private state (application/soe/cycle.rs,  *)
(* job.rs, freeze.rs; adapters/outbound/soe/store.rs): the run dirs        *)
(* cycles/<week>/ (absent, claimed, frozen) and the three append-only      *)
(* state logs.  A run resumes what an earlier one left unlogged, claims    *)
(* its week, lets the stages work, freezes the dir and appends its lines.  *)
(*                                                                         *)
(* Runs are processes under the `state:<dir>' lease (module Lease): a run  *)
(* renews it before every irreversible step and stops once it is lost; it  *)
(* may crash, or fail, between any two steps.  A renewal and the write     *)
(* behind it are one step: Lease's SafeWrite.                              *)
(***************************************************************************)
EXTENDS Integers, FiniteSets, Sequences, SequencesExt

CONSTANTS Procs,     \* processes that run cycles, one run at a time each
          Weeks,     \* ISO weeks: cycle ids, in order
          Asks,      \* what a run is asked: [week, at], at = decided_at_ms
          MaxLines,  \* bound: candidate events (and episodes) of a cycle
          MaxFaults, \* bound: crashes, errors and late renewals
          NoOne      \* no holder

ASSUME SoeAssumption ==
    /\ Weeks \subseteq Nat \ {0}
    /\ Asks \subseteq [week: Weeks, at: Nat] /\ Asks # {}
    /\ MaxLines \in Nat /\ MaxFaults \in Nat
    /\ NoOne \notin Procs

GENESIS == 0  \* prev_sha256 of the first line

VARIABLES
    holder,     \* who holds the lease
    fresh,      \* it has not expired
    status,     \* per week: RunStatus of its dir
    sealed,     \* per week: forecast-line.json and the size of its line files
    candidates, \* state log candidates.jsonl
    episodes,   \* state log episodes.jsonl
    forecast,   \* state log forecast-log.jsonl
    pc,         \* per process: where its run is
    ask,        \* per process: its week and decision time
    lines,      \* per process: the forecast log as it read it
    todo,       \* per process: cycles() still to look at; the first is in hand
    queue,      \* per process: lines it has still to append to this log
    faults      \* faults so far

leaseVars == <<holder, fresh>>
dirs == <<status, sealed>>
logs == <<candidates, episodes, forecast>>
runVars == <<ask, lines, todo, queue>>
vars == <<leaseVars, dirs, logs, pc, runVars, faults>>

-----------------------------------------------------------------------------

\* The lines of a cycle's candidates.jsonl (or episodes.jsonl), by number.
Own(w) == {<<w, i>> : i \in 1..sealed[w].size}

\* They are appended in the file's order.
FirstOf(ls) == CHOOSE l \in ls : \A m \in ls : l[2] <= m[2]

\* Its LogLine.  A line's hash stands for its cycle: a week freezes once.
Line(w) == [cycle |-> w, at |-> sealed[w].at, prev |-> sealed[w].prev]

Holds(ls, w) == \E i \in DOMAIN ls : ls[i].cycle = w

\* What the next line follows.
Tip(ls) == IF ls = <<>> THEN GENESIS ELSE Last(ls).cycle

\* verify_chain: each line follows the one above, no earlier in time, no
\* cycle twice.
verify_chain(ls) ==
    \A i \in DOMAIN ls :
        /\ ls[i].prev = (IF i = 1 THEN GENESIS ELSE ls[i-1].cycle)
        /\ i > 1 => ls[i].at >= ls[i-1].at
        /\ \A j \in 1..(i-1) : ls[j].cycle # ls[i].cycle

\* Mutant: a resume appends every line again.
MissingAll(w, log) == Own(w)

\* resume_learn: the cycle's lines the log does not hold yet.
Missing(w, log) == Own(w) \ ToSet(log)

\* The run dirs, looked at in week order.
cycles == {w \in Weeks : status[w] # "absent"}

\* The cycle whose lines are appended: the resumed one, or the run's own.
Resuming(p) == todo[p] # {}
InHand(p) == IF Resuming(p) THEN Min(todo[p]) ELSE ask[p].week

NoAsk == CHOOSE a \in Asks : TRUE

Init ==
    /\ holder = NoOne /\ fresh = FALSE
    /\ status = [w \in Weeks |-> "absent"]
    /\ sealed = [w \in Weeks |-> [at |-> 0, prev |-> GENESIS, size |-> 0]]
    /\ candidates = <<>> /\ episodes = <<>> /\ forecast = <<>>
    /\ pc = [p \in Procs |-> "idle"]
    /\ ask = [p \in Procs |-> NoAsk]
    /\ lines = [p \in Procs |-> <<>>]
    /\ todo = [p \in Procs |-> {}]
    /\ queue = [p \in Procs |-> {}]
    /\ faults = 0

-----------------------------------------------------------------------------
(* The lease, as the cycle uses it.                                        *)

\* The run is over and forgets what it read.
Over(p) ==
    /\ pc' = [pc EXCEPT ![p] = "idle"]
    /\ ask' = [ask EXCEPT ![p] = NoAsk]
    /\ lines' = [lines EXCEPT ![p] = <<>>]
    /\ todo' = [todo EXCEPT ![p] = {}]
    /\ queue' = [queue EXCEPT ![p] = {}]

\* A run that returns releases what it still holds.
End(p) ==
    /\ Over(p)
    /\ holder' = IF holder = p THEN NoOne ELSE holder
    /\ fresh' = (fresh /\ holder # p)

\* Ownership::ensure is Ok: the row is still p's, and renewed.
Ensure(p) ==
    /\ holder = p
    /\ fresh' = TRUE
    /\ UNCHANGED holder

\* ensure finds the lease lost: nothing more is written.
LeaseLost(p) ==
    /\ pc[p] \in {"candidates", "episodes", "forecast", "claim", "stages", "freeze"}
    /\ holder # p
    /\ End(p)
    /\ UNCHANGED <<dirs, logs, faults>>

\* The renewals come late (a live holder), or never again (a dead one).
Expire ==
    /\ holder # NoOne
    /\ fresh
    /\ fresh' = FALSE
    /\ IF pc[holder] = "idle" THEN UNCHANGED faults
       ELSE faults < MaxFaults /\ faults' = faults + 1
    /\ UNCHANGED <<holder, dirs, logs, pc, runVars>>

-----------------------------------------------------------------------------
(* preflight and resume_learn.                                             *)

\* A slot of the job's feed, or the command: the lease is taken.
Begin(p, a) ==
    /\ pc[p] = "idle"
    /\ holder = NoOne \/ ~fresh
    /\ holder' = p /\ fresh' = TRUE
    /\ pc' = [pc EXCEPT ![p] = "start"]
    /\ ask' = [ask EXCEPT ![p] = a]
    /\ UNCHANGED <<dirs, logs, lines, todo, queue, faults>>

\* Mutant: a frozen week is refused before anything is resumed.
StartRefused(p) ==
    /\ pc[p] = "start"
    /\ IF ~verify_chain(forecast) \/ status[ask[p].week] = "frozen"
       THEN End(p)
       ELSE /\ pc' = [pc EXCEPT ![p] = "resume"]
            /\ lines' = [lines EXCEPT ![p] = forecast]
            /\ todo' = [todo EXCEPT ![p] = cycles]
            /\ UNCHANGED <<leaseVars, ask, queue>>
    /\ UNCHANGED <<dirs, logs, faults>>

\* forecast_log: a broken chain refuses the run (chain_broken).
Start(p) ==
    /\ pc[p] = "start"
    /\ IF ~verify_chain(forecast)
       THEN End(p)
       ELSE /\ pc' = [pc EXCEPT ![p] = "resume"]
            /\ lines' = [lines EXCEPT ![p] = forecast]
            /\ todo' = [todo EXCEPT ![p] = cycles]
            /\ UNCHANGED <<leaseVars, ask, queue>>
    /\ UNCHANGED <<dirs, logs, faults>>

\* A cycle that is logged, or was never frozen, needs nothing.
ResumeSkips(p) ==
    /\ pc[p] = "resume" /\ Resuming(p)
    /\ Holds(lines[p], InHand(p)) \/ status[InHand(p)] # "frozen"
    /\ todo' = [todo EXCEPT ![p] = @ \ {InHand(p)}]
    /\ UNCHANGED <<leaseVars, dirs, logs, pc, ask, lines, queue, faults>>

\* A frozen cycle without its line gets what it misses, when its line
\* follows the tip; else the run bails (chain_broken).
ResumeFinds(p) ==
    LET w == InHand(p) IN
    /\ pc[p] = "resume" /\ Resuming(p)
    /\ ~Holds(lines[p], w) /\ status[w] = "frozen"
    /\ IF Line(w).prev # Tip(lines[p])
       THEN End(p)
       ELSE /\ pc' = [pc EXCEPT ![p] = "candidates"]
            /\ queue' = [queue EXCEPT ![p] = Missing(w, candidates)]
            /\ UNCHANGED <<leaseVars, ask, lines, todo>>
    /\ UNCHANGED <<dirs, logs, faults>>

\* The refusals once everything is resumed: frozen, unfinished, already in
\* the log, out of order.  A frozen week ends here, well.
Refused(p) ==
    \/ status[ask[p].week] # "absent"
    \/ Holds(lines[p], ask[p].week)
    \/ lines[p] # <<>> /\ ask[p].at < Last(lines[p]).at

preflight(p) ==
    /\ pc[p] = "resume" /\ ~Resuming(p)
    /\ IF Refused(p) THEN End(p)
       ELSE pc' = [pc EXCEPT ![p] = "claim"] /\ UNCHANGED <<leaseVars, runVars>>
    /\ UNCHANGED <<dirs, logs, faults>>

-----------------------------------------------------------------------------
(* The claimed run: stages, freeze, appends.                               *)

\* create_dir makes the dir once; nobody else claims it under the lease.
claim(p) ==
    /\ pc[p] = "claim"
    /\ status[ask[p].week] = "absent"
    /\ Ensure(p)
    /\ status' = [status EXCEPT ![ask[p].week] = "open"]
    /\ pc' = [pc EXCEPT ![p] = "stages"]
    /\ UNCHANGED <<sealed, logs, runVars, faults>>

\* Head, packet, Architect, Critic, decision, report: files of the run dir.
Stages(p) ==
    /\ pc[p] = "stages"
    /\ Ensure(p)
    /\ pc' = [pc EXCEPT ![p] = "freeze"]
    /\ UNCHANGED <<dirs, logs, runVars, faults>>

\* The manifest is linked in one step; the line follows the log as the run
\* read it before its claim.
Sealed(p, n) ==
    /\ status' = [status EXCEPT ![ask[p].week] = "frozen"]
    /\ sealed' = [sealed EXCEPT ![ask[p].week] =
                    [at |-> ask[p].at, prev |-> Tip(lines[p]), size |-> n]]
    /\ pc' = [pc EXCEPT ![p] = "candidates"]
    /\ queue' = [queue EXCEPT ![p] = {<<ask[p].week, i>> : i \in 1..n}]

\* Mutant: the freeze does not ask for the lease.
FreezeUnasked(p, n) ==
    /\ pc[p] = "freeze"
    /\ Sealed(p, n)
    /\ UNCHANGED <<leaseVars, logs, ask, lines, todo, faults>>

Freeze(p, n) ==
    /\ pc[p] = "freeze"
    /\ Ensure(p)
    /\ Sealed(p, n)
    /\ UNCHANGED <<logs, ask, lines, todo, faults>>

\* One line after a renewed lease.
AppendLine(p) ==
    /\ pc[p] \in {"candidates", "episodes"}
    /\ queue[p] # {}
    /\ Ensure(p)
    /\ IF pc[p] = "candidates"
       THEN candidates' = Append(candidates, FirstOf(queue[p])) /\ UNCHANGED episodes
       ELSE episodes' = Append(episodes, FirstOf(queue[p])) /\ UNCHANGED candidates
    /\ queue' = [queue EXCEPT ![p] = @ \ {FirstOf(@)}]
    /\ UNCHANGED <<forecast, dirs, pc, ask, lines, todo, faults>>

\* Candidates, then episodes (a resume reads what is there), then the line.
NextLog(p) ==
    /\ pc[p] \in {"candidates", "episodes"}
    /\ queue[p] = {}
    /\ IF pc[p] = "candidates"
       THEN /\ pc' = [pc EXCEPT ![p] = "episodes"]
            /\ queue' = [queue EXCEPT ![p] = IF Resuming(p) THEN Missing(InHand(p), episodes)
                                             ELSE Own(InHand(p))]
       ELSE pc' = [pc EXCEPT ![p] = "forecast"] /\ UNCHANGED queue
    /\ UNCHANGED <<leaseVars, dirs, logs, ask, lines, todo, faults>>

\* The forecast line closes a resumed cycle, or the run's own.
AppendForecast(p) ==
    LET l == Line(InHand(p)) IN
    /\ pc[p] = "forecast"
    /\ holder = p
    /\ forecast' = Append(forecast, l)
    /\ IF Resuming(p)
       THEN /\ Ensure(p)
            /\ lines' = [lines EXCEPT ![p] = Append(@, l)]
            /\ todo' = [todo EXCEPT ![p] = @ \ {InHand(p)}]
            /\ pc' = [pc EXCEPT ![p] = "resume"]
            /\ UNCHANGED <<ask, queue>>
       ELSE End(p)
    /\ UNCHANGED <<candidates, episodes, dirs, faults>>

-----------------------------------------------------------------------------
(* Faults and the operator.                                                *)

\* An I/O or domain error ends the run (failed.json only in an open dir).
Fail(p) ==
    /\ pc[p] # "idle"
    /\ faults < MaxFaults
    /\ faults' = faults + 1
    /\ End(p)
    /\ UNCHANGED <<dirs, logs>>

\* kill -9, power: the lease stays until it expires.
Crash(p) ==
    /\ pc[p] # "idle"
    /\ faults < MaxFaults
    /\ faults' = faults + 1
    /\ Over(p)
    /\ UNCHANGED <<leaseVars, dirs, logs>>

\* The operator moves an unfinished run dir aside to rerun the week.
MoveAside(w) ==
    /\ status[w] = "open"
    /\ \A p \in Procs : pc[p] # "idle" => ask[p].week # w
    /\ status' = [status EXCEPT ![w] = "absent"]
    /\ UNCHANGED <<leaseVars, sealed, logs, pc, runVars, faults>>

-----------------------------------------------------------------------------

RunStep(p) ==
    \/ Start(p) \/ ResumeSkips(p) \/ ResumeFinds(p) \/ preflight(p)
    \/ claim(p) \/ Stages(p) \/ (\E n \in 0..MaxLines : Freeze(p, n))
    \/ AppendLine(p) \/ NextLog(p) \/ AppendForecast(p) \/ LeaseLost(p)

Next ==
    \/ \E p \in Procs : RunStep(p) \/ Fail(p) \/ Crash(p) \/ \E a \in Asks : Begin(p, a)
    \/ Expire
    \/ \E w \in Weeks : MoveAside(w)

\* A run goes on, a dead holder's lease expires, slots keep coming.
Fairness ==
    /\ \A p \in Procs : WF_vars(RunStep(p))
    /\ WF_vars(Expire)
    /\ WF_vars(\E p \in Procs, a \in Asks : Begin(p, a))

Spec == Init /\ [][Next]_vars /\ Fairness

-----------------------------------------------------------------------------
(* Properties.                                                             *)

NoRepeats(s) == \A i, j \in DOMAIN s : s[i] = s[j] => i = j

\* However often runs stop between a freeze and its appends and whoever
\* resumes them, no state log holds a line twice, no line is of a cycle that
\* is not frozen, and a cycle whose forecast line is logged has every line
\* of its two files logged (resume_learn: "each line once").
EachLineOnce ==
    /\ NoRepeats(candidates) /\ NoRepeats(episodes)
    /\ \A l \in ToSet(candidates) \cup ToSet(episodes) :
          status[l[1]] = "frozen" /\ l \in Own(l[1])
    /\ \A i \in DOMAIN forecast :
          Own(forecast[i].cycle) \subseteq ToSet(candidates) \cap ToSet(episodes)

\* The forecast chain never forks: the log verifies, and a frozen cycle that
\* is not in it yet still follows its tip, so that no run ever ends in
\* chain_broken, whatever took the lease over while the stages worked.
ChainHolds ==
    /\ verify_chain(forecast)
    /\ \A w \in Weeks : status[w] = "frozen" /\ ~Holds(forecast, w)
          => /\ sealed[w].prev = Tip(forecast)
             /\ forecast # <<>> => sealed[w].at >= Last(forecast).at

\* A frozen cycle reaches the forecast log: while slots keep coming, a run of
\* any week repairs what a stop left unlogged.
FrozenIsLogged == \A w \in Weeks : status[w] = "frozen" ~> Holds(forecast, w)

=============================================================================
