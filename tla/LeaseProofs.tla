---------------------------- MODULE LeaseProofs ----------------------------
(***************************************************************************)
(* Proofs about Lease for any processes, resources and plans: what a       *)
(* guarded write may rely on, what a refused start leaves behind, and that *)
(* a resource has one live runner.                                         *)
(***************************************************************************)
EXTENDS Lease, TLAPS

Calls == [at: {"asked", "answered"}, res: Resources, t: Nat, guarded: BOOLEAN,
          answer: {"none", "refused", "granted", "another", "error"}]

Rows == [holder: Procs \cup {Nobody}, acquired: Nat, expires: Nat]

Pcs == {"down", "undoing", "refused", "up", "draining", "releasing", "exited", "crashed"}

ClockType == now \in Nat /\ errors \in Nat
RowType == row \in [Resources -> Rows]
PcType == pc \in [Procs -> Pcs]
TakenType == taken \in [Procs -> Nat] /\ \A p \in Procs : taken[p] <= Len(Plan[p])
AcquiredType == acquired \in [Procs -> [Resources -> Nat]]
KnownType == known \in [Procs -> [Resources -> Nat]]
FlagType == lost \in [Procs -> BOOLEAN] /\ stop \in [Procs -> BOOLEAN] /\ clean \in [Procs -> BOOLEAN]
DueType == due \in [Procs -> [Resources -> Nat]] /\ deadline \in [Procs -> Nat]
CallsType == call \in [Procs -> [Clients -> Calls \cup {Idle}]]
EnsuredType == ensured \in [Procs -> Nat] /\ readyAt \in [Procs -> Nat]

Types == /\ ClockType /\ RowType /\ PcType /\ TakenType /\ AcquiredType /\ KnownType
         /\ FlagType /\ DueType /\ CallsType /\ EnsuredType

-----------------------------------------------------------------------------
(* The invariants.                                                         *)

\* The process may still use what it took.
Holding(p) == pc[p] \in {"down", "up", "draining"}

\* Lease r is p's, until e at least.
HeldUntil(p, r, e) == row[r].holder = p /\ row[r].expires >= e

\* A store call ends within MaxCall.
CallTimes ==
    \A p \in Procs : \A c \in Clients : call[p][c] # Idle =>
        call[p][c].t <= now /\ now <= call[p][c].t + MaxCall

\* An answered call has its answer.
Answered ==
    \A p \in Procs : \A c \in Clients : call[p][c].at = "answered" => call[p][c].answer # "none"

\* Calls are made by a process that was live, and ensure by one that is.
CallsLive ==
    \A p \in Procs :
        /\ pc[p] \in {"down", "undoing", "refused"} => \A c \in Clients : call[p][c] = Idle
        /\ ~Live(p) => ensured[p] = 0

\* A renewal task renews its own lease.
KeeperCalls ==
    \A p \in Procs : \A r \in Resources : call[p][r] # Idle => call[p][r].res = r

\* Only writers ensure.
WritersOnly == \A p \in Procs : ensured[p] > 0 \/ call[p][Writer] # Idle => p \in Writers

\* ensure goes through the plan in order; the write takes WriteTime at most.
WriterCalls ==
    \A p \in Procs :
        /\ ensured[p] <= Len(Plan[p])
        /\ Live(p) /\ call[p][Writer] # Idle =>
              ensured[p] < Len(Plan[p]) /\ call[p][Writer].res = Plan[p][ensured[p] + 1]
        /\ Live(p) /\ Ready(p) => readyAt[p] <= now /\ now <= readyAt[p] + WriteTime

\* What a process knows of its leases: never more than a TTL ahead, and true
\* up to the one store call by which its own renewals may overtake each other.
KnownAhead == \A p \in Procs : \A r \in Resources : known[p][r] <= now + Ttl

KnownTrue ==
    \A p \in Procs : \A r \in Resources :
        Holding(p) /\ now < known[p][r] - MaxCall => HeldUntil(p, r, known[p][r] - MaxCall)

\* The same for a renewal granted and not yet acted on.
GrantTrue ==
    \A p \in Procs : \A c \in Clients :
        Live(p) /\ call[p][c].at = "answered" /\ call[p][c].answer = "granted"
             /\ now < call[p][c].t + Ttl - MaxCall
          => HeldUntil(p, call[p][c].res, call[p][c].t + Ttl - MaxCall)

\* The guard was read from a known expiry, which only grows.
GuardTrue ==
    \A p \in Procs : \A c \in Clients :
        Live(p) /\ call[p][c] # Idle /\ call[p][c].guarded =>
            call[p][c].t + Guard < known[p][call[p][c].res]

\* The moment from which ensure still has its time to spend.
Since(p) == IF Ready(p) THEN readyAt[p]
            ELSE IF call[p][Writer] # Idle THEN call[p][Writer].t ELSE now

\* The longest the rest of ensure and the write take.
Rest(p) == (Len(Plan[p]) - ensured[p]) * MaxCall + WriteTime

\* Every lease ensure has renewed lasts until the write has landed.
EnsuredHeld ==
    \A p \in Procs : \A i \in 1..ensured[p] :
        Live(p) => HeldUntil(p, Plan[p][i], Since(p) + Rest(p) + 1)

\* The guard and the TTL cover a pass of ensure and the write after it.
GuardCovers ==
    \A p \in Writers :
        /\ Guard >= (Len(Plan[p]) + 1) * MaxCall + WriteTime
        /\ Ttl > (Len(Plan[p]) + 1) * MaxCall + WriteTime

\* A start holds no more than it took.
TakenHeld ==
    \A p \in Procs : clean[p] =>
        /\ pc[p] \in {"down", "undoing"} =>
              \A r \in Resources : row[r].holder = p => \E i \in 1..taken[p] : r = Plan[p][i]
        /\ pc[p] = "refused" => \A r \in Resources : row[r].holder # p

\* The longest between two renewals of a lease.
Gap == IF RenewEvery >= MaxCall THEN RenewEvery ELSE MaxCall

\* Renewal tasks on time, a working store, and a TTL that covers a renewal
\* and the drain after it.
TtlCovers == /\ Prompt /\ MaxErrors = 0
             /\ Ttl > Gap + MaxCall + Grace
             /\ Ttl > Gap + 2 * MaxCall

\* The renewal the row is known to come from.
Asked(p, r) == call[p][r].at = "asked"
From(p, r) == IF Asked(p, r) THEN call[p][r].t - Gap
              ELSE IF pc[p] = "up" THEN due[p][r] - RenewEvery
              ELSE deadline[p] - Grace - Gap

TakenFresh ==
    \A p \in Procs : \A i \in 1..taken[p] :
        pc[p] = "down" => HeldUntil(p, Plan[p][i], now - MaxCall + Ttl)

RunnerHolds ==
    \A p \in Procs : \A r \in Mine(p) :
        Live(p) => HeldUntil(p, r, From(p, r) - MaxCall + Ttl)

RunnerTimes ==
    \A p \in Procs : \A r \in Mine(p) :
        /\ pc[p] = "up" => /\ due[p][r] - RenewEvery <= now /\ now <= due[p][r] - RenewEvery + Gap
                           /\ call[p][r] # Idle => call[p][r].t = due[p][r] - RenewEvery
        /\ pc[p] = "draining" =>
              /\ deadline[p] - Grace <= now /\ now <= deadline[p]
              /\ Asked(p, r) => /\ call[p][r].t >= deadline[p] - Grace - MaxCall
                                /\ call[p][r].t <= deadline[p] - Grace


-----------------------------------------------------------------------------
(* Types.                                                                  *)

\* The leases of a plan are resources.
LEMMA PlanResources ==
    ASSUME NEW p \in Procs
    PROVE  /\ Len(Plan[p]) \in Nat \ {0}
           /\ \A i \in 1..Len(Plan[p]) : Plan[p][i] \in Resources
           /\ Mine(p) = {Plan[p][i] : i \in 1..Len(Plan[p])}
           /\ Mine(p) \subseteq Resources
<1>1. Plan[p] \in Seq(Resources) /\ Len(Plan[p]) > 0
  BY LeaseAssumption
<1>2. Len(Plan[p]) \in Nat /\ DOMAIN Plan[p] = 1..Len(Plan[p])
  BY <1>1
<1>3. \A i \in 1..Len(Plan[p]) : Plan[p][i] \in Resources
  BY <1>1, <1>2
<1>4. Mine(p) = {Plan[p][i] : i \in 1..Len(Plan[p])}
  BY <1>2 DEF Mine, ToSet
<1> QED BY <1>1, <1>2, <1>3, <1>4

\* The next lease of a plan.
LEMMA PlanNext ==
    ASSUME NEW p \in Procs, NEW n \in Nat, n < Len(Plan[p])
    PROVE  Plan[p][n + 1] \in Resources /\ n + 1 \in 1..Len(Plan[p]) /\ Plan[p][n + 1] \in Mine(p)
<1>1. n + 1 \in 1..Len(Plan[p])
  BY PlanResources
<1> QED BY <1>1, PlanResources

\* What ACQUIRE_SQL leaves in the row.
LEMMA AcquiredRow ==
    ASSUME Types, NEW p \in Procs, NEW r \in Resources, NEW t \in Nat
    PROVE  /\ Acquired(p, r, t) \in Rows
           /\ Takes(p, r, t) => Acquired(p, r, t).holder = p /\ Acquired(p, r, t).expires = t + Ttl
           /\ ~Takes(p, r, t) => Acquired(p, r, t) = row[r]
<1>1. row[r] \in Rows /\ t + Ttl \in Nat
  BY LeaseAssumption DEF Types, RowType
<1>2. CASE Takes(p, r, t)
  <2>1. PICK a \in Nat : Acquired(p, r, t) = [holder |-> p, acquired |-> a, expires |-> t + Ttl]
    BY <1>1, <1>2 DEF Acquired, Rows
  <2> QED BY <2>1, <1>1, <1>2 DEF Rows
<1>3. CASE ~Takes(p, r, t)
  BY <1>1, <1>3 DEF Acquired
<1> QED BY <1>2, <1>3

LEMMA TypesInit == Init => Types
<1> SUFFICES ASSUME Init PROVE Types
  OBVIOUS
<1>1. Free \in Rows
  BY DEF Free, Rows
<1>2. \A p \in Procs : Len(Plan[p]) \in Nat
  BY PlanResources
<1> QED BY <1>1, <1>2 DEF Init, Types, ClockType, RowType, PcType, Pcs, TakenType, AcquiredType, KnownType,
           FlagType, DueType, CallsType, EnsuredType

\* The process is gone: what it forgets keeps its type.
LEMMA ForgetTypes ==
    ASSUME Types, NEW p \in Procs, Forget(p)
    PROVE  TakenType' /\ AcquiredType' /\ KnownType' /\ DueType' /\ EnsuredType'
           /\ lost' \in [Procs -> BOOLEAN] /\ stop' \in [Procs -> BOOLEAN]
<1> USE DEF Types
<1>1. \A q \in Procs : Len(Plan[q]) \in Nat
  BY PlanResources
<1>2. [r \in Resources |-> 0] \in [Resources -> Nat]
  OBVIOUS
<1>3. AcquiredType' /\ KnownType' /\ DueType'
  BY <1>2 DEF Forget, AcquiredType, KnownType, DueType
<1>4. lost' \in [Procs -> BOOLEAN] /\ stop' \in [Procs -> BOOLEAN]
  BY DEF Forget, FlagType
<1>5. TakenType' /\ EnsuredType'
  BY <1>1 DEF Forget, TakenType, EnsuredType
<1> QED BY <1>3, <1>4, <1>5

\* A call in flight.
LEMMA CallType ==
    ASSUME Types, NEW p \in Procs, NEW c \in Clients
    PROVE  /\ call[p][c] # Idle <=> call[p][c].at \in {"asked", "answered"}
           /\ call[p][c] # Idle => call[p][c] \in Calls /\ call[p][c].res \in Resources /\ call[p][c].t \in Nat
<1>1. call[p][c] \in Calls \cup {Idle} /\ Idle.at = "idle"
  BY DEF Types, CallsType, Idle
<1> QED BY <1>1 DEF Calls

LEMMA ReplyType ==
    ASSUME Types, NEW p \in Procs, NEW c \in Clients, call[p][c].at = "asked",
           NEW a \in {"refused", "granted", "another", "error"}
    PROVE  Reply(p, call[p][c], a) \in Calls \cup {Idle}
<1>1. call[p][c] \in Calls
  BY CallType
<1>2. (call[p][c].guarded /\ a = "error") \in BOOLEAN
  OBVIOUS
<1>3. [call[p][c] EXCEPT !.at = "answered", !.answer = a, !.guarded = call[p][c].guarded /\ a = "error"] \in Calls
  BY <1>1, <1>2, Zenon DEF Calls
<1> QED BY <1>3 DEF Reply

LEMMA TypesStep == Types /\ [Next]_vars => Types'
<1> SUFFICES ASSUME Types, [Next]_vars PROVE Types'
  OBVIOUS
<1> USE DEF Types
<1>0. \A p \in Procs : /\ taken[p] \in Nat /\ taken[p] <= Len(Plan[p]) /\ Len(Plan[p]) \in Nat
                       /\ ensured[p] \in Nat /\ pc[p] \in Pcs
  BY PlanResources DEF TakenType, EnsuredType, PcType
<1>01. now \in Nat /\ NextTick \in Nat
  BY LeaseAssumption DEF ClockType, NextTick
<1>1. ASSUME NEW p \in Procs, TakeGranted(p) PROVE Types'
  <2> DEFINE r == Plan[p][taken[p] + 1]
  <2>1. r \in Resources
    BY <1>0, <1>1, PlanNext DEF TakeGranted
  <2>2. PICK t \in Time : 
         /\ row' = [row EXCEPT ![r] = Acquired(p, r, t)]
         /\ acquired' = [acquired EXCEPT ![p][r] = Acquired(p, r, t).acquired]
         /\ known' = [known EXCEPT ![p][r] = t + Ttl]
    BY <1>1 DEF TakeGranted
  <2> HIDE DEF r
  <2>3a. t \in Nat /\ t + Ttl \in Nat
    BY <2>2, LeaseAssumption DEF Time
  <2>3b. Acquired(p, r, t) \in Rows
    BY <2>1, <2>3a, AcquiredRow
  <2>3. Acquired(p, r, t) \in Rows /\ Acquired(p, r, t).acquired \in Nat /\ t + Ttl \in Nat
    BY <2>3a, <2>3b DEF Rows
  <2>4. RowType'
    BY <2>1, <2>2, <2>3 DEF RowType
  <2>5. KnownType'
    BY <2>1, <2>2, <2>3 DEF KnownType
  <2>6. AcquiredType'
    BY <2>1, <2>2, <2>3 DEF AcquiredType
  <2>7. TakenType'
    BY <1>0, <1>1 DEF TakeGranted, TakenType
  <2>8. ClockType' /\ PcType' /\ FlagType' /\ DueType' /\ CallsType' /\ EnsuredType'
    BY <1>1 DEF TakeGranted, ClockType, PcType, FlagType, DueType, CallsType, EnsuredType, writerVars
  <2> QED BY <2>4, <2>5, <2>6, <2>7, <2>8
<1>2. ASSUME NEW p \in Procs, TakeRefused(p) PROVE Types'
  <2> DEFINE r == Plan[p][taken[p] + 1]
  <2>1. r \in Resources
    BY <1>0, <1>2, PlanNext DEF TakeRefused
  <2>2. row' \in {row, [row EXCEPT ![r] = Acquired(p, r, now)]}
    BY <1>2 DEF TakeRefused
  <2> HIDE DEF r
  <2>3. Acquired(p, r, now) \in Rows
    BY <1>01, <2>1, AcquiredRow
  <2>4. RowType'
    BY <2>1, <2>2, <2>3 DEF RowType
  <2>5. FlagType' /\ ClockType'
    <3>1. /\ lost' = lost /\ stop' = stop /\ now' = now
          /\ clean' \in {clean, [clean EXCEPT ![p] = FALSE]} /\ errors' \in {errors, errors + 1}
      BY <1>2 DEF TakeRefused
    <3>2. FlagType'
      BY <3>1 DEF FlagType
    <3> QED BY <3>1, <3>2 DEF ClockType
  <2>6. PcType'
    BY <1>2 DEF TakeRefused, PcType, Pcs
  <2>7. AcquiredType' /\ KnownType' /\ TakenType' /\ DueType' /\ CallsType' /\ EnsuredType'
    BY <1>2 DEF TakeRefused, AcquiredType, KnownType, TakenType, DueType, CallsType, EnsuredType, writerVars
  <2> QED BY <2>4, <2>5, <2>6, <2>7
<1>3. ASSUME NEW p \in Procs, Begin(p) PROVE Types'
  <2>1. DueType'
    BY <1>3, <1>01 DEF Begin, DueType
  <2>2. PcType'
    BY <1>3 DEF Begin, PcType, Pcs
  <2>3. ClockType' /\ RowType' /\ FlagType' /\ AcquiredType' /\ KnownType' /\ TakenType' /\ CallsType' /\ EnsuredType'
    BY <1>3 DEF Begin, ClockType, RowType, FlagType, AcquiredType, KnownType, TakenType, CallsType, EnsuredType, writerVars
  <2> QED BY <2>1, <2>2, <2>3
<1>4. ASSUME NEW p \in Procs, NEW c \in Clients, NEW r \in Resources, Ask(p, c, r) PROVE CallsType'
  <2>1. [at |-> "asked", res |-> r, t |-> now, guarded |-> now + Guard < known[p][r], answer |-> "none"] \in Calls
    BY <1>01 DEF Calls
  <2> QED BY <1>4, <2>1 DEF Ask, CallsType
<1>5. ASSUME NEW p \in Procs, NEW r \in Resources, KeeperAsks(p, r) PROVE Types'
  <2>1. CallsType'
    BY <1>4, <1>5 DEF KeeperAsks, Clients
  <2>2. DueType'
    BY <1>5, <1>01 DEF KeeperAsks, DueType
  <2>3. ClockType' /\ RowType' /\ PcType' /\ FlagType' /\ AcquiredType' /\ KnownType' /\ TakenType' /\ EnsuredType'
    BY <1>5 DEF KeeperAsks, ClockType, RowType, PcType, FlagType, AcquiredType, KnownType, TakenType, EnsuredType, writerVars
  <2> QED BY <2>1, <2>2, <2>3
<1>6. ASSUME NEW p \in Procs, NEW r \in Resources, KeeperSeesLoss(p, r) PROVE Types'
  <2>1. FlagType'
    BY <1>6 DEF KeeperSeesLoss, FlagType
  <2>2. ClockType' /\ RowType' /\ PcType' /\ DueType' /\ AcquiredType' /\ KnownType' /\ TakenType' /\ CallsType' /\ EnsuredType'
    BY <1>6 DEF KeeperSeesLoss, ClockType, RowType, PcType, DueType, AcquiredType, KnownType, TakenType, CallsType, EnsuredType, writerVars
  <2> QED BY <2>1, <2>2
<1>7. ASSUME NEW p \in Procs, EnsureAsks(p) PROVE Types'
  <2>1. CallsType'
    <3>1. Plan[p][ensured[p] + 1] \in Resources
      BY <1>0, <1>7, PlanNext DEF EnsureAsks
    <3> QED BY <1>4, <1>7, <3>1 DEF EnsureAsks, Clients
  <2>2. ClockType' /\ RowType' /\ PcType' /\ FlagType' /\ DueType' /\ AcquiredType' /\ KnownType' /\ TakenType' /\ EnsuredType'
    BY <1>7 DEF EnsureAsks, ClockType, RowType, PcType, FlagType, DueType, AcquiredType, KnownType, TakenType, EnsuredType,
               writerVars, procVars
  <2> QED BY <2>1, <2>2
<1>8. ASSUME NEW p \in Procs, EnsureSeesLoss(p) \/ Write(p) PROVE Types'
  <2>1. EnsuredType'
    <3>1. ensured' = [ensured EXCEPT ![p] = 0] /\ readyAt' \in {readyAt, [readyAt EXCEPT ![p] = 0]}
      BY <1>8 DEF EnsureSeesLoss, Write
    <3> QED BY <3>1 DEF EnsuredType
  <2>2. ClockType' /\ RowType' /\ PcType' /\ FlagType' /\ DueType' /\ AcquiredType' /\ KnownType' /\ TakenType' /\ CallsType'
    BY <1>8 DEF EnsureSeesLoss, Write, ClockType, RowType, PcType, FlagType, DueType, AcquiredType, KnownType, TakenType,
               CallsType, procVars
  <2> QED BY <2>1, <2>2
<1>9. ASSUME NEW p \in Procs, NEW c \in Clients, Exec(p, c) \/ ExecFails(p, c) PROVE Types'
  <2> DEFINE k == call[p][c]
  <2>1. k.at = "asked" /\ k.res \in Resources /\ k.t \in Nat
    BY <1>9, CallType DEF Exec, ExecFails
  <2>2. PICK a \in {"refused", "granted", "another", "error"} :
            call' = [call EXCEPT ![p][c] = Reply(p, k, a)]
    BY <1>9 DEF Exec, ExecFails, Answer
  <2>3. CallsType'
    BY <2>1, <2>2, ReplyType DEF CallsType
  <2>4. RowType'
    <3>1. Acquired(p, k.res, k.t) \in Rows
      BY <2>1, AcquiredRow
    <3>2. row' \in {row, [row EXCEPT ![k.res] = Acquired(p, k.res, k.t)]}
      BY <1>9 DEF Exec, ExecFails
    <3> QED BY <2>1, <3>1, <3>2 DEF RowType
  <2>5. ClockType'
    BY <1>9 DEF Exec, ExecFails, ClockType
  <2>6. PcType' /\ FlagType' /\ DueType' /\ AcquiredType' /\ KnownType' /\ TakenType' /\ EnsuredType'
    BY <1>9 DEF Exec, ExecFails, PcType, FlagType, DueType, AcquiredType, KnownType, TakenType, EnsuredType,
               writerVars, procVars
  <2> QED BY <2>3, <2>4, <2>5, <2>6
<1>10. ASSUME NEW p \in Procs, NEW c \in Clients, Applied(p, c)
       PROVE  CallsType' /\ KnownType' /\ lost' \in [Procs -> BOOLEAN]
  <2>1. call[p][c].res \in Resources /\ call[p][c].t + Ttl \in Nat
    BY <1>10, CallType, LeaseAssumption DEF Applied
  <2>2. CallsType'
    BY <1>10 DEF Applied, CallsType
  <2>3. lost' \in [Procs -> BOOLEAN]
    <3>1. (lost[p] \/ Loses(call[p][c])) \in BOOLEAN
      OBVIOUS
    <3> QED BY <1>10, <3>1, Zenon DEF Applied, FlagType
  <2>4. KnownType'
    <3>1. known[p][call[p][c].res] \in Nat
      BY <2>1 DEF KnownType
    <3>2. PICK x \in Nat : known' \in {known, [known EXCEPT ![p][call[p][c].res] = x]}
      BY <1>10, <2>1, <3>1 DEF Applied
    <3> QED BY <2>1, <3>2 DEF KnownType
  <2> QED BY <2>2, <2>3, <2>4
<1>11. ASSUME NEW p \in Procs, NEW r \in Resources, KeeperApplies(p, r) PROVE Types'
  <2>1. CallsType' /\ KnownType' /\ lost' \in [Procs -> BOOLEAN]
    BY <1>10, <1>11 DEF KeeperApplies, Clients
  <2>2. stop' \in [Procs -> BOOLEAN]
    <3>1. (stop[p] \/ Loses(call[p][r])) \in BOOLEAN
      OBVIOUS
    <3> QED BY <1>11, <3>1, Zenon DEF KeeperApplies, FlagType
  <2>3. ClockType' /\ RowType' /\ PcType' /\ DueType' /\ AcquiredType' /\ TakenType' /\ EnsuredType' /\ clean' = clean
    BY <1>11 DEF KeeperApplies, ClockType, RowType, PcType, DueType, AcquiredType, TakenType, EnsuredType, writerVars
  <2> QED BY <2>1, <2>2, <2>3 DEF FlagType
<1>12. ASSUME NEW p \in Procs, EnsureApplies(p) PROVE Types'
  <2>1. CallsType' /\ KnownType' /\ lost' \in [Procs -> BOOLEAN]
    BY <1>10, <1>12 DEF EnsureApplies, Clients
  <2>2. EnsuredType'
    <3>1. PICK x \in Nat, y \in Nat : ensured' = [ensured EXCEPT ![p] = x] /\ readyAt' = [readyAt EXCEPT ![p] = y]
      <4>1. PICK x \in Nat : ensured' = [ensured EXCEPT ![p] = x]
        <5>1. (IF Loses(call[p][Writer]) THEN 0 ELSE ensured[p] + 1) \in Nat
          BY <1>0
        <5>2. ensured' = [ensured EXCEPT ![p] = IF Loses(call[p][Writer]) THEN 0 ELSE ensured[p] + 1]
          BY <1>12 DEF EnsureApplies
        <5> HIDE DEF Types
        <5> QED BY <5>1, <5>2
      <4>2. PICK y \in Nat : readyAt' = [readyAt EXCEPT ![p] = y]
        BY <1>01, <1>12 DEF EnsureApplies
      <4> QED BY <4>1, <4>2
    <3> QED BY <3>1 DEF EnsuredType
  <2>3. ClockType' /\ RowType' /\ PcType' /\ DueType' /\ AcquiredType' /\ TakenType' /\ clean' = clean /\ stop' = stop
    BY <1>12 DEF EnsureApplies, ClockType, RowType, PcType, DueType, AcquiredType, TakenType
  <2> QED BY <2>1, <2>2, <2>3 DEF FlagType
<1>14. ASSUME NEW p \in Procs, StopSignal(p) PROVE Types'
  <2>1. FlagType'
    BY <1>14 DEF StopSignal, FlagType
  <2>2. ClockType' /\ RowType' /\ PcType' /\ DueType' /\ AcquiredType' /\ KnownType' /\ TakenType' /\ CallsType' /\ EnsuredType'
    BY <1>14 DEF StopSignal, ClockType, RowType, PcType, DueType, AcquiredType, KnownType, TakenType, CallsType, EnsuredType, writerVars
  <2> QED BY <2>1, <2>2
<1>15. ASSUME NEW p \in Procs, BeginShutdown(p) PROVE Types'
  <2>1. DueType' /\ PcType'
    <3>1. now + Grace \in Nat
      BY <1>01, LeaseAssumption
    <3> QED BY <1>15, <3>1 DEF BeginShutdown, DueType, PcType, Pcs
  <2>2. ClockType' /\ RowType' /\ FlagType' /\ AcquiredType' /\ KnownType' /\ TakenType' /\ CallsType' /\ EnsuredType'
    BY <1>15 DEF BeginShutdown, ClockType, RowType, FlagType, AcquiredType, KnownType, TakenType, CallsType, EnsuredType, writerVars
  <2> QED BY <2>1, <2>2
<1>16. ASSUME NEW p \in Procs, EndDrain(p) PROVE Types'
  <2>1. CallsType'
    BY <1>16 DEF EndDrain, CallsType
  <2>2. PcType' /\ EnsuredType'
    BY <1>0, <1>16 DEF EndDrain, PcType, Pcs, EnsuredType
  <2>3. ClockType' /\ RowType' /\ FlagType' /\ DueType' /\ AcquiredType' /\ KnownType' /\ TakenType'
    BY <1>16 DEF EndDrain, ClockType, RowType, FlagType, DueType, AcquiredType, KnownType, TakenType
  <2> QED BY <2>1, <2>2, <2>3
<1>17. ASSUME NEW p \in Procs, ReleaseNext(p) PROVE Types'
  <2>1. TakenType'
    BY <1>0, <1>17 DEF ReleaseNext, TakenType
  <2>2. RowType'
    <3>1. Free \in Rows
      BY DEF Free, Rows
    <3>2. row' \in {row, [row EXCEPT ![Plan[p][taken[p]]] = Free]}
      BY <1>17 DEF ReleaseNext
    <3> QED BY <3>1, <3>2 DEF RowType
  <2>3. FlagType' /\ ClockType'
    <3>1. /\ lost' = lost /\ stop' = stop /\ now' = now
          /\ clean' \in {clean, [clean EXCEPT ![p] = FALSE]} /\ errors' \in {errors, errors + 1}
      BY <1>17 DEF ReleaseNext
    <3>2. FlagType'
      BY <3>1 DEF FlagType
    <3> QED BY <3>1, <3>2 DEF ClockType
  <2>4. PcType' /\ DueType' /\ AcquiredType' /\ KnownType' /\ CallsType' /\ EnsuredType'
    BY <1>17 DEF ReleaseNext, PcType, DueType, AcquiredType, KnownType, CallsType, EnsuredType, writerVars
  <2> QED BY <2>1, <2>2, <2>3, <2>4
<1>18. ASSUME NEW p \in Procs, Exit(p) PROVE Types'
  <2>1. PcType'
    BY <1>18 DEF Exit, PcType, Pcs
  <2>2. ClockType' /\ RowType' /\ CallsType' /\ clean' = clean /\ Forget(p)
    BY <1>18 DEF Exit, ClockType, RowType, CallsType
  <2> QED BY <2>1, <2>2, ForgetTypes DEF FlagType
<1>19. ASSUME NEW p \in Procs, Crash(p) PROVE Types'
  <2>1. CallsType' /\ PcType'
    BY <1>19 DEF Crash, CallsType, PcType, Pcs
  <2>2. ClockType' /\ RowType' /\ clean' = clean /\ Forget(p)
    BY <1>19 DEF Crash, ClockType, RowType
  <2> QED BY <2>1, <2>2, ForgetTypes DEF FlagType
<1>20. CASE Tick
  <2>1. ClockType'
    BY <1>20 DEF Tick, ClockType
  <2>2. RowType' /\ PcType' /\ FlagType' /\ DueType' /\ AcquiredType' /\ KnownType' /\ TakenType' /\ CallsType' /\ EnsuredType'
    BY <1>20 DEF Tick, RowType, PcType, FlagType, DueType, AcquiredType, KnownType, TakenType, CallsType, EnsuredType,
                writerVars, procVars
  <2> QED BY <2>1, <2>2
<1>21. CASE UNCHANGED vars
  BY <1>21 DEF vars, ClockType, RowType, PcType, FlagType, DueType, AcquiredType, KnownType, TakenType, CallsType, EnsuredType,
              writerVars, procVars
<1> QED BY <1>1, <1>2, <1>3, <1>5, <1>6, <1>7, <1>8, <1>9, <1>11, <1>12, <1>14, <1>15,
           <1>16, <1>17, <1>18, <1>19, <1>20, <1>21 DEF Next

-----------------------------------------------------------------------------
(* What a step touches.                                                    *)

ProcStep(p) ==
    \/ TakeGranted(p) \/ TakeRefused(p) \/ Begin(p)
    \/ \E r \in Resources : KeeperAsks(p, r) \/ KeeperSeesLoss(p, r) \/ KeeperApplies(p, r)
    \/ EnsureAsks(p) \/ EnsureSeesLoss(p) \/ EnsureApplies(p) \/ Write(p)
    \/ \E c \in Clients : Exec(p, c) \/ ExecFails(p, c)
    \/ StopSignal(p) \/ BeginShutdown(p) \/ EndDrain(p)
    \/ ReleaseNext(p) \/ Exit(p) \/ Crash(p)

Same(q) == /\ pc'[q] = pc[q] /\ taken'[q] = taken[q] /\ known'[q] = known[q] /\ due'[q] = due[q]
           /\ deadline'[q] = deadline[q] /\ call'[q] = call[q] /\ ensured'[q] = ensured[q]
           /\ readyAt'[q] = readyAt[q] /\ clean'[q] = clean[q]

\* A step is the clock's, nobody's, or one process's, which touches no other.
LEMMA Footprint ==
    ASSUME Types, [Next]_vars
    PROVE  Tick \/ UNCHANGED vars \/ \E p \in Procs : ProcStep(p)
BY DEF Next, ProcStep

LEMMA OthersSame ==
    ASSUME Types, NEW p \in Procs, ProcStep(p), NEW q \in Procs \ {p}
    PROVE  Same(q) /\ now' = now
<1> USE DEF Types, PcType, TakenType, KnownType, DueType, CallsType, EnsuredType, FlagType, Same
<1>1. CASE TakeGranted(p) \/ TakeRefused(p) \/ Begin(p) 
  <2>1. CASE TakeGranted(p)
    BY <2>1 DEF TakeGranted, writerVars
  <2>2. CASE TakeRefused(p)
    BY <2>2 DEF TakeRefused, writerVars
  <2>3. CASE Begin(p)
    BY <2>3 DEF Begin, writerVars
  <2> QED BY <1>1, <2>1, <2>2, <2>3
<1>2. CASE \E r \in Resources : KeeperAsks(p, r) \/ KeeperSeesLoss(p, r) \/ KeeperApplies(p, r)
  BY <1>2 DEF KeeperAsks, Ask, KeeperSeesLoss, KeeperApplies, Applied, writerVars
<1>3. CASE EnsureAsks(p) \/ EnsureSeesLoss(p) \/ EnsureApplies(p) \/ Write(p)
  BY <1>3 DEF EnsureAsks, Ask, EnsureSeesLoss, EnsureApplies, Write, Applied, procVars, writerVars
<1>4. CASE \E c \in Clients : Exec(p, c) \/ ExecFails(p, c)
  BY <1>4 DEF Exec, ExecFails, procVars, writerVars
<1>5. CASE StopSignal(p) \/ BeginShutdown(p) \/ EndDrain(p)
  BY <1>5 DEF StopSignal, BeginShutdown, EndDrain, writerVars
<1>6. CASE ReleaseNext(p)
  BY <1>6 DEF ReleaseNext, writerVars
<1>7. CASE Exit(p) \/ Crash(p)
  BY <1>7 DEF Exit, Crash, Forget
<1> QED BY <1>1, <1>2, <1>3, <1>4, <1>5, <1>6, <1>7 DEF ProcStep

\* How a process may change a row: ACQUIRE_SQL with a clock read at most one
\* call ago, or the release of a lease of its own.
RowTaken(q, r) == \E t \in Nat : /\ t <= now /\ now <= t + MaxCall
                                 /\ Takes(q, r, t)
                                 /\ row'[r].holder = q /\ row'[r].expires = t + Ttl

RowFreed(q, r) == /\ row[r].holder = q /\ row'[r] = Free
                  /\ pc[q] \in {"undoing", "releasing"}

LEMMA AcquiredStep ==
    ASSUME Types, NEW p \in Procs, NEW r \in Resources, NEW s \in Resources, NEW t \in Nat,
           t <= now, now <= t + MaxCall,
           row' \in {row, [row EXCEPT ![s] = Acquired(p, s, t)]}
    PROVE  row'[r] = row[r] \/ (r = s /\ RowTaken(p, r))
<1>1. CASE row' = row \/ r # s
  BY <1>1 DEF Types, RowType
<1>2. CASE row' = [row EXCEPT ![s] = Acquired(p, s, t)] /\ r = s
  <2>1. row'[r] = Acquired(p, r, t)
    BY <1>2 DEF Types, RowType
  <2> QED BY <1>2, <2>1, AcquiredRow DEF RowTaken
<1> QED BY <1>1, <1>2

LEMMA RowStep ==
    ASSUME Types, CallTimes, NEW p \in Procs, ProcStep(p), NEW r \in Resources
    PROVE  row'[r] = row[r] \/ RowTaken(p, r) \/ RowFreed(p, r)
<1>0. /\ now \in Nat /\ now <= now /\ now <= now + MaxCall
      /\ taken[p] \in Nat /\ taken[p] <= Len(Plan[p]) /\ Len(Plan[p]) \in Nat
  BY LeaseAssumption, PlanResources DEF Types, ClockType, TakenType
<1>1. CASE TakeGranted(p)
  <2> DEFINE s == Plan[p][taken[p] + 1]
  <2>1. s \in Resources
    BY <1>0, <1>1, PlanNext DEF TakeGranted
  <2>2. PICK t \in Time : t <= now /\ t >= now - MaxCall /\ row' = [row EXCEPT ![s] = Acquired(p, s, t)]
    BY <1>1 DEF TakeGranted
  <2>3. t \in Nat /\ now <= t + MaxCall
    BY <1>0, <2>2, LeaseAssumption DEF Time
  <2> HIDE DEF s
  <2> QED BY <2>1, <2>2, <2>3, AcquiredStep
<1>2. CASE TakeRefused(p)
  <2> DEFINE s == Plan[p][taken[p] + 1]
  <2>1. s \in Resources
    BY <1>0, <1>2, PlanNext DEF TakeRefused
  <2>2. row' \in {row, [row EXCEPT ![s] = Acquired(p, s, now)]}
    BY <1>2 DEF TakeRefused
  <2> HIDE DEF s
  <2> QED BY <1>0, <2>1, <2>2, AcquiredStep
<1>3. CASE \E c \in Clients : Exec(p, c) \/ ExecFails(p, c)
  <2>1. PICK c \in Clients : Exec(p, c) \/ ExecFails(p, c)
    BY <1>3
  <2>2. /\ call[p][c].res \in Resources /\ call[p][c].t \in Nat
        /\ call[p][c].t <= now /\ now <= call[p][c].t + MaxCall
    BY <2>1, CallType DEF Exec, ExecFails, CallTimes
  <2>3. row' \in {row, [row EXCEPT ![call[p][c].res] = Acquired(p, call[p][c].res, call[p][c].t)]}
    BY <2>1 DEF Exec, ExecFails
  <2> QED BY <2>2, <2>3, AcquiredStep
<1>4. CASE ReleaseNext(p)
  BY <1>4 DEF ReleaseNext, RowFreed, Types, RowType
<1>5. CASE \/ Begin(p) \/ EnsureAsks(p) \/ EnsureSeesLoss(p) \/ EnsureApplies(p) \/ Write(p)
           \/ \E s \in Resources : KeeperAsks(p, s) \/ KeeperSeesLoss(p, s) \/ KeeperApplies(p, s)
           \/ StopSignal(p) \/ BeginShutdown(p) \/ EndDrain(p) \/ Exit(p) \/ Crash(p)
  BY <1>5 DEF Begin, EnsureAsks, EnsureSeesLoss, EnsureApplies, Write, KeeperAsks, KeeperSeesLoss, KeeperApplies,
              StopSignal, BeginShutdown, EndDrain, Exit, Crash
<1> QED BY <1>1, <1>2, <1>3, <1>4, <1>5 DEF ProcStep

\* Nobody takes a lease that has not run out, and its holder's own renewals
\* leave it what is left of a TTL.
LEMMA HeldStays ==
    ASSUME Types, CallTimes, [Next]_vars, NEW p \in Procs, Holding(p), NEW r \in Resources,
           NEW e \in Int, e <= now - MaxCall + Ttl, HeldUntil(p, r, e), row[r].expires > now
    PROVE  HeldUntil(p, r, e)'
<1>1. CASE Tick \/ UNCHANGED vars
  BY <1>1 DEF Tick, vars, HeldUntil
<1>2. ASSUME NEW q \in Procs, ProcStep(q) PROVE HeldUntil(p, r, e)'
  <2>1. CASE row'[r] = row[r]
    BY <2>1 DEF HeldUntil
  <2>2. CASE RowTaken(q, r)
    <3>1. PICK t \in Nat : t <= now /\ now <= t + MaxCall /\ Takes(q, r, t) /\ row'[r].holder = q /\ row'[r].expires = t + Ttl
      BY <2>2 DEF RowTaken
    <3>2. row[r].expires \in Nat /\ now \in Nat
      BY DEF Types, RowType, Rows, ClockType
    <3>3. q = p
      BY <3>1, <3>2, LeaseAssumption DEF Takes, HeldUntil
    <3> QED BY <3>1, <3>2, <3>3, LeaseAssumption DEF HeldUntil
  <2>3. CASE RowFreed(q, r)
    BY <2>3 DEF RowFreed, HeldUntil, Holding
  <2> QED BY <1>2, <2>1, <2>2, <2>3, RowStep
<1> QED BY <1>1, <1>2, Footprint

\* How a call moves: asked with the clock of the step, answered, over.
CallAsked(p, c) ==
    /\ call[p][c] = Idle /\ Live(p) /\ pc' = pc /\ now' = now /\ ensured' = ensured
    /\ call'[p][c].at = "asked" /\ call'[p][c].t = now /\ call'[p][c].res \in Resources
    /\ call'[p][c].guarded = (now + Guard < known[p][call'[p][c].res])
    /\ call'[p][c].answer = "none"
    /\ c \in Resources => call'[p][c].res = c
    /\ c = Writer => ensured[p] < Len(Plan[p]) /\ call'[p][c].res = Plan[p][ensured[p] + 1]

CallAnswered(p, c) ==
    /\ call[p][c].at = "asked" /\ Live(p) /\ pc' = pc /\ now' = now /\ ensured' = ensured
    /\ call'[p][c].at = "answered" /\ call'[p][c].t = call[p][c].t
    /\ call'[p][c].res = call[p][c].res /\ call'[p][c].answer # "none"
    /\ call'[p][c].guarded => call[p][c].guarded /\ call'[p][c].answer = "error"
    /\ call'[p][c].answer = "granted" =>
          Exec(p, c) /\ Answer(p, call[p][c].res, call[p][c].t) = "granted"

LEMMA CallStep ==
    ASSUME Types, NEW p \in Procs, ProcStep(p), NEW c \in Clients
    PROVE  call'[p][c] \in {call[p][c], Idle} \/ CallAsked(p, c) \/ CallAnswered(p, c)
<1>0. call \in [Procs -> [Clients -> Calls \cup {Idle}]] /\ pc \in [Procs -> Pcs]
  BY DEF Types, CallsType, PcType
<1>1. ASSUME NEW r \in Resources, KeeperAsks(p, r) PROVE call'[p][c] = call[p][c] \/ CallAsked(p, c)
  <2>1. r \in Clients /\ r # Writer
    BY LeaseAssumption DEF Clients
  <2>2. CASE c # r
    BY <1>0, <1>1, <2>1, <2>2 DEF KeeperAsks, Ask
  <2>3. CASE c = r
    BY <1>0, <1>1, <2>1, <2>3 DEF KeeperAsks, Ask, CallAsked, writerVars
  <2> QED BY <2>2, <2>3
<1>2. ASSUME EnsureAsks(p) PROVE call'[p][c] = call[p][c] \/ CallAsked(p, c)
  <2>1. Writer \in Clients /\ Writer \notin Resources
    BY LeaseAssumption DEF Clients
  <2>2. CASE c # Writer
    BY <1>0, <1>2, <2>1, <2>2 DEF EnsureAsks, Ask
  <2>3. CASE c = Writer
    <3>1. Plan[p][ensured[p] + 1] \in Resources
      BY <1>2, PlanNext DEF EnsureAsks, Types, EnsuredType
    <3> QED BY <1>0, <1>2, <2>1, <2>3, <3>1 DEF EnsureAsks, Ask, CallAsked, writerVars, procVars
  <2> QED BY <2>2, <2>3
<1>3. ASSUME NEW d \in Clients, Exec(p, d) \/ ExecFails(p, d)
      PROVE  call'[p][c] \in {call[p][c], Idle} \/ CallAnswered(p, c)
  <2>1. CASE c # d
    BY <1>0, <1>3, <2>1 DEF Exec, ExecFails
  <2>2. CASE c = d /\ Live(p)
    <3> DEFINE k == call[p][c]
    <3>1. k.at = "asked" /\ k \in Calls /\ pc' = pc /\ now' = now /\ ensured' = ensured
      BY <1>3, <2>2, CallType DEF Exec, ExecFails, procVars, writerVars
    <3>2a. PICK a : /\ call' = [call EXCEPT ![p][c] = Reply(p, k, a)]
                    /\ a = "error" \/ (Exec(p, c) /\ a = Answer(p, k.res, k.t))
      <4>1. CASE Exec(p, c)
        BY <4>1 DEF Exec
      <4>2. CASE ExecFails(p, c)
        BY <4>2 DEF ExecFails
      <4> QED BY <1>3, <2>2, <4>1, <4>2
    <3>2. call'[p][c] = [k EXCEPT !.at = "answered", !.answer = a, !.guarded = k.guarded /\ a = "error"]
      BY <1>0, <2>2, <3>2a DEF Reply
    <3>3. /\ call'[p][c].at = "answered" /\ call'[p][c].t = k.t /\ call'[p][c].res = k.res
          /\ call'[p][c].answer = a /\ call'[p][c].guarded = (k.guarded /\ a = "error")
      BY <3>1, <3>2 DEF Calls
    <3> QED BY <2>2, <3>1, <3>2a, <3>3 DEF CallAnswered, Answer
  <2>3. CASE c = d /\ ~Live(p)
    BY <1>0, <1>3, <2>3 DEF Exec, ExecFails, Reply
  <2> QED BY <2>1, <2>2, <2>3
<1>4. ASSUME NEW d \in Clients, Applied(p, d) PROVE call'[p][c] \in {call[p][c], Idle}
  BY <1>0, <1>4 DEF Applied
<1>5. CASE (\E r \in Resources : KeeperApplies(p, r)) \/ EnsureApplies(p)
  BY <1>4, <1>5 DEF KeeperApplies, EnsureApplies, Clients
<1>6. CASE EndDrain(p) \/ Crash(p)
  BY <1>0, <1>6 DEF EndDrain, Crash
<1>7. CASE \/ TakeGranted(p) \/ TakeRefused(p) \/ Begin(p) \/ EnsureSeesLoss(p) \/ Write(p)
           \/ (\E s \in Resources : KeeperSeesLoss(p, s))
           \/ StopSignal(p) \/ BeginShutdown(p) \/ ReleaseNext(p) \/ Exit(p)
  BY <1>7 DEF TakeGranted, TakeRefused, Begin, EnsureSeesLoss, Write, KeeperSeesLoss, StopSignal,
              BeginShutdown, ReleaseNext, Exit
<1> QED BY <1>1, <1>2, <1>3, <1>5, <1>6, <1>7 DEF ProcStep

LEMMA CallTimesStep ==
    ASSUME Types, CallTimes, [Next]_vars
    PROVE  CallTimes'
<1>0. now \in Nat /\ MaxCall \in Nat /\ Types'
  BY LeaseAssumption, TypesStep DEF Types, ClockType
<1> SUFFICES ASSUME NEW p \in Procs, NEW c \in Clients, call'[p][c] # Idle
             PROVE  call'[p][c].t <= now' /\ now' <= call'[p][c].t + MaxCall
  BY DEF CallTimes, Idle
<1>1. CASE Tick
  <2>1. call[p][c] # Idle /\ call' = call /\ now' = now + 1 /\ now - call[p][c].t < MaxCall
    BY <1>1 DEF Tick, MayPass
  <2> QED BY <1>0, <2>1, CallType DEF CallTimes
<1>2. CASE UNCHANGED vars
  BY <1>2 DEF vars, CallTimes
<1>3. ASSUME NEW q \in Procs, ProcStep(q) PROVE call'[p][c].t <= now' /\ now' <= call'[p][c].t + MaxCall
  <2>1. now' = now
    BY <1>3 DEF ProcStep, TakeGranted, TakeRefused, Begin, EnsureSeesLoss, Write, KeeperSeesLoss, StopSignal,
              BeginShutdown, ReleaseNext, Exit, KeeperAsks, KeeperApplies, EnsureAsks, EnsureApplies, Exec, ExecFails,
              EndDrain, Crash
  <2>2. CASE p # q
    BY <1>3, <2>1, <2>2, OthersSame DEF Same, CallTimes
  <2>3. CASE p = q
    <3>1. call'[p][c] = call[p][c] \/ CallAsked(p, c) \/ CallAnswered(p, c)
      BY <1>3, <2>3, CallStep
    <3>2. CASE CallAsked(p, c)
      BY <1>0, <2>1, <3>2 DEF CallAsked
    <3>3. CASE CallAnswered(p, c)
      BY <2>1, <3>3, CallType DEF CallAnswered, CallTimes
    <3> QED BY <2>1, <3>1, <3>2, <3>3 DEF CallTimes
  <2> QED BY <2>2, <2>3
<1> QED BY <1>1, <1>2, <1>3, Footprint

LEMMA CallsLiveStep ==
    ASSUME Types, CallsLive, [Next]_vars
    PROVE  CallsLive'
<1> SUFFICES ASSUME NEW p \in Procs
             PROVE  /\ pc'[p] \in {"down", "undoing", "refused"} => \A c \in Clients : call'[p][c] = Idle
                    /\ pc'[p] \notin {"up", "draining"} => ensured'[p] = 0
  BY DEF CallsLive, Live, Idle
<1>1. CASE Tick \/ UNCHANGED vars
  BY <1>1 DEF Tick, vars, CallsLive, Live, procVars, writerVars
<1>2. ASSUME NEW q \in Procs \ {p}, ProcStep(q)
      PROVE  /\ pc'[p] \in {"down", "undoing", "refused"} => \A c \in Clients : call'[p][c] = Idle
             /\ pc'[p] \notin {"up", "draining"} => ensured'[p] = 0
  BY <1>2, OthersSame DEF Same, CallsLive, Live
<1>3. CASE ProcStep(p)
  <2>0. pc \in [Procs -> Pcs] /\ ensured \in [Procs -> Nat]
    BY DEF Types, PcType, EnsuredType
  <2>1. pc'[p] \in {"down", "undoing", "refused"} => pc[p] \in {"down", "undoing", "refused"}
    BY <1>3, <2>0 DEF ProcStep, TakeGranted, TakeRefused, Begin, EnsureSeesLoss, Write, KeeperSeesLoss, StopSignal,
              BeginShutdown, ReleaseNext, Exit, KeeperAsks, KeeperApplies, EnsureAsks, EnsureApplies, Exec, ExecFails,
              EndDrain, Crash, procVars
  <2>2. pc'[p] \in {"down", "undoing", "refused"} => \A c \in Clients : call'[p][c] = Idle
    <3> SUFFICES ASSUME pc'[p] \in {"down", "undoing", "refused"}, NEW c \in Clients PROVE call'[p][c] = Idle
      OBVIOUS
    <3>1. call[p][c] = Idle /\ ~Live(p) /\ Idle.at # "asked"
      BY <2>1 DEF CallsLive, Live, Idle
    <3> QED BY <1>3, <3>1, CallStep DEF CallAsked, CallAnswered
  <2>3. pc'[p] \notin {"up", "draining"} => ensured'[p] = 0
    <3>1. CASE EndDrain(p) \/ Exit(p) \/ Crash(p)
      BY <2>0, <3>1 DEF EndDrain, Exit, Crash, Forget
    <3>2. CASE \/ TakeGranted(p) \/ TakeRefused(p) \/ Begin(p) \/ StopSignal(p) \/ BeginShutdown(p) \/ ReleaseNext(p)
               \/ \E c \in Clients : Exec(p, c) \/ ExecFails(p, c)
      <4>1. ensured' = ensured
        BY <3>2 DEF TakeGranted, TakeRefused, Begin, StopSignal, BeginShutdown, ReleaseNext, Exec, ExecFails, writerVars
      <4>2. pc'[p] \notin {"up", "draining"} => pc[p] \notin {"up", "draining"}
        BY <2>0, <3>2 DEF TakeGranted, TakeRefused, Begin, StopSignal, BeginShutdown, ReleaseNext, Exec, ExecFails, procVars
      <4> QED BY <4>1, <4>2 DEF CallsLive, Live
    <3>3. CASE \/ EnsureAsks(p) \/ EnsureSeesLoss(p) \/ EnsureApplies(p) \/ Write(p)
               \/ \E r \in Resources : KeeperAsks(p, r) \/ KeeperSeesLoss(p, r) \/ KeeperApplies(p, r)
      BY <3>3 DEF EnsureAsks, EnsureSeesLoss, EnsureApplies, Write, KeeperAsks, KeeperSeesLoss, KeeperApplies,
                  Ask, Applied, Live, procVars
    <3> QED BY <1>3, <3>1, <3>2, <3>3 DEF ProcStep
  <2> QED BY <2>2, <2>3
<1> QED BY <1>1, <1>2, <1>3, Footprint

LEMMA AnsweredStep ==
    ASSUME Types, Answered, [Next]_vars
    PROVE  Answered'
<1> SUFFICES ASSUME NEW p \in Procs, NEW c \in Clients, call'[p][c].at = "answered" PROVE call'[p][c].answer # "none"
  BY DEF Answered
<1>1. CASE Tick \/ UNCHANGED vars
  BY <1>1 DEF Tick, vars, Answered
<1>2. ASSUME NEW q \in Procs \ {p}, ProcStep(q) PROVE call'[p][c].answer # "none"
  BY <1>2, OthersSame DEF Same, Answered
<1>3. CASE ProcStep(p)
  BY <1>3, CallStep DEF CallAsked, CallAnswered, Answered, Idle
<1> QED BY <1>1, <1>2, <1>3, Footprint

LEMMA KeeperCallsStep ==
    ASSUME Types, KeeperCalls, [Next]_vars
    PROVE  KeeperCalls'
<1> SUFFICES ASSUME NEW p \in Procs, NEW r \in Resources, call'[p][r] # Idle
             PROVE  call'[p][r].res = r
  BY DEF KeeperCalls, Idle
<1>0. r \in Clients
  BY DEF Clients
<1>1. CASE Tick \/ UNCHANGED vars
  BY <1>1 DEF Tick, vars, KeeperCalls
<1>2. ASSUME NEW q \in Procs \ {p}, ProcStep(q) PROVE call'[p][r].res = r
  BY <1>2, OthersSame DEF Same, KeeperCalls
<1>3. CASE ProcStep(p)
  BY <1>0, <1>3, CallStep, CallType DEF CallAsked, CallAnswered, KeeperCalls
<1> QED BY <1>1, <1>2, <1>3, Footprint

\* How far ensure has come: reset, one lease further, or as it was.
EnsureReset(p) == ensured'[p] = 0 /\ (EnsureSeesLoss(p) \/ EnsureApplies(p) \/ Write(p) \/ EndDrain(p) \/ Exit(p) \/ Crash(p))

EnsureMoved(p) == /\ EnsureApplies(p) /\ ~Loses(call[p][Writer])
                  /\ ensured'[p] = ensured[p] + 1
                  /\ readyAt'[p] = IF ensured'[p] = Len(Plan[p]) THEN now ELSE 0
                  /\ call'[p][Writer] = Idle

LEMMA EnsureStep ==
    ASSUME Types, NEW p \in Procs, ProcStep(p)
    PROVE  \/ ensured'[p] = ensured[p] /\ readyAt'[p] = readyAt[p]
           \/ EnsureReset(p) \/ EnsureMoved(p)
<1>0. ensured \in [Procs -> Nat] /\ readyAt \in [Procs -> Nat] /\ call \in [Procs -> [Clients -> Calls \cup {Idle}]] 
  BY DEF Types, EnsuredType, CallsType
<1>1. CASE EnsureApplies(p)
  <2>1. CASE Loses(call[p][Writer])
    BY <1>0, <1>1, <2>1 DEF EnsureApplies, EnsureReset
  <2>2. CASE ~Loses(call[p][Writer])
    <3>1. ensured'[p] = ensured[p] + 1
      BY <1>0, <1>1, <2>2 DEF EnsureApplies
    <3>2. readyAt'[p] = IF ensured'[p] = Len(Plan[p]) THEN now ELSE 0
      BY <1>0, <1>1 DEF EnsureApplies
    <3>3. call'[p][Writer] = Idle
      BY <1>0, <1>1 DEF EnsureApplies, Applied, Clients
    <3> QED BY <1>1, <2>2, <3>1, <3>2, <3>3 DEF EnsureMoved
  <2> QED BY <2>1, <2>2
<1>2. CASE EnsureSeesLoss(p) \/ Write(p) \/ EndDrain(p)
  BY <1>0, <1>2 DEF EnsureSeesLoss, Write, EndDrain, EnsureReset
<1>3. CASE Exit(p) \/ Crash(p)
  BY <1>0, <1>3 DEF Exit, Crash, Forget, EnsureReset
<1>4. CASE \/ TakeGranted(p) \/ TakeRefused(p) \/ Begin(p) \/ EnsureAsks(p)
           \/ (\E r \in Resources : KeeperAsks(p, r) \/ KeeperSeesLoss(p, r) \/ KeeperApplies(p, r))
           \/ (\E c \in Clients : Exec(p, c) \/ ExecFails(p, c))
           \/ StopSignal(p) \/ BeginShutdown(p) \/ ReleaseNext(p)
  BY <1>4 DEF TakeGranted, TakeRefused, Begin, EnsureAsks, KeeperAsks, KeeperSeesLoss, KeeperApplies, Exec, ExecFails,
              StopSignal, BeginShutdown, ReleaseNext, writerVars
<1> QED BY <1>1, <1>2, <1>3, <1>4 DEF ProcStep

\* Only a start that took its plan becomes live; a live process does not
\* become one that is not starting.
LEMMA PcStep ==
    ASSUME Types, NEW p \in Procs, ProcStep(p)
    PROVE  /\ Live(p)' => Live(p) \/ (Begin(p) /\ pc[p] = "down" /\ pc'[p] = "up")
           /\ Holding(p)' => Holding(p)
           /\ pc'[p] = "down" => pc[p] = "down"
<1>0. pc \in [Procs -> Pcs]
  BY DEF Types, PcType
<1> QED
  BY <1>0 DEF ProcStep, TakeGranted, TakeRefused, Begin, EnsureSeesLoss, Write, KeeperSeesLoss, StopSignal,
            BeginShutdown, ReleaseNext, Exit, KeeperAsks, KeeperApplies, EnsureAsks, EnsureApplies, Exec, ExecFails,
            EndDrain, Crash, procVars, Live, Holding

LEMMA WriterCallsStep ==
    ASSUME Types, CallsLive, WriterCalls, [Next]_vars
    PROVE  WriterCalls'
<1>0. now \in Nat /\ WriteTime \in Nat /\ Writer \in Clients /\ Types'
  BY LeaseAssumption, TypesStep DEF Types, ClockType, Clients
<1> SUFFICES ASSUME NEW p \in Procs
             PROVE  /\ ensured'[p] <= Len(Plan[p])
                    /\ Live(p)' /\ call'[p][Writer] # Idle =>
                          ensured'[p] < Len(Plan[p]) /\ call'[p][Writer].res = Plan[p][ensured'[p] + 1]
                    /\ Live(p)' /\ ensured'[p] = Len(Plan[p]) => readyAt'[p] <= now' /\ now' <= readyAt'[p] + WriteTime
  BY DEF WriterCalls, Idle, Ready
<1> DEFINE G == /\ ensured'[p] <= Len(Plan[p])
                /\ Live(p)' /\ call'[p][Writer] # Idle =>
                      ensured'[p] < Len(Plan[p]) /\ call'[p][Writer].res = Plan[p][ensured'[p] + 1]
                /\ Live(p)' /\ ensured'[p] = Len(Plan[p]) => readyAt'[p] <= now' /\ now' <= readyAt'[p] + WriteTime
<1>01. /\ Len(Plan[p]) \in Nat \ {0} /\ ensured[p] \in Nat /\ readyAt[p] \in Nat
  BY PlanResources DEF Types, EnsuredType
<1>1. CASE Tick
  <2>1. UNCHANGED <<pc, call, ensured, readyAt>> /\ now' = now + 1
        /\ (Live(p) /\ Ready(p) => now - readyAt[p] < WriteTime)
    BY <1>1 DEF Tick, MayPass, procVars, writerVars
  <2> QED BY <1>0, <1>01, <2>1 DEF WriterCalls, Live, Ready
<1>2. CASE UNCHANGED vars
  BY <1>2 DEF vars, procVars, writerVars, WriterCalls, Live, Ready
<1>3. ASSUME NEW q \in Procs \ {p}, ProcStep(q) PROVE G
  BY <1>3, OthersSame DEF Same, WriterCalls, Live, Ready
<1>4. CASE ProcStep(p)
  <2>1. now' = now
    BY <1>4 DEF ProcStep, TakeGranted, TakeRefused, Begin, EnsureSeesLoss, Write, KeeperSeesLoss, StopSignal,
              BeginShutdown, ReleaseNext, Exit, KeeperAsks, KeeperApplies, EnsureAsks, EnsureApplies, Exec, ExecFails,
              EndDrain, Crash
  <2>2. CASE EnsureReset(p)
    <3>1. EnsureSeesLoss(p) => call' = call /\ call[p][Writer] = Idle
      BY DEF EnsureSeesLoss
    <3>2. EnsureApplies(p) => call'[p][Writer] = Idle
      BY <1>0 DEF EnsureApplies, Applied, Types, CallsType
    <3>3. Write(p) => call' = call /\ call[p][Writer] = Idle
      BY <1>01 DEF Write, WriterCalls, Ready
    <3>4. EndDrain(p) \/ Exit(p) \/ Crash(p) => ~Live(p)'
      BY DEF EndDrain, Exit, Crash, Live, Types, PcType
    <3> QED BY <1>01, <2>2, <3>1, <3>2, <3>3, <3>4 DEF EnsureReset
  <2>3. CASE EnsureMoved(p)
    <3>1. Live(p) /\ call[p][Writer].at = "answered"
      BY <2>3 DEF EnsureMoved, EnsureApplies, Applied
    <3>2. ensured[p] < Len(Plan[p])
      BY <1>0, <3>1, CallType DEF WriterCalls
    <3> QED BY <1>0, <1>01, <2>1, <2>3, <3>2 DEF EnsureMoved
  <2>4. CASE ensured'[p] = ensured[p] /\ readyAt'[p] = readyAt[p]
    <3>1. CASE Begin(p) /\ pc[p] = "down" /\ pc'[p] = "up"
      <4>1. call' = call /\ call[p][Writer] = Idle /\ ensured[p] = 0
        BY <1>0, <3>1 DEF Begin, CallsLive, Live
      <4> QED BY <1>01, <2>4, <4>1
    <3>2. CASE Live(p)
      <4>1. CASE call'[p][Writer] = call[p][Writer] \/ call'[p][Writer] = Idle
        BY <1>0, <2>1, <2>4, <3>2, <4>1 DEF WriterCalls, Ready
      <4>2. CASE CallAsked(p, Writer)
        BY <1>0, <2>1, <2>4, <3>2, <4>2 DEF WriterCalls, Ready, CallAsked
      <4>3. CASE CallAnswered(p, Writer)
        <5>1. call[p][Writer] # Idle
          BY <4>3 DEF CallAnswered, Idle
        <5> QED BY <1>0, <2>1, <2>4, <3>2, <4>3, <5>1 DEF WriterCalls, Ready, CallAnswered
      <4> QED BY <1>0, <1>4, <4>1, <4>2, <4>3, CallStep
    <3>3. CASE ~Live(p)'
      BY <2>4, <3>3 DEF WriterCalls
    <3> QED BY <1>4, <3>1, <3>2, <3>3, PcStep
  <2> QED BY <1>4, <2>2, <2>3, <2>4, EnsureStep
<1> QED BY <1>1, <1>2, <1>3, <1>4, Footprint

\* What a process knows of a lease: as it was, forgotten, as taken, or as
\* granted.
KnownTaken(p, r) == \E t \in Nat : /\ t <= now /\ known'[p][r] = t + Ttl
                                   /\ row'[r].holder = p /\ row'[r].expires = t + Ttl

KnownGranted(p, r) ==
    \E c \in Clients :
        /\ Live(p) /\ call[p][c].at = "answered" /\ call[p][c].answer = "granted" /\ call[p][c].res = r
        /\ known'[p][r] = call[p][c].t + Ttl /\ known'[p][r] >= known[p][r]
        /\ row' = row

LEMMA KnownStep ==
    ASSUME Types, NEW p \in Procs, ProcStep(p), NEW r \in Resources
    PROVE  \/ known'[p][r] = known[p][r]
           \/ known'[p][r] = 0 /\ ~Holding(p)'
           \/ KnownTaken(p, r) /\ ~Live(p)
           \/ KnownGranted(p, r)
<1>0. known \in [Procs -> [Resources -> Nat]] /\ row \in [Resources -> Rows] /\ pc \in [Procs -> Pcs]
  BY DEF Types, KnownType, RowType, PcType
<1>1. CASE TakeGranted(p)
  <2> DEFINE s == Plan[p][taken[p] + 1]
  <2>1. s \in Resources
    <3>1. taken[p] \in Nat
      BY DEF Types, TakenType
    <3> QED BY <3>1, <1>1, PlanNext DEF TakeGranted
  <2>2. PICK t \in Time : /\ t <= now /\ Takes(p, s, t) /\ row' = [row EXCEPT ![s] = Acquired(p, s, t)]
                          /\ known' = [known EXCEPT ![p][s] = t + Ttl]
    BY <1>1 DEF TakeGranted
  <2>3. t \in Nat
    BY LeaseAssumption DEF Time
  <2> HIDE DEF s
  <2>4. Acquired(p, s, t).holder = p /\ Acquired(p, s, t).expires = t + Ttl
    BY <2>1, <2>2, <2>3, AcquiredRow
  <2>5. CASE r = s
    BY <1>0, <1>1, <2>1, <2>2, <2>3, <2>4, <2>5 DEF KnownTaken, TakeGranted, Live
  <2>6. CASE r # s
    BY <1>0, <2>1, <2>2, <2>6
  <2> QED BY <2>5, <2>6
<1>2. ASSUME NEW c \in Clients, Applied(p, c), row' = row PROVE known'[p][r] = known[p][r] \/ KnownGranted(p, r)
  <2>1. call[p][c].res \in Resources /\ call[p][c].t \in Nat /\ call[p][c].t + Ttl \in Nat
    BY <1>2, CallType, LeaseAssumption DEF Applied
  <2>2. CASE call[p][c].answer = "granted" /\ call[p][c].res = r /\ ~(known[p][r] >= call[p][c].t + Ttl)
    <3>1. known'[p][r] = call[p][c].t + Ttl
      BY <1>0, <1>2, <2>1, <2>2 DEF Applied
    <3> QED BY <1>0, <1>2, <2>1, <2>2, <3>1 DEF Applied, KnownGranted
  <2>3. CASE ~(call[p][c].answer = "granted" /\ call[p][c].res = r /\ ~(known[p][r] >= call[p][c].t + Ttl))
    BY <1>0, <1>2, <2>1, <2>3 DEF Applied
  <2> QED BY <2>2, <2>3
<1>3. CASE (\E s \in Resources : KeeperApplies(p, s)) \/ EnsureApplies(p)
  BY <1>2, <1>3 DEF KeeperApplies, EnsureApplies, Clients
<1>4. CASE Exit(p) \/ Crash(p)
  BY <1>0, <1>4 DEF Exit, Crash, Forget, Holding
<1>5. CASE \/ TakeRefused(p) \/ Begin(p) \/ EnsureAsks(p) \/ EnsureSeesLoss(p) \/ Write(p)
           \/ (\E s \in Resources : KeeperAsks(p, s) \/ KeeperSeesLoss(p, s))
           \/ (\E c \in Clients : Exec(p, c) \/ ExecFails(p, c))
           \/ StopSignal(p) \/ BeginShutdown(p) \/ EndDrain(p) \/ ReleaseNext(p)
  BY <1>5 DEF TakeRefused, Begin, EnsureAsks, EnsureSeesLoss, Write, KeeperAsks, KeeperSeesLoss, Exec, ExecFails,
              StopSignal, BeginShutdown, EndDrain, ReleaseNext, procVars
<1> QED BY <1>1, <1>3, <1>4, <1>5 DEF ProcStep

LEMMA NowStep ==
    ASSUME Types, [Next]_vars
    PROVE  now \in Nat /\ now' \in Nat /\ now' >= now
<1>1. CASE Tick \/ UNCHANGED vars
  BY <1>1 DEF Tick, vars, Types, ClockType
<1>2. ASSUME NEW p \in Procs, ProcStep(p) PROVE now' = now
    BY <1>2 DEF ProcStep, TakeGranted, TakeRefused, Begin, EnsureSeesLoss, Write, KeeperSeesLoss, StopSignal,
              BeginShutdown, ReleaseNext, Exit, KeeperAsks, KeeperApplies, EnsureAsks, EnsureApplies, Exec, ExecFails,
              EndDrain, Crash
<1> QED BY <1>1, <1>2, Footprint DEF Types, ClockType

LEMMA KnownAheadStep ==
    ASSUME Types, CallTimes, KnownAhead, [Next]_vars
    PROVE  KnownAhead'
<1>0. now \in Nat /\ now' \in Nat /\ now' >= now /\ Ttl \in Nat
  BY NowStep, LeaseAssumption
<1> SUFFICES ASSUME NEW p \in Procs, NEW r \in Resources PROVE known'[p][r] <= now' + Ttl
  BY DEF KnownAhead
<1>01. known[p][r] \in Nat /\ known[p][r] <= now + Ttl
  BY DEF Types, KnownType, KnownAhead
<1>1. CASE known'[p][r] = known[p][r]
  BY <1>0, <1>01, <1>1
<1>2. ASSUME NEW q \in Procs, ProcStep(q) PROVE known'[p][r] <= now' + Ttl
  <2>1. CASE p # q
    BY <1>1, <1>2, <2>1, OthersSame DEF Same
  <2>2. CASE p = q
    <3>1. CASE KnownTaken(p, r)
      BY <1>0, <3>1 DEF KnownTaken
    <3>2. CASE KnownGranted(p, r)
      <4>1. PICK c \in Clients : call[p][c].at = "answered" /\ known'[p][r] = call[p][c].t + Ttl
        BY <3>2 DEF KnownGranted
      <4>2. call[p][c].t \in Nat /\ call[p][c].t <= now
        BY <4>1, CallType DEF CallTimes
      <4> QED BY <1>0, <4>1, <4>2
    <3> QED BY <1>0, <1>1, <1>2, <2>2, <3>1, <3>2, KnownStep
  <2> QED BY <2>1, <2>2
<1>3. CASE Tick \/ UNCHANGED vars
  BY <1>1, <1>3 DEF Tick, vars, procVars
<1> QED BY <1>2, <1>3, Footprint

\* A lease known to be held stays held.
LEMMA PromiseStays ==
    ASSUME Types, CallTimes, [Next]_vars, NEW p \in Procs, Holding(p), NEW r \in Resources,
           NEW k \in Nat, k <= now + Ttl, now' < k - MaxCall,
           HeldUntil(p, r, k - MaxCall)
    PROVE  HeldUntil(p, r, k - MaxCall)'
<1>0. now \in Nat /\ now' \in Nat /\ now' >= now /\ Ttl \in Nat /\ MaxCall \in Nat /\ row[r].expires \in Nat
  BY NowStep, LeaseAssumption DEF Types, RowType, Rows
<1>1. k - MaxCall \in Int /\ k - MaxCall <= now - MaxCall + Ttl /\ row[r].expires > now
  BY <1>0 DEF HeldUntil
<1> DEFINE e == k - MaxCall
<1>2. e \in Int /\ e <= now - MaxCall + Ttl /\ HeldUntil(p, r, e)
  BY <1>1
<1> HIDE DEF e
<1>3. HeldUntil(p, r, e)'
  BY <1>1, <1>2, HeldStays
<1> QED BY <1>3 DEF e, HeldUntil

LEMMA KnownTrueStep ==
    ASSUME Types, CallTimes, KnownAhead, KnownTrue, GrantTrue, [Next]_vars
    PROVE  KnownTrue'
<1>0. now \in Nat /\ now' \in Nat /\ now' >= now /\ Ttl \in Nat /\ MaxCall \in Nat
  BY NowStep, LeaseAssumption
<1> SUFFICES ASSUME NEW p \in Procs, NEW r \in Resources, Holding(p)', now' < known'[p][r] - MaxCall
             PROVE  HeldUntil(p, r, known[p][r] - MaxCall)'
  BY DEF KnownTrue
<1>01. known[p][r] \in Nat /\ known[p][r] <= now + Ttl
  BY DEF Types, KnownType, KnownAhead
<1>1. ASSUME known'[p][r] = known[p][r], Holding(p) PROVE HeldUntil(p, r, known[p][r] - MaxCall)'
  <2>1. HeldUntil(p, r, known[p][r] - MaxCall)
    BY <1>0, <1>01, <1>1 DEF KnownTrue
  <2>2. PICK k \in Nat : k = known[p][r]
    BY <1>01
  <2>3. HeldUntil(p, r, k - MaxCall)'
    BY <1>01, <1>1, <2>1, <2>2, PromiseStays
  <2> QED BY <1>1, <2>2, <2>3 DEF HeldUntil
<1>2. ASSUME NEW q \in Procs, ProcStep(q) PROVE HeldUntil(p, r, known[p][r] - MaxCall)'
  <2>1. CASE p # q
    BY <1>1, <1>2, <2>1, OthersSame DEF Same, Holding
  <2>2. CASE p = q
    <3>1. CASE KnownTaken(p, r)
      BY <1>0, <3>1 DEF KnownTaken, HeldUntil
    <3>2. CASE KnownGranted(p, r)
      <4>1. PICK c \in Clients :
               /\ Live(p) /\ call[p][c].at = "answered" /\ call[p][c].answer = "granted" /\ call[p][c].res = r
               /\ known'[p][r] = call[p][c].t + Ttl /\ row' = row
        BY <3>2 DEF KnownGranted
      <4>2. call[p][c].t \in Nat
        BY <4>1, CallType
      <4>3. now < call[p][c].t + Ttl - MaxCall
        BY <1>0, <4>1, <4>2
      <4>4. HeldUntil(p, r, call[p][c].t + Ttl - MaxCall)
        BY <4>1, <4>3 DEF GrantTrue
      <4>5. row'[r].holder = p /\ row'[r].expires >= known'[p][r] - MaxCall
        BY <1>0, <4>1, <4>2, <4>4 DEF HeldUntil
      <4> QED BY <4>5 DEF HeldUntil
    <3> QED BY <1>0, <1>1, <1>2, <2>2, <3>1, <3>2, KnownStep, PcStep
  <2> QED BY <2>1, <2>2
<1>3. CASE Tick \/ UNCHANGED vars
  BY <1>1, <1>3 DEF Tick, vars, procVars, Holding
<1> QED BY <1>2, <1>3, Footprint

LEMMA GrantTrueStep ==
    ASSUME Types, CallTimes, CallsLive, GrantTrue, [Next]_vars
    PROVE  GrantTrue'
<1>0. now \in Nat /\ now' \in Nat /\ now' >= now /\ Ttl \in Nat /\ MaxCall \in Nat
  BY NowStep, LeaseAssumption
<1> SUFFICES ASSUME NEW p \in Procs, NEW c \in Clients, Live(p)', call'[p][c].at = "answered",
                    call'[p][c].answer = "granted", now' < call'[p][c].t + Ttl - MaxCall
             PROVE  HeldUntil(p, call[p][c].res, call[p][c].t + Ttl - MaxCall)'
  BY DEF GrantTrue
<1>1. ASSUME call'[p][c] = call[p][c], Live(p) PROVE HeldUntil(p, call[p][c].res, call[p][c].t + Ttl - MaxCall)'
  <2>1. call[p][c].t \in Nat /\ call[p][c].res \in Resources /\ call[p][c].t <= now
    BY <1>1, CallType DEF CallTimes
  <2>2. HeldUntil(p, call[p][c].res, call[p][c].t + Ttl - MaxCall)
    BY <1>0, <1>1, <2>1 DEF GrantTrue
  <2>3. PICK k \in Nat, r \in Resources : k = call[p][c].t + Ttl /\ r = call[p][c].res
    BY <1>0, <2>1
  <2>4. k <= now + Ttl /\ now' < k - MaxCall /\ HeldUntil(p, r, k - MaxCall) /\ Holding(p)
    BY <1>0, <1>1, <2>1, <2>2, <2>3 DEF Live, Holding
  <2>5. HeldUntil(p, r, k - MaxCall)'
    BY <2>4, PromiseStays
  <2>6. call'[p][c].res = r /\ call'[p][c].t + Ttl = k
    BY <1>1, <2>3
  <2> QED BY <1>0, <2>1, <2>5, <2>6, <1>1 DEF HeldUntil
<1>2. ASSUME NEW q \in Procs, ProcStep(q) PROVE HeldUntil(p, call[p][c].res, call[p][c].t + Ttl - MaxCall)'
  <2>1. CASE p # q
    BY <1>1, <1>2, <2>1, OthersSame DEF Same, Live
  <2>2. CASE p = q
    <3>1. CASE call'[p][c] = call[p][c]
      <4>1. Live(p)
        BY <1>2, <2>2, <3>1, PcStep DEF CallsLive, Idle
      <4> QED BY <1>1, <3>1, <4>1
    <3>2. CASE CallAnswered(p, c)
      <4>1. /\ Exec(p, c) /\ Takes(p, call[p][c].res, call[p][c].t)
            /\ call'[p][c].t = call[p][c].t /\ call'[p][c].res = call[p][c].res /\ call[p][c].at = "asked"
        BY <3>2 DEF CallAnswered, Answer
      <4>2. call[p][c].t \in Nat /\ call[p][c].res \in Resources
        BY <4>1, CallType
      <4>3. row' = [row EXCEPT ![call[p][c].res] = Acquired(p, call[p][c].res, call[p][c].t)]
        BY <4>1 DEF Exec
      <4>4. row'[call[p][c].res].holder = p /\ row'[call[p][c].res].expires = call[p][c].t + Ttl
        BY <4>1, <4>2, <4>3, AcquiredRow DEF Types, RowType
      <4> QED BY <1>0, <4>1, <4>2, <4>4 DEF HeldUntil
    <3>3. ~CallAsked(p, c) /\ call'[p][c] # Idle
      BY DEF CallAsked, Idle
    <3> QED BY <1>2, <2>2, <3>1, <3>2, <3>3, CallStep
  <2> QED BY <2>1, <2>2
<1>3. CASE Tick \/ UNCHANGED vars
  BY <1>1, <1>3 DEF Tick, vars, procVars, Live
<1> QED BY <1>2, <1>3, Footprint

LEMMA GuardTrueStep ==
    ASSUME Types, CallsLive, GuardTrue, [Next]_vars
    PROVE  GuardTrue'
<1>0. now \in Nat /\ Guard \in Nat /\ Ttl \in Nat
  BY LeaseAssumption DEF Types, ClockType
<1> SUFFICES ASSUME NEW p \in Procs, NEW c \in Clients, Live(p)', call'[p][c] # Idle, call'[p][c].guarded
             PROVE  call'[p][c].t + Guard < known'[p][call'[p][c].res]
  BY DEF GuardTrue, Idle
<1>1. CASE Tick \/ UNCHANGED vars
  BY <1>1 DEF Tick, vars, procVars, Live, GuardTrue
<1>2. ASSUME NEW q \in Procs \ {p}, ProcStep(q) PROVE call'[p][c].t + Guard < known'[p][call'[p][c].res]
  BY <1>2, OthersSame DEF Same, Live, GuardTrue
<1>3. CASE ProcStep(p)
  <2>0. Live(p)
    BY <1>3, PcStep, CallStep DEF CallsLive, CallAsked, CallAnswered
  <2>1. /\ call'[p][c].res \in Resources /\ call'[p][c].t \in Nat
        /\ call'[p][c].t + Guard < known[p][call'[p][c].res]
    <3>1. CASE call'[p][c] = call[p][c]
      BY <2>0, <3>1, CallType DEF GuardTrue
    <3>2. CASE CallAsked(p, c)
      BY <1>0, <3>2 DEF CallAsked
    <3>3. CASE CallAnswered(p, c)
      <4>1. call[p][c] # Idle /\ call[p][c].guarded
        BY <3>3 DEF CallAnswered, Idle
      <4> QED BY <2>0, <3>3, <4>1, CallType DEF CallAnswered, GuardTrue
    <3> QED BY <1>3, <3>1, <3>2, <3>3, CallStep
  <2>2. known'[p][call'[p][c].res] >= known[p][call'[p][c].res]
    <3>1. Holding(p)'
      BY DEF Live, Holding
    <3>2. known[p][call'[p][c].res] \in Nat
      BY <2>1 DEF Types, KnownType
    <3> QED BY <1>3, <2>0, <2>1, <3>1, <3>2, KnownStep DEF KnownGranted
  <2>3. known[p][call'[p][c].res] \in Nat /\ known'[p][call'[p][c].res] \in Nat
    BY <2>1, TypesStep DEF Types, KnownType
  <2> QED BY <1>0, <2>1, <2>2, <2>3
<1> QED BY <1>1, <1>2, <1>3, Footprint

LEMMA WritersOnlyStep ==
    ASSUME Types, WritersOnly, [Next]_vars
    PROVE  WritersOnly'
<1>0. Writer \in Clients
  BY DEF Clients
<1> SUFFICES ASSUME NEW p \in Procs, ensured'[p] > 0 \/ call'[p][Writer] # Idle PROVE p \in Writers
  BY DEF WritersOnly, Idle
<1>1. CASE Tick \/ UNCHANGED vars
  BY <1>1 DEF Tick, vars, writerVars, WritersOnly
<1>2. ASSUME NEW q \in Procs \ {p}, ProcStep(q) PROVE p \in Writers
  BY <1>2, OthersSame DEF Same, WritersOnly
<1>3. CASE ProcStep(p)
  <2>1. CASE EnsureAsks(p)
    BY <2>1 DEF EnsureAsks
  <2>2. CASE ensured'[p] > 0
    <3>1. CASE EnsureMoved(p)
      <4>1. call[p][Writer] # Idle
        BY <3>1 DEF EnsureMoved, EnsureApplies, Applied, Idle
      <4> QED BY <4>1 DEF WritersOnly
    <3> QED BY <1>3, <2>2, <3>1, EnsureStep DEF WritersOnly, EnsureReset
  <2>3. CASE call'[p][Writer] # Idle /\ ~EnsureAsks(p)
    <3>1. CASE CallAsked(p, Writer)
      <4>1. ~(\E r \in Resources : KeeperAsks(p, r))
        <5> SUFFICES ASSUME NEW r \in Resources, KeeperAsks(p, r) PROVE FALSE
          OBVIOUS
        <5>1. r # Writer
          BY LeaseAssumption
        <5> QED BY <1>0, <3>1, <5>1 DEF KeeperAsks, Ask, CallAsked, Types, CallsType, Idle
      <4>2. \A c \in Clients : Exec(p, c) \/ ExecFails(p, c) => call'[p][Writer] = Idle \/ call'[p][Writer].at = "answered"
        <5> SUFFICES ASSUME NEW c \in Clients, Exec(p, c) \/ ExecFails(p, c)
                     PROVE  call'[p][Writer] = Idle \/ call'[p][Writer].at = "answered"
          OBVIOUS
        <5>1. c # Writer
          BY <3>1 DEF CallAsked, Exec, ExecFails, Idle
        <5> QED BY <1>0, <3>1, <5>1 DEF Exec, ExecFails, CallAsked, Types, CallsType
      <4>3. call' = call \/ call'[p][Writer] = Idle \/ call'[p][Writer].at = "answered"
        <5>1. CASE (\E r \in Resources : KeeperApplies(p, r)) \/ EnsureApplies(p) \/ EndDrain(p) \/ Crash(p)
          BY <1>0, <3>1, <5>1 DEF KeeperApplies, EnsureApplies, EndDrain, Crash, Applied, CallAsked, Types, CallsType
        <5> QED BY <1>3, <2>3, <4>1, <4>2, <5>1 DEF ProcStep, TakeGranted, TakeRefused, Begin, EnsureSeesLoss, Write,
              KeeperSeesLoss, StopSignal, BeginShutdown, ReleaseNext, Exit
      <4> QED BY <3>1, <4>3, <2>3 DEF CallAsked, Idle
    <3>2. CASE CallAnswered(p, Writer)
      BY <3>2 DEF CallAnswered, WritersOnly, Idle
    <3> QED BY <1>0, <1>3, <2>3, <3>1, <3>2, CallStep DEF WritersOnly
  <2> QED BY <2>1, <2>2, <2>3
<1> QED BY <1>1, <1>2, <1>3, Footprint

\* The writer's call ends with ensure's own step.
LEMMA WriterCallKept ==
    ASSUME Types, NEW p \in Procs, ProcStep(p), Live(p)', ~EnsureApplies(p), call'[p][Writer] = Idle
    PROVE  call[p][Writer] = Idle
<1>0. Writer \in Clients /\ Writer \notin Resources /\ call \in [Procs -> [Clients -> Calls \cup {Idle}]] /\ pc \in [Procs -> Pcs]
  BY LeaseAssumption DEF Clients, Types, CallsType, PcType
<1>1. ASSUME NEW r \in Resources, KeeperAsks(p, r) \/ KeeperSeesLoss(p, r) \/ KeeperApplies(p, r)
      PROVE  call[p][Writer] = Idle
  BY <1>0, <1>1 DEF KeeperAsks, Ask, KeeperSeesLoss, KeeperApplies, Applied
<1>2. ASSUME NEW c \in Clients, Exec(p, c) \/ ExecFails(p, c)
      PROVE  call[p][Writer] = Idle
  <2>1. Live(p)
    BY <1>2 DEF Exec, ExecFails, procVars, Live
  <2>2. CASE c = Writer
    <3>1. PICK a : call'[p][c] = Reply(p, call[p][c], a)
      BY <1>0, <1>2 DEF Exec, ExecFails
    <3>2. Reply(p, call[p][c], a).at = "answered"
      <4>1. call[p][c] \in Calls
        BY <1>2, CallType DEF Exec, ExecFails
      <4> QED BY <2>1, <4>1 DEF Reply, Calls
    <3> QED BY <2>2, <3>1, <3>2 DEF Idle
  <2>3. CASE c # Writer
    BY <1>0, <1>2, <2>3 DEF Exec, ExecFails
  <2> QED BY <2>2, <2>3
<1>3. CASE EndDrain(p) \/ Exit(p) \/ Crash(p)
  BY <1>0, <1>3 DEF EndDrain, Exit, Crash, Live
<1>4. CASE \/ TakeGranted(p) \/ TakeRefused(p) \/ Begin(p) \/ EnsureAsks(p) \/ EnsureSeesLoss(p) \/ Write(p)
           \/ StopSignal(p) \/ BeginShutdown(p) \/ ReleaseNext(p)
  BY <1>4 DEF TakeGranted, TakeRefused, Begin, EnsureAsks, Ask, EnsureSeesLoss, Write, StopSignal, BeginShutdown, ReleaseNext
<1> QED BY <1>1, <1>2, <1>3, <1>4 DEF ProcStep

LEMMA Times ==
    ASSUME NEW a \in Nat, NEW b \in Nat, NEW m \in Nat
    PROVE  /\ a * m \in Nat /\ (a + 1) * m = a * m + m
           /\ a <= b => a * m <= b * m
<1>1. a * m \in Nat /\ (a + 1) * m = a * m + m
  OBVIOUS
<1>2. ASSUME a <= b PROVE a * m <= b * m
  <2>1. PICK d \in Nat : b = a + d
    <3>1. b - a \in Nat /\ b = a + (b - a)
      BY <1>2
    <3> QED BY <3>1
  <2>2. b * m = a * m + d * m /\ d * m \in Nat
    BY <2>1
  <2> QED BY <1>1, <2>2
<1> QED BY <1>1, <1>2

\* What is left of ensure's time, between the first lease and the last.
LEMMA RestBounds ==
    ASSUME Types, WriterCalls, GuardCovers, NEW p \in Writers
    PROVE  /\ Rest(p) \in Nat
           /\ Guard >= Len(Plan[p]) * MaxCall + MaxCall + WriteTime
           /\ Ttl > Len(Plan[p]) * MaxCall + MaxCall + WriteTime
           /\ Rest(p) <= Len(Plan[p]) * MaxCall + WriteTime
           /\ ensured[p] > 0 => Rest(p) + MaxCall <= Len(Plan[p]) * MaxCall + WriteTime
           /\ ensured[p] < Len(Plan[p]) => Rest(p) >= MaxCall + WriteTime
           /\ ensured[p] = Len(Plan[p]) => Rest(p) = WriteTime
           /\ Len(Plan[p]) * MaxCall \in Nat /\ Len(Plan[p]) * MaxCall >= MaxCall
<1>0. p \in Procs /\ MaxCall \in Nat /\ WriteTime \in Nat /\ Guard \in Nat /\ Ttl \in Nat
  BY LeaseAssumption
<1>1. PICK n \in Nat, e \in Nat : n = Len(Plan[p]) /\ e = ensured[p] /\ n > 0 /\ e <= n
  BY <1>0, PlanResources DEF Types, EnsuredType, WriterCalls
<1>2. PICK d \in Nat : d = n - e
  BY <1>1
<1>3. n * MaxCall \in Nat /\ d * MaxCall \in Nat /\ (n + 1) * MaxCall = n * MaxCall + MaxCall
      /\ (d + 1) * MaxCall = d * MaxCall + MaxCall /\ d * MaxCall <= n * MaxCall
  <2>1. n * MaxCall \in Nat /\ (n + 1) * MaxCall = n * MaxCall + MaxCall
    BY <1>0, Times
  <2>2. d * MaxCall \in Nat /\ (d + 1) * MaxCall = d * MaxCall + MaxCall
    BY <1>0, Times
  <2>3. d <= n
    BY <1>1, <1>2
  <2>4. d * MaxCall <= n * MaxCall
    BY <1>0, <2>3, Times
  <2> QED BY <2>1, <2>2, <2>4
<1>4. e > 0 => d * MaxCall + MaxCall <= n * MaxCall
  <2>1. e > 0 => d + 1 \in Nat /\ d + 1 <= n
    BY <1>1, <1>2
  <2>2. e > 0 => (d + 1) * MaxCall <= n * MaxCall
    BY <1>0, <2>1, Times
  <2> QED BY <1>3, <2>2
<1>5. \A x \in Nat : x > 0 => x * MaxCall >= MaxCall
  <2> SUFFICES ASSUME NEW x \in Nat, x > 0 PROVE x * MaxCall >= MaxCall
    OBVIOUS
  <2>1. PICK y \in Nat : x = y + 1
    <3>1. x - 1 \in Nat /\ x = (x - 1) + 1
      OBVIOUS
    <3> QED BY <3>1
  <2> QED BY <1>0, <2>1, Times
<1>6. e < n => d * MaxCall >= MaxCall
  BY <1>1, <1>2, <1>5
<1>7. e = n => d * MaxCall = 0
  BY <1>0, <1>1, <1>2
<1>8. Guard >= (n + 1) * MaxCall + WriteTime /\ Ttl > (n + 1) * MaxCall + WriteTime
  BY <1>1 DEF GuardCovers
<1>9. Rest(p) = d * MaxCall + WriteTime
  BY <1>1, <1>2 DEF Rest
<1> HIDE DEF Rest
<1>10. n * MaxCall >= MaxCall
  BY <1>1, <1>5
<1>11. PICK x \in Nat, y \in Nat : x = n * MaxCall /\ y = d * MaxCall
  BY <1>3
<1>12. /\ x <= x /\ Guard >= x + MaxCall + WriteTime /\ Ttl > x + MaxCall + WriteTime
       /\ Rest(p) = y + WriteTime /\ y <= x /\ (e > 0 => y + MaxCall <= x) /\ (e < n => y >= MaxCall)
       /\ (e = n => y = 0) /\ x >= MaxCall
  BY <1>3, <1>4, <1>6, <1>7, <1>8, <1>9, <1>10, <1>11
<1>13. Len(Plan[p]) * MaxCall = x
  BY <1>1, <1>11
<1> QED BY <1>0, <1>1, <1>12, <1>13

\* Who has renewed a lease may still use it: the lease has not run out, and a
\* renewal of its own would leave it at least as much.
LEMMA EnsuredLasts ==
    ASSUME Types, CallTimes, CallsLive, WritersOnly, WriterCalls, GuardCovers, EnsuredHeld,
           NEW p \in Procs, NEW i \in 1..ensured[p]
    PROVE  /\ p \in Writers /\ Live(p) /\ i \in 1..Len(Plan[p]) /\ Plan[p][i] \in Resources
           /\ Since(p) \in Nat /\ Rest(p) \in Nat /\ now \in Nat
           /\ HeldUntil(p, Plan[p][i], Since(p) + Rest(p) + 1)
           /\ row[Plan[p][i]].expires > now
           /\ Since(p) + Rest(p) + 1 <= now - MaxCall + Ttl
<1>0. /\ ensured[p] \in Nat /\ ensured[p] > 0 /\ now \in Nat /\ readyAt[p] \in Nat /\ MaxCall \in Nat
      /\ WriteTime \in Nat /\ Writer \in Clients /\ Len(Plan[p]) \in Nat /\ Ttl \in Nat
  BY PlanResources, LeaseAssumption DEF Types, EnsuredType, ClockType, Clients
<1>1. p \in Writers /\ Live(p) /\ ensured[p] <= Len(Plan[p])
  BY <1>0 DEF WritersOnly, CallsLive, WriterCalls
<1>2. i \in 1..Len(Plan[p]) /\ Plan[p][i] \in Resources
  BY <1>0, <1>1, PlanResources
<1>3. row[Plan[p][i]].expires \in Nat
  BY <1>2 DEF Types, RowType, Rows
<1>4. HeldUntil(p, Plan[p][i], Since(p) + Rest(p) + 1)
  BY <1>1 DEF EnsuredHeld
<1>5. Rest(p) \in Nat /\ Ttl > Rest(p) + MaxCall + MaxCall
  BY <1>0, <1>1, RestBounds
<1>6. Since(p) \in Nat /\ Since(p) <= now /\ now <= Since(p) + Rest(p)
  <2>1. CASE Ready(p)
    BY <1>0, <1>1, <1>5, <2>1, RestBounds DEF Ready, Since, WriterCalls
  <2>2. CASE ~Ready(p) /\ call[p][Writer] # Idle
    <3>1. Rest(p) >= MaxCall + WriteTime
      BY <1>0, <1>1, <2>2, RestBounds DEF Ready
    <3>2. call[p][Writer].t \in Nat /\ call[p][Writer].t <= now /\ now <= call[p][Writer].t + MaxCall
      BY <1>0, <2>2, CallType DEF CallTimes
    <3>3. Since(p) = call[p][Writer].t
      BY <2>2 DEF Since
    <3> QED BY <1>0, <1>5, <3>1, <3>2, <3>3
  <2>3. CASE ~Ready(p) /\ call[p][Writer] = Idle
    BY <1>0, <1>5, <2>3 DEF Since
  <2> QED BY <2>1, <2>2, <2>3
<1>7. Since(p) + Rest(p) + 1 <= now - MaxCall + Ttl
  BY <1>0, <1>5, <1>6
<1>8. row[Plan[p][i]].expires > now
  BY <1>0, <1>3, <1>4, <1>5, <1>6 DEF HeldUntil
<1> QED BY <1>0, <1>1, <1>2, <1>4, <1>5, <1>6, <1>7, <1>8

\* The lease ensure has just renewed: granted, or guarded against an error.
LEMMA RenewedLasts ==
    ASSUME Types, CallTimes, WritersOnly, WriterCalls, GuardCovers, KnownTrue, GrantTrue, GuardTrue,
           Answered, NEW p \in Procs, Live(p), call[p][Writer].at = "answered", ~Loses(call[p][Writer])
    PROVE  /\ call[p][Writer].res = Plan[p][ensured[p] + 1]
           /\ HeldUntil(p, call[p][Writer].res, now + Rest(p) - MaxCall + 1)
<1>0. /\ now \in Nat /\ MaxCall \in Nat /\ WriteTime \in Nat /\ Writer \in Clients /\ Ttl \in Nat /\ Guard \in Nat
  BY LeaseAssumption DEF Types, ClockType, Clients
<1> DEFINE k == call[p][Writer]
<1>1. k # Idle /\ k \in Calls /\ k.res \in Resources /\ k.t \in Nat /\ k.t <= now /\ now <= k.t + MaxCall
  BY <1>0, CallType DEF CallTimes
<1>2. p \in Writers /\ k.res = Plan[p][ensured[p] + 1]
  BY <1>1 DEF WritersOnly, WriterCalls
<1>3. PICK x \in Nat :
        /\ Rest(p) \in Nat /\ Rest(p) <= x + WriteTime
        /\ Guard >= x + MaxCall + WriteTime /\ Ttl > x + MaxCall + WriteTime /\ x >= MaxCall
  BY <1>2, RestBounds
<1> HIDE DEF Rest
<1>4. k.answer \in {"none", "granted", "error"} /\ (k.answer = "error" => k.guarded) /\ row[k.res].expires \in Nat
      /\ known[p][k.res] \in Nat
  BY <1>1 DEF Loses, Calls, Types, RowType, Rows, KnownType
<1>5. CASE k.answer = "granted"
  <2>1. now < k.t + Ttl - MaxCall
    BY <1>0, <1>1, <1>3
  <2>2. HeldUntil(p, k.res, k.t + Ttl - MaxCall)
    BY <1>0, <1>5, <2>1 DEF GrantTrue
  <2>3. now + Rest(p) - MaxCall + 1 <= k.t + Ttl - MaxCall
    BY <1>0, <1>1, <1>3
  <2> QED BY <1>0, <1>1, <1>2, <1>3, <1>4, <2>2, <2>3 DEF HeldUntil
<1>6. CASE k.answer = "error"
  <2>1. k.t + Guard < known[p][k.res]
    BY <1>0, <1>1, <1>4, <1>6 DEF GuardTrue
  <2>2. now < known[p][k.res] - MaxCall /\ Holding(p)
    BY <1>0, <1>1, <1>3, <1>4, <2>1 DEF Live, Holding
  <2>3. HeldUntil(p, k.res, known[p][k.res] - MaxCall)
    BY <1>1, <2>2 DEF KnownTrue
  <2>4. now + Rest(p) - MaxCall + 1 <= known[p][k.res] - MaxCall
    BY <1>0, <1>1, <1>3, <1>4, <2>1
  <2> QED BY <1>0, <1>1, <1>2, <1>3, <1>4, <2>3, <2>4 DEF HeldUntil
<1>7. k.answer # "none"
  BY <1>0 DEF Answered
<1> QED BY <1>4, <1>5, <1>6, <1>7

LEMMA EnsuredHeldStep ==
    ASSUME Types, CallTimes, CallsLive, WritersOnly, WriterCalls, GuardCovers, KnownTrue, GrantTrue, GuardTrue,
           Answered, EnsuredHeld, [Next]_vars
    PROVE  EnsuredHeld'
<1>0. now \in Nat /\ MaxCall \in Nat /\ WriteTime \in Nat /\ Writer \in Clients /\ Types'
  BY LeaseAssumption, TypesStep DEF Types, ClockType, Clients
<1> SUFFICES ASSUME NEW p \in Procs, NEW i \in 1..ensured'[p], Live(p)'
             PROVE  HeldUntil(p, Plan[p][i], Since(p) + Rest(p) + 1)'
  BY DEF EnsuredHeld
<1>01. ensured'[p] \in Nat /\ ensured[p] \in Nat
  BY <1>0 DEF Types, EnsuredType
<1>1. ASSUME ensured'[p] = ensured[p], Since(p)' = Since(p) PROVE HeldUntil(p, Plan[p][i], Since(p) + Rest(p) + 1)'
  <2>1. i \in 1..ensured[p]
    BY <1>1
  <2>2. PICK e \in Int, r \in Resources :
          /\ e = Since(p) + Rest(p) + 1 /\ r = Plan[p][i] /\ HeldUntil(p, r, e) /\ row[r].expires > now
          /\ e <= now - MaxCall + Ttl
    <3>1. Since(p) + Rest(p) + 1 \in Int
      BY <2>1, EnsuredLasts
    <3> QED BY <2>1, <3>1, EnsuredLasts
  <2>3. Holding(p)
    BY <2>1, EnsuredLasts DEF Live, Holding
  <2>4. HeldUntil(p, r, e)'
    BY <2>2, <2>3, HeldStays
  <2>5. Rest(p)' = Rest(p)
    BY <1>1 DEF Rest
  <2> QED BY <1>1, <2>2, <2>4, <2>5 DEF HeldUntil
<1>2. CASE Tick
  <2>1. UNCHANGED <<pc, ensured, call, readyAt, row>> /\ MayPass(p)
    BY <1>2 DEF Tick, procVars, writerVars
  <2>2. ensured[p] <= Len(Plan[p]) /\ Len(Plan[p]) \in Nat /\ Live(p) /\ ensured[p] >= 1
    BY <1>01, <2>1, PlanResources DEF WriterCalls, Live
  <2>3. Ready(p) \/ call[p][Writer] # Idle
    BY <1>01, <2>1, <2>2 DEF MayPass, Ready
  <2>4. Since(p)' = Since(p)
    BY <2>1, <2>3 DEF Since, Ready
  <2> QED BY <1>1, <2>1, <2>4
<1>3. CASE UNCHANGED vars
  BY <1>1, <1>3 DEF vars, writerVars, Since, Ready
<1>4. ASSUME NEW q \in Procs \ {p}, ProcStep(q) PROVE HeldUntil(p, Plan[p][i], Since(p) + Rest(p) + 1)'
  <2>1. Same(p) /\ now' = now
    BY <1>4, OthersSame
  <2>2. ensured'[p] = ensured[p] /\ Since(p)' = Since(p)
    BY <2>1 DEF Same, Since, Ready
  <2> QED BY <1>1, <2>2
<1>5. CASE ProcStep(p)
  <2>0. now' = now
    BY <1>5 DEF ProcStep, TakeGranted, TakeRefused, Begin, EnsureSeesLoss, Write, KeeperSeesLoss, StopSignal,
              BeginShutdown, ReleaseNext, Exit, KeeperAsks, KeeperApplies, EnsureAsks, EnsureApplies, Exec, ExecFails,
              EndDrain, Crash
  <2>1. ~EnsureReset(p)
    BY <1>01 DEF EnsureReset
  <2>2. CASE ensured'[p] = ensured[p] /\ readyAt'[p] = readyAt[p] /\ ~EnsureMoved(p)
    <3>1. ~EnsureApplies(p)
      <4>1. EnsureApplies(p) => ensured'[p] \in {0, ensured[p] + 1}
        BY DEF EnsureApplies, Types, EnsuredType
      <4> QED BY <1>01, <2>2, <4>1
    <3>2. CASE Ready(p)
      BY <1>1, <2>2, <3>2 DEF Since, Ready
    <3>3. CASE ~Ready(p)
      <4>1. Since(p)' = IF call'[p][Writer] # Idle THEN call'[p][Writer].t ELSE now
        BY <2>0, <2>2, <3>3 DEF Since, Ready, Idle
      <4>2. Since(p) = IF call[p][Writer] # Idle THEN call[p][Writer].t ELSE now
        BY <3>3 DEF Since
      <4>3. CASE call'[p][Writer] = Idle
        BY <1>1, <1>5, <2>2, <3>1, <4>1, <4>2, <4>3, WriterCallKept
      <4>4. CASE call'[p][Writer] = call[p][Writer]
        BY <1>1, <2>2, <4>1, <4>2, <4>4
      <4>5. CASE CallAsked(p, Writer)
        <5>1. call'[p][Writer] # Idle /\ call'[p][Writer].t = now /\ call[p][Writer] = Idle
          BY <4>5 DEF CallAsked, Idle
        <5> QED BY <1>1, <2>2, <4>1, <4>2, <5>1
      <4>6. CASE CallAnswered(p, Writer)
        <5>1. call'[p][Writer] # Idle /\ call'[p][Writer].t = call[p][Writer].t /\ call[p][Writer] # Idle
          BY <4>6 DEF CallAnswered, Idle
        <5> QED BY <1>1, <2>2, <4>1, <4>2, <5>1
      <4> QED BY <1>0, <1>5, <4>3, <4>4, <4>5, <4>6, CallStep
    <3> QED BY <3>2, <3>3
  <2>3. CASE EnsureMoved(p)
    <3>1. /\ Live(p) /\ call[p][Writer].at = "answered" /\ row' = row /\ ~Loses(call[p][Writer])
          /\ ensured'[p] = ensured[p] + 1 /\ call'[p][Writer] = Idle
          /\ readyAt'[p] = IF ensured'[p] = Len(Plan[p]) THEN now ELSE 0
      BY <2>3 DEF EnsureMoved, EnsureApplies, Applied
    <3>2. Since(p)' = now
      BY <2>0, <3>1 DEF Since, Ready, Idle
    <3>3. ensured[p] < Len(Plan[p]) /\ p \in Writers /\ call[p][Writer] # Idle
      BY <3>1 DEF WriterCalls, WritersOnly, Idle
    <3>4. Rest(p)' = Rest(p) - MaxCall /\ Rest(p) \in Nat
      <4>1. PICK n \in Nat, d \in Nat : n = Len(Plan[p]) /\ d = n - (ensured[p] + 1)
        BY <1>01, <3>3, PlanResources
      <4>2. Rest(p)' = d * MaxCall + WriteTime
        BY <3>1, <4>1 DEF Rest
      <4>3. Rest(p) = (d + 1) * MaxCall + WriteTime
        <5>1. Len(Plan[p]) - ensured[p] = d + 1
          BY <1>01, <4>1
        <5> QED BY <5>1 DEF Rest
      <4>4. d * MaxCall \in Nat /\ (d + 1) * MaxCall = d * MaxCall + MaxCall
        BY <1>0, <4>1, Times
      <4> HIDE DEF Rest
      <4> QED BY <1>0, <4>2, <4>3, <4>4
    <3>5. HeldUntil(p, Plan[p][i], now + Rest(p) - MaxCall + 1)
      <4>1. CASE i = ensured[p] + 1
        BY <3>1, <4>1, RenewedLasts
      <4>2. CASE i # ensured[p] + 1
        <5>1. i \in 1..ensured[p]
          BY <1>01, <3>1, <4>2
        <5>2. HeldUntil(p, Plan[p][i], Since(p) + Rest(p) + 1) /\ row[Plan[p][i]].expires \in Nat
          BY <5>1, EnsuredLasts DEF Types, RowType, Rows
        <5>3. Since(p) = call[p][Writer].t /\ call[p][Writer].t \in Nat /\ now <= call[p][Writer].t + MaxCall
          BY <1>0, <1>01, <3>3, CallType DEF Since, Ready, CallTimes
        <5> QED BY <1>0, <3>4, <5>2, <5>3 DEF HeldUntil
      <4> QED BY <4>1, <4>2
    <3> HIDE DEF Since, Rest
    <3>6. (Since(p) + Rest(p) + 1)' = now + Rest(p) - MaxCall + 1
      BY <1>0, <3>2, <3>4
    <3> QED BY <3>1, <3>5, <3>6 DEF HeldUntil
  <2> QED BY <1>5, <2>1, <2>2, <2>3, EnsureStep
<1> QED BY <1>2, <1>3, <1>4, <1>5, Footprint

-----------------------------------------------------------------------------
(* A guarded write is safe.                                                *)

WriteInv == /\ Types /\ CallTimes /\ Answered /\ CallsLive /\ WritersOnly /\ WriterCalls
            /\ KnownAhead /\ KnownTrue /\ GrantTrue /\ GuardTrue /\ EnsuredHeld

LEMMA WriteInvInit == Init => WriteInv
<1> SUFFICES ASSUME Init PROVE WriteInv
  OBVIOUS
<1>0. Types
  BY TypesInit
<1>1. \A p \in Procs : \A c \in Clients : call[p][c] = Idle /\ Idle.at = "idle"
  BY DEF Init, Idle
<1>2. \A p \in Procs : ensured[p] = 0 /\ pc[p] = "down" /\ ~Live(p) /\ \A r \in Resources : known[p][r] = 0
  BY DEF Init, Live
<1>3. now = 0 /\ MaxCall \in Nat /\ Ttl \in Nat /\ Writer \in Clients
  BY LeaseAssumption DEF Init, Clients
<1>4. CallTimes /\ Answered /\ CallsLive
  BY <1>1, <1>2 DEF CallTimes, Answered, CallsLive
<1>5. WritersOnly /\ WriterCalls
  BY <1>1, <1>2, <1>3, PlanResources DEF WritersOnly, WriterCalls
<1>6. KnownAhead /\ KnownTrue /\ GrantTrue /\ GuardTrue
  BY <1>1, <1>2, <1>3 DEF KnownAhead, KnownTrue, GrantTrue, GuardTrue
<1>7. EnsuredHeld
  BY <1>2 DEF EnsuredHeld
<1> QED BY <1>0, <1>4, <1>5, <1>6, <1>7 DEF WriteInv

\* With a guard and a TTL that cover one pass of ensure and the write after
\* it, a guarded write lands only while every lease of the writer is its own,
\* for any processes, plans, number of store errors and length of the run.
THEOREM GuardedWriteHoldsLeases == ASSUME GuardCovers PROVE Spec => []SafeWrite
<1>1. Init => WriteInv
  BY WriteInvInit
<1>2. WriteInv /\ [Next]_vars => WriteInv'
  BY TypesStep, CallTimesStep, AnsweredStep, CallsLiveStep, WritersOnlyStep, WriterCallsStep, KnownAheadStep,
     KnownTrueStep, GrantTrueStep, GuardTrueStep, EnsuredHeldStep DEF WriteInv
<1>3. WriteInv => SafeWrite
  <2> SUFFICES ASSUME WriteInv, NEW p \in Procs, Live(p), Ready(p), NEW r \in Mine(p) PROVE row[r].holder = p
    BY DEF SafeWrite
  <2>1. PICK i \in 1..Len(Plan[p]) : r = Plan[p][i]
    BY PlanResources
  <2> QED BY <2>1 DEF WriteInv, EnsuredHeld, Ready, HeldUntil
<1> QED BY <1>1, <1>2, <1>3, PTL DEF Spec

-----------------------------------------------------------------------------
(* A refused start leaves nothing behind.                                  *)

LEMMA TakenHeldStep ==
    ASSUME Types, CallTimes, CallsLive, TakenHeld, [Next]_vars
    PROVE  TakenHeld'
<1> SUFFICES ASSUME NEW p \in Procs, clean'[p], pc'[p] \in {"down", "undoing", "refused"}, NEW r \in Resources, row'[r].holder = p
             PROVE  pc'[p] # "refused" /\ \E i \in 1..taken'[p] : r = Plan[p][i]
  BY DEF TakenHeld
<1> DEFINE G == pc'[p] # "refused" /\ \E i \in 1..taken'[p] : r = Plan[p][i]
<1>0. /\ pc \in [Procs -> Pcs] /\ taken \in [Procs -> Nat] /\ row \in [Resources -> Rows] /\ clean \in [Procs -> BOOLEAN]
      /\ taken[p] \in Nat /\ Free.holder # p
  BY LeaseAssumption DEF Types, PcType, TakenType, RowType, FlagType, Free
<1>1. CASE Tick \/ UNCHANGED vars
  BY <1>1 DEF Tick, vars, procVars, TakenHeld
<1>2. ASSUME NEW q \in Procs \ {p}, ProcStep(q) PROVE G
  <2>1. row[r].holder = p
    BY <1>0, <1>2, RowStep DEF RowTaken, RowFreed
  <2> QED BY <1>2, <2>1, OthersSame DEF Same, TakenHeld
<1>3. CASE ProcStep(p)
  <2>1. CASE TakeGranted(p)
    <3> DEFINE s == Plan[p][taken[p] + 1]
    <3>1. PICK t : row' = [row EXCEPT ![s] = Acquired(p, s, t)]
      BY <2>1 DEF TakeGranted
    <3>2. taken'[p] = taken[p] + 1 /\ pc'[p] = "down" /\ pc[p] = "down" /\ clean' = clean
      BY <1>0, <2>1 DEF TakeGranted
    <3> HIDE DEF s
    <3>3. CASE r = s
      BY <1>0, <3>2, <3>3 DEF s
    <3>4. CASE r # s
      <4>1. row[r].holder = p
        BY <1>0, <3>1, <3>4
      <4>2. PICK i \in 1..taken[p] : r = Plan[p][i]
        BY <3>2, <4>1 DEF TakenHeld
      <4>3. i \in 1..taken'[p]
        BY <1>0, <3>2
      <4> QED BY <3>2, <4>2, <4>3
    <3> QED BY <3>3, <3>4
  <2>2. CASE TakeRefused(p)
    <3>1. row' = row /\ clean' = clean /\ taken' = taken /\ pc'[p] = "undoing" /\ pc[p] = "down"
      BY <1>0, <2>2 DEF TakeRefused
    <3> QED BY <3>1 DEF TakenHeld
  <2>3. CASE ReleaseNext(p)
    <3>1. /\ row' = IF row[Plan[p][taken[p]]].holder = p THEN [row EXCEPT ![Plan[p][taken[p]]] = Free] ELSE row
          /\ clean' = clean /\ taken'[p] = taken[p] - 1 /\ pc' = pc /\ pc[p] = "undoing" /\ taken[p] > 0
      BY <1>0, <2>3 DEF ReleaseNext
    <3>2. row[r].holder = p /\ r # Plan[p][taken[p]]
      BY <1>0, <3>1
    <3>3. PICK i \in 1..taken[p] : r = Plan[p][i]
      BY <3>1, <3>2 DEF TakenHeld
    <3>4. i \in 1..taken'[p]
      BY <1>0, <3>1, <3>2, <3>3
    <3> QED BY <3>1, <3>3, <3>4
  <2>4. CASE Exit(p)
    <3>1. row' = row /\ clean' = clean /\ pc[p] = "undoing" /\ taken[p] = 0
      BY <1>0, <2>4 DEF Exit
    <3> QED BY <1>0, <3>1 DEF TakenHeld
  <2>5. CASE \E c \in Clients : Exec(p, c) \/ ExecFails(p, c)
    BY <2>5 DEF Exec, ExecFails, procVars, CallsLive, Idle
  <2>6. CASE \/ Begin(p) \/ StopSignal(p) \/ BeginShutdown(p) \/ EndDrain(p) \/ Crash(p)
             \/ EnsureAsks(p) \/ EnsureSeesLoss(p) \/ EnsureApplies(p) \/ Write(p)
             \/ \E s \in Resources : KeeperAsks(p, s) \/ KeeperSeesLoss(p, s) \/ KeeperApplies(p, s)
    BY <1>0, <2>6 DEF Begin, StopSignal, BeginShutdown, EndDrain, Crash, EnsureAsks, EnsureSeesLoss, EnsureApplies,
        Write, KeeperAsks, KeeperSeesLoss, KeeperApplies, Ask, Applied, Live, procVars
  <2> QED BY <1>3, <2>1, <2>2, <2>3, <2>4, <2>5, <2>6 DEF ProcStep
<1> QED BY <1>1, <1>2, <1>3, Footprint

\* take is all or none, for any processes, plans and timing: a start that was
\* refused and whose releases worked holds no lease.
THEOREM RefusedStartHoldsNothing == Spec => []RefusedHoldsNothing
<1> DEFINE Inv == Types /\ CallTimes /\ CallsLive /\ TakenHeld
<1>1. Init => Inv
  <2> SUFFICES ASSUME Init PROVE TakenHeld
    BY WriteInvInit DEF WriteInv
  <2> QED BY LeaseAssumption DEF Init, TakenHeld, Free
<1>2. Inv /\ [Next]_vars => Inv'
  BY TypesStep, CallTimesStep, CallsLiveStep, TakenHeldStep
<1>3. Inv => RefusedHoldsNothing
  BY DEF TakenHeld, RefusedHoldsNothing
<1> QED BY <1>1, <1>2, <1>3, PTL DEF Spec

-----------------------------------------------------------------------------
(* A resource has one live runner.                                         *)

LEMMA TimingFacts ==
    ASSUME Types, TtlCovers
    PROVE  /\ now \in Nat /\ Ttl \in Nat /\ MaxCall \in Nat /\ RenewEvery \in Nat /\ Grace \in Nat
           /\ Gap \in Nat /\ Gap >= RenewEvery /\ Gap >= MaxCall
           /\ Ttl > Gap + MaxCall + Grace /\ Ttl > Gap + MaxCall + MaxCall
           /\ NextTick = now + RenewEvery /\ ~(errors < MaxErrors)
<1>1. now \in Nat /\ Ttl \in Nat /\ MaxCall \in Nat /\ RenewEvery \in Nat /\ Grace \in Nat /\ errors \in Nat
  BY LeaseAssumption DEF Types, ClockType
<1>2. Gap \in Nat /\ Gap >= RenewEvery /\ Gap >= MaxCall
  BY <1>1 DEF Gap
<1>3. Ttl > Gap + MaxCall + Grace /\ Ttl > Gap + 2 * MaxCall /\ Prompt /\ MaxErrors = 0
  BY DEF TtlCovers
<1> QED BY <1>1, <1>2, <1>3 DEF NextTick

\* The tasks of the process: what the step does to their calls and ticks.
LEMMA DueStep ==
    ASSUME Types, NEW p \in Procs, ProcStep(p), Live(p), Live(p)', NEW r \in Mine(p)
    PROVE  /\ row' = row \/ \E c \in Clients : Exec(p, c) \/ ExecFails(p, c)
           /\ \/ KeeperAsks(p, r) /\ CallAsked(p, r) /\ due'[p][r] = NextTick /\ deadline' = deadline
              \/ /\ due'[p][r] = due[p][r] /\ ~CallAsked(p, r)
                 /\ \/ deadline' = deadline /\ pc' = pc
                    \/ BeginShutdown(p) /\ pc'[p] = "draining" /\ deadline'[p] = now + Grace /\ call' = call
<1>0. /\ r \in Resources /\ r \in Clients /\ r # Writer /\ pc \in [Procs -> Pcs] /\ Writer \in Clients
      /\ call \in [Procs -> [Clients -> Calls \cup {Idle}]]
      /\ due \in [Procs -> [Resources -> Nat]] /\ deadline \in [Procs -> Nat] /\ Idle.at = "idle"
  BY PlanResources, LeaseAssumption DEF Clients, Types, DueType, CallsType, PcType, Idle
<1>1. ASSUME NEW s \in Resources, KeeperAsks(p, s)
      PROVE  \/ s = r /\ CallAsked(p, r) /\ due'[p][r] = NextTick
             \/ due'[p][r] = due[p][r] /\ call'[p][r] = call[p][r]
  <2>1. CASE s = r
    BY <1>0, <1>1, <2>1 DEF KeeperAsks, Ask, CallAsked, writerVars
  <2>2. CASE s # r
    BY <1>0, <1>1, <2>2 DEF KeeperAsks, Ask, Clients
  <2> QED BY <2>1, <2>2
<1>2. call'[p][r] = call[p][r] => ~CallAsked(p, r)
  BY <1>0 DEF CallAsked
<1>3. CASE \E s \in Resources : KeeperAsks(p, s)
  BY <1>1, <1>2, <1>3 DEF KeeperAsks
<1>4. CASE EnsureAsks(p)
  <2>1. call'[p][r] = call[p][r]
    BY <1>0, <1>4 DEF EnsureAsks, Ask
  <2> QED BY <1>2, <1>4, <2>1 DEF EnsureAsks, procVars
<1>5. CASE \E c \in Clients : Exec(p, c) \/ ExecFails(p, c)
  <2>1. PICK c \in Clients : Exec(p, c) \/ ExecFails(p, c)
    BY <1>5
  <2>2. c = r => call[p][r].at = "asked"
    BY <2>1 DEF Exec, ExecFails
  <2>3. c # r => call'[p][r] = call[p][r]
    BY <1>0, <2>1 DEF Exec, ExecFails
  <2> QED BY <1>0, <1>2, <1>5, <2>1, <2>2, <2>3 DEF Exec, ExecFails, procVars, CallAsked
<1>6. CASE (\E s \in Resources : KeeperApplies(p, s)) \/ EnsureApplies(p)
  <2>1. call'[p][r] \in {call[p][r], Idle}
    BY <1>0, <1>6 DEF KeeperApplies, EnsureApplies, Applied
  <2> QED BY <1>0, <1>2, <1>6, <2>1 DEF KeeperApplies, EnsureApplies, CallAsked
<1>7. CASE (\E s \in Resources : KeeperSeesLoss(p, s)) \/ EnsureSeesLoss(p) \/ Write(p) \/ StopSignal(p)
  BY <1>2, <1>7 DEF KeeperSeesLoss, EnsureSeesLoss, Write, StopSignal, procVars
<1>8. CASE BeginShutdown(p)
  BY <1>0, <1>2, <1>8 DEF BeginShutdown
<1>9. ~(TakeGranted(p) \/ TakeRefused(p) \/ Begin(p) \/ EndDrain(p) \/ ReleaseNext(p) \/ Exit(p) \/ Crash(p))
  BY <1>0 DEF TakeGranted, TakeRefused, Begin, EndDrain, ReleaseNext, Exit, Crash, Live
<1> QED BY <1>3, <1>4, <1>5, <1>6, <1>7, <1>8, <1>9 DEF ProcStep

LEMMA RunnerTimesStep ==
    ASSUME Types, CallTimes, CallsLive, RunnerTimes, TtlCovers, [Next]_vars
    PROVE  RunnerTimes'
<1>0. /\ now \in Nat /\ MaxCall \in Nat /\ RenewEvery \in Nat /\ Grace \in Nat
      /\ Gap \in Nat /\ Gap >= RenewEvery /\ Gap >= MaxCall /\ NextTick = now + RenewEvery
  BY TimingFacts
<1> HIDE DEF Gap, NextTick
<1> DEFINE UpTimes(p, r) == /\ due[p][r] - RenewEvery <= now /\ now <= due[p][r] - RenewEvery + Gap
                            /\ call[p][r] # Idle => call[p][r].t = due[p][r] - RenewEvery
           DrainTimes(p, r) == /\ deadline[p] - Grace <= now /\ now <= deadline[p]
                               /\ Asked(p, r) => /\ call[p][r].t >= deadline[p] - Grace - MaxCall
                                                 /\ call[p][r].t <= deadline[p] - Grace
<1> SUFFICES ASSUME NEW p \in Procs, NEW r \in Mine(p)
             PROVE  (pc'[p] = "up" => UpTimes(p, r)') /\ (pc'[p] = "draining" => DrainTimes(p, r)')
  BY DEF RunnerTimes
<1>01. /\ r \in Resources /\ r \in Clients /\ due[p][r] \in Nat /\ deadline[p] \in Nat
       /\ (pc[p] = "up" => UpTimes(p, r)) /\ (pc[p] = "draining" => DrainTimes(p, r))
       /\ (call[p][r] # Idle => call[p][r].t \in Nat /\ call[p][r].t <= now /\ now <= call[p][r].t + MaxCall)
  <2>1. r \in Resources /\ r \in Clients
    BY PlanResources DEF Clients
  <2>2. call[p][r] # Idle => call[p][r].t \in Nat /\ call[p][r].t <= now /\ now <= call[p][r].t + MaxCall
    BY <2>1, CallType DEF CallTimes
  <2>3. due[p][r] \in Nat /\ deadline[p] \in Nat
    BY <2>1 DEF Types, DueType
  <2> QED BY <2>1, <2>2, <2>3 DEF RunnerTimes
<1>1. CASE Tick
  <2>1. UNCHANGED <<pc, due, deadline, call>> /\ now' = now + 1 /\ MayPass(p)
    BY <1>1 DEF Tick, procVars
  <2>2. ASSUME pc[p] = "up" PROVE UpTimes(p, r)'
    <3>1. CASE call[p][r] = Idle
      <4>1. now < due[p][r]
        BY <2>1, <2>2, <3>1 DEF MayPass, TtlCovers
      <4> QED BY <1>0, <1>01, <2>1, <2>2, <3>1, <4>1 DEF Idle
    <3>2. CASE call[p][r] # Idle
      <4>1. now - call[p][r].t < MaxCall
        BY <1>01, <2>1, <3>2 DEF MayPass
      <4> QED BY <1>0, <1>01, <2>1, <2>2, <3>2, <4>1
    <3> QED BY <3>1, <3>2
  <2>3. ASSUME pc[p] = "draining" PROVE DrainTimes(p, r)'
    <3>1. now < deadline[p]
      BY <2>1, <2>3 DEF MayPass
    <3> QED BY <1>0, <1>01, <2>1, <2>3, <3>1 DEF Asked
  <2> QED BY <2>1, <2>2, <2>3
<1>2. CASE UNCHANGED vars
  BY <1>01, <1>2 DEF vars, procVars, Asked
<1>3. ASSUME NEW q \in Procs \ {p}, ProcStep(q)
      PROVE  (pc'[p] = "up" => UpTimes(p, r)') /\ (pc'[p] = "draining" => DrainTimes(p, r)')
  BY <1>01, <1>3, OthersSame DEF Same, Asked
<1>4. ASSUME ProcStep(p), Live(p)'
      PROVE  (pc'[p] = "up" => UpTimes(p, r)') /\ (pc'[p] = "draining" => DrainTimes(p, r)')
  <2>0. now' = now
    BY <1>4 DEF ProcStep, TakeGranted, TakeRefused, Begin, EnsureSeesLoss, Write, KeeperSeesLoss, StopSignal,
              BeginShutdown, ReleaseNext, Exit, KeeperAsks, KeeperApplies, EnsureAsks, EnsureApplies, Exec, ExecFails,
              EndDrain, Crash
  <2>1. CASE Begin(p) /\ pc[p] = "down" /\ pc'[p] = "up"
    <3>1. due'[p][r] = now + RenewEvery /\ call'[p][r] = Idle
      BY <1>0, <1>01, <2>1 DEF Begin, CallsLive, Types, DueType
    <3> QED BY <1>0, <2>0, <2>1, <3>1 DEF Idle
  <2>2. CASE KeeperAsks(p, r) /\ CallAsked(p, r) /\ due'[p][r] = NextTick /\ deadline' = deadline
    <3>1. pc' = pc /\ call'[p][r].t = now /\ (pc[p] = "draining" => now + Grace = deadline[p])
      BY <2>2 DEF CallAsked, KeeperAsks
    <3> QED BY <1>0, <1>01, <2>0, <2>2, <3>1 DEF Asked
  <2>3. CASE /\ Live(p) /\ due'[p][r] = due[p][r] /\ ~CallAsked(p, r)
             /\ deadline' = deadline /\ pc' = pc
    <3>1. CASE call'[p][r] = call[p][r] \/ call'[p][r] = Idle
      BY <1>0, <1>01, <2>0, <2>3, <3>1 DEF Asked, Idle
    <3>2. CASE CallAnswered(p, r)
      <4>1. call[p][r] # Idle /\ call'[p][r].t = call[p][r].t /\ call'[p][r].at = "answered" /\ ~Asked(p, r)'
        BY <3>2 DEF CallAnswered, Idle, Asked
      <4> QED BY <1>0, <1>01, <2>0, <2>3, <4>1
    <3> QED BY <1>01, <1>4, <2>3, <3>1, <3>2, CallStep
  <2>4. CASE /\ Live(p) /\ BeginShutdown(p) /\ pc'[p] = "draining" /\ deadline'[p] = now + Grace /\ call' = call
    BY <1>0, <1>01, <2>0, <2>4 DEF Asked, Idle
  <2> QED BY <1>4, <2>1, <2>2, <2>3, <2>4, PcStep, DueStep
<1> QED BY <1>1, <1>2, <1>3, <1>4, Footprint DEF Live

LEMMA TakenFreshStep ==
    ASSUME Types, CallTimes, TakenFresh, TtlCovers, [Next]_vars
    PROVE  TakenFresh'
<1>0. /\ now \in Nat /\ MaxCall \in Nat /\ Ttl \in Nat /\ Ttl > MaxCall
  BY TimingFacts
<1> SUFFICES ASSUME NEW p \in Procs, NEW i \in 1..taken'[p], pc'[p] = "down"
             PROVE  HeldUntil(p, Plan[p][i], now - MaxCall + Ttl)'
  BY DEF TakenFresh
<1>01. taken \in [Procs -> Nat] /\ taken[p] \in Nat /\ taken[p] <= Len(Plan[p]) /\ Len(Plan[p]) \in Nat
  BY PlanResources DEF Types, TakenType
<1>1. ASSUME pc[p] = "down", i \in 1..taken[p], now' = now
      PROVE  HeldUntil(p, Plan[p][i], now - MaxCall + Ttl)'
  <2>1. PICK r \in Resources, e \in Int : r = Plan[p][i] /\ e = now - MaxCall + Ttl
    BY <1>0, <1>01, <1>1, PlanResources
  <2>2. HeldUntil(p, r, e) /\ row[r].expires \in Nat
    BY <1>1, <2>1 DEF TakenFresh, Types, RowType, Rows
  <2>3. row[r].expires > now /\ Holding(p) /\ e <= now - MaxCall + Ttl
    BY <1>0, <1>1, <2>1, <2>2 DEF HeldUntil, Holding
  <2>4. HeldUntil(p, r, e)'
    BY <2>2, <2>3, HeldStays
  <2> QED BY <1>0, <1>1, <2>1, <2>4 DEF HeldUntil
<1>2. CASE Tick
  <2>1. UNCHANGED <<pc, taken>> /\ MayPass(p)
    BY <1>2 DEF Tick, procVars
  <2> QED BY <1>01, <2>1 DEF MayPass, TtlCovers
<1>3. CASE UNCHANGED vars
  BY <1>1, <1>3 DEF vars, procVars
<1>4. ASSUME NEW q \in Procs \ {p}, ProcStep(q) PROVE HeldUntil(p, Plan[p][i], now - MaxCall + Ttl)'
  BY <1>1, <1>4, OthersSame DEF Same
<1>5. CASE ProcStep(p)
  <2>0. now' = now
    BY <1>5 DEF ProcStep, TakeGranted, TakeRefused, Begin, EnsureSeesLoss, Write, KeeperSeesLoss, StopSignal,
              BeginShutdown, ReleaseNext, Exit, KeeperAsks, KeeperApplies, EnsureAsks, EnsureApplies, Exec, ExecFails,
              EndDrain, Crash
  <2>1. pc[p] = "down"
    BY <1>5, PcStep
  <2>2. CASE TakeGranted(p) /\ i \notin 1..taken[p]
    <3> DEFINE s == Plan[p][taken[p] + 1]
    <3>1. s \in Resources
      BY <1>01, <2>2, PlanNext DEF TakeGranted
    <3>2. PICK t \in Time : /\ t >= now - MaxCall /\ Takes(p, s, t) /\ row' = [row EXCEPT ![s] = Acquired(p, s, t)]
      BY <2>2 DEF TakeGranted
    <3>3. t \in Nat /\ taken'[p] = taken[p] + 1
      BY <1>01, <2>2, LeaseAssumption DEF Time, TakeGranted
    <3>4. i = taken[p] + 1
      BY <1>01, <2>2, <3>3
    <3> HIDE DEF s
    <3>5. row'[s].holder = p /\ row'[s].expires = t + Ttl
      BY <3>1, <3>2, <3>3, AcquiredRow DEF Types, RowType
    <3>6. t + Ttl >= now' - MaxCall + Ttl
      BY <1>0, <2>0, <3>2, <3>3
    <3> QED BY <3>4, <3>5, <3>6 DEF HeldUntil, s
  <2>3. CASE ~TakeGranted(p)
    <3>1. taken' = taken
      BY <1>5, <2>1, <2>3 DEF ProcStep, TakeRefused, Begin, EnsureSeesLoss, Write, KeeperSeesLoss, StopSignal,
              BeginShutdown, ReleaseNext, Exit, KeeperAsks, Ask, KeeperApplies, EnsureAsks, EnsureApplies, Applied, Exec, ExecFails,
              EndDrain, Crash, procVars, Live, Types, PcType
    <3> QED BY <1>1, <2>0, <2>1, <3>1
  <2> QED BY <1>1, <2>0, <2>1, <2>2, <2>3
<1> QED BY <1>2, <1>3, <1>4, <1>5, Footprint

\* What a live process holds has not run out.
LEMMA RunnerLasts ==
    ASSUME Types, CallTimes, RunnerTimes, RunnerHolds, TtlCovers, NEW p \in Procs, Live(p), NEW r \in Mine(p)
    PROVE  /\ r \in Resources /\ From(p, r) \in Int /\ From(p, r) <= now
           /\ HeldUntil(p, r, From(p, r) - MaxCall + Ttl) /\ row[r].expires > now
<1>0. /\ now \in Nat /\ MaxCall \in Nat /\ RenewEvery \in Nat /\ Grace \in Nat /\ Ttl \in Nat
      /\ Gap \in Nat /\ Ttl > Gap + MaxCall + Grace /\ Ttl > Gap + MaxCall + MaxCall
  BY TimingFacts
<1> HIDE DEF Gap
<1>1. r \in Resources /\ r \in Clients
  BY PlanResources DEF Clients
<1>2. due[p][r] \in Nat /\ deadline[p] \in Nat /\ row[r].expires \in Nat
  BY <1>1 DEF Types, DueType, RowType, Rows
<1>3. From(p, r) \in Int /\ From(p, r) <= now /\ now < From(p, r) - MaxCall + Ttl
  <2>1. CASE Asked(p, r)
    <3>1. call[p][r].t \in Nat /\ call[p][r].t <= now /\ now <= call[p][r].t + MaxCall
      BY <1>1, <2>1, CallType DEF CallTimes, Asked
    <3> QED BY <1>0, <2>1, <3>1 DEF From
  <2>2. CASE ~Asked(p, r) /\ pc[p] = "up"
    <3>1. due[p][r] - RenewEvery <= now /\ now <= due[p][r] - RenewEvery + Gap
      BY <2>2 DEF RunnerTimes
    <3> QED BY <1>0, <1>2, <2>2, <3>1 DEF From
  <2>3. CASE ~Asked(p, r) /\ pc[p] = "draining"
    <3>1. deadline[p] - Grace <= now /\ now <= deadline[p]
      BY <2>3 DEF RunnerTimes
    <3> QED BY <1>0, <1>2, <2>3, <3>1 DEF From
  <2> QED BY <2>1, <2>2, <2>3 DEF Live
<1>4. HeldUntil(p, r, From(p, r) - MaxCall + Ttl)
  BY DEF RunnerHolds
<1> HIDE DEF From
<1> QED BY <1>0, <1>1, <1>2, <1>3, <1>4 DEF HeldUntil

LEMMA RunnerHoldsStep ==
    ASSUME Types, CallTimes, CallsLive, KeeperCalls, TakenFresh, RunnerTimes, RunnerHolds, TtlCovers, [Next]_vars
    PROVE  RunnerHolds'
<1>0. /\ now \in Nat /\ MaxCall \in Nat /\ RenewEvery \in Nat /\ Grace \in Nat /\ Ttl \in Nat
      /\ Gap \in Nat /\ Gap >= RenewEvery /\ Gap >= MaxCall /\ NextTick = now + RenewEvery
      /\ ~(errors < MaxErrors)
  BY TimingFacts
<1> HIDE DEF Gap, NextTick
<1> SUFFICES ASSUME NEW p \in Procs, NEW r \in Mine(p), Live(p)'
             PROVE  HeldUntil(p, r, From(p, r) - MaxCall + Ttl)'
  BY DEF RunnerHolds
<1>01. r \in Resources /\ r \in Clients /\ due[p][r] \in Nat /\ deadline[p] \in Nat /\ row[r].expires \in Nat
  BY PlanResources DEF Clients, Types, DueType, RowType, Rows
<1>1. ASSUME Live(p), From(p, r)' = From(p, r) PROVE HeldUntil(p, r, From(p, r) - MaxCall + Ttl)'
  <2>1. PICK e \in Int : e = From(p, r) - MaxCall + Ttl
    BY <1>0, <1>1, RunnerLasts
  <2>2. HeldUntil(p, r, e) /\ row[r].expires > now /\ e <= now - MaxCall + Ttl /\ Holding(p)
    BY <1>0, <1>1, <2>1, RunnerLasts DEF Live, Holding
  <2>3. HeldUntil(p, r, e)'
    BY <1>01, <2>2, HeldStays
  <2>4. (From(p, r) - MaxCall + Ttl)' = e
    BY <1>1, <2>1
  <2> QED BY <2>3, <2>4 DEF HeldUntil
<1>2. ASSUME Live(p), row' = row, From(p, r)' \in Int, From(p, r)' <= From(p, r)
      PROVE  HeldUntil(p, r, From(p, r) - MaxCall + Ttl)'
  <2>1. HeldUntil(p, r, From(p, r) - MaxCall + Ttl) /\ From(p, r) \in Int
    BY <1>2, RunnerLasts
  <2> QED BY <1>0, <1>01, <1>2, <2>1 DEF HeldUntil
<1>3. CASE Tick \/ UNCHANGED vars
  <2>1. UNCHANGED <<pc, due, deadline, call>>
    BY <1>3 DEF Tick, vars, procVars
  <2>2. Live(p) /\ From(p, r)' = From(p, r)
    BY <2>1 DEF Live, From, Asked
  <2> QED BY <1>1, <2>2
<1>4. ASSUME NEW q \in Procs \ {p}, ProcStep(q) PROVE HeldUntil(p, r, From(p, r) - MaxCall + Ttl)'
  <2>1. Same(p)
    BY <1>4, OthersSame
  <2>2. Live(p) /\ From(p, r)' = From(p, r)
    BY <2>1 DEF Same, Live, From, Asked
  <2> QED BY <1>1, <2>2
<1>5. CASE ProcStep(p)
  <2>0. now' = now
    BY <1>5 DEF ProcStep, TakeGranted, TakeRefused, Begin, EnsureSeesLoss, Write, KeeperSeesLoss, StopSignal,
              BeginShutdown, ReleaseNext, Exit, KeeperAsks, KeeperApplies, EnsureAsks, EnsureApplies, Exec, ExecFails,
              EndDrain, Crash
  <2>1. CASE Begin(p) /\ pc[p] = "down" /\ pc'[p] = "up"
    <3>1. due'[p][r] = now + RenewEvery /\ call'[p][r] = Idle /\ row' = row /\ taken[p] = Len(Plan[p])
      BY <1>0, <1>01, <2>1 DEF Begin, CallsLive, Types, DueType
    <3>2. From(p, r)' = now
      BY <1>0, <2>1, <3>1 DEF From, Asked, Idle
    <3>3. PICK i \in 1..taken[p] : r = Plan[p][i]
      BY <3>1, PlanResources
    <3>4. HeldUntil(p, r, now - MaxCall + Ttl)
      BY <2>1, <3>3 DEF TakenFresh
    <3> QED BY <3>1, <3>2, <3>4 DEF HeldUntil
  <2>2. CASE Live(p) /\ KeeperAsks(p, r) /\ CallAsked(p, r) /\ due'[p][r] = NextTick /\ deadline' = deadline
    <3>1. /\ pc' = pc /\ call'[p][r].t = now /\ call'[p][r].at = "asked" /\ call[p][r] = Idle /\ row' = row
          /\ (pc[p] = "draining" => now + Grace = deadline[p])
      BY <2>2 DEF CallAsked, KeeperAsks
    <3>2. From(p, r)' = now - Gap
      BY <3>1 DEF From, Asked, Gap
    <3>3. CASE pc[p] = "up"
      <4>1. From(p, r) = due[p][r] - RenewEvery
        BY <3>1, <3>3 DEF From, Asked, Idle
      <4>2. now <= due[p][r] - RenewEvery + Gap
        BY <3>3 DEF RunnerTimes
      <4> QED BY <1>0, <1>01, <1>2, <2>2, <3>1, <3>2, <4>1, <4>2
    <3>4. CASE pc[p] = "draining"
      <4>1. From(p, r) = deadline[p] - Grace - Gap
        BY <3>1, <3>4 DEF From, Asked, Idle
      <4> QED BY <1>0, <1>01, <1>2, <2>2, <3>1, <3>2, <3>4, <4>1
    <3> QED BY <2>2, <3>3, <3>4 DEF Live
  <2>3. CASE /\ Live(p) /\ due'[p][r] = due[p][r] /\ deadline' = deadline /\ pc' = pc
             /\ call'[p][r] \in {call[p][r], Idle}
    <3>1. CASE ~Asked(p, r) \/ call'[p][r] = call[p][r]
      <4>1. From(p, r)' = From(p, r)
        BY <2>3, <3>1 DEF From, Asked, Idle
      <4> QED BY <1>1, <2>3, <4>1
    <3>2. CASE Asked(p, r) /\ call'[p][r] = Idle
      <4> SUFFICES FALSE
        OBVIOUS
      <4>1. call \in [Procs -> [Clients -> Calls \cup {Idle}]] /\ call[p][r] \in Calls
        BY <1>01, <3>2, CallType DEF Asked, Types, CallsType
      <4>2. \A c \in Clients : ~Exec(p, c) /\ ~ExecFails(p, c)
        <5> SUFFICES ASSUME NEW c \in Clients, Exec(p, c) \/ ExecFails(p, c) PROVE FALSE
          OBVIOUS
        <5>1. CASE c # r
          BY <1>01, <3>2, <4>1, <5>1 DEF Exec, ExecFails, Asked, Idle
        <5>2. CASE c = r
          <6>1. PICK a : call'[p][r] = Reply(p, call[p][r], a)
            BY <1>01, <4>1, <5>2 DEF Exec, ExecFails
          <6>2. Reply(p, call[p][r], a).at = "answered"
            BY <2>3, <4>1 DEF Reply, Calls
          <6> QED BY <3>2, <6>1, <6>2 DEF Idle
        <5> QED BY <5>1, <5>2
      <4>3. \A c \in Clients : ~Applied(p, c)
        BY <1>01, <3>2, <4>1 DEF Applied, Asked, Idle
      <4>4. ~(EndDrain(p) \/ Crash(p))
        BY <2>3 DEF EndDrain, Crash, Live, Types, PcType
      <4>5. ~(\E s \in Resources : KeeperAsks(p, s)) /\ ~EnsureAsks(p)
        BY <1>01, <3>2, <4>1 DEF KeeperAsks, EnsureAsks, Ask, Asked, Idle
      <4>6. call' = call
        BY <1>5, <4>2, <4>3, <4>4, <4>5 DEF ProcStep, TakeGranted, TakeRefused, Begin, EnsureSeesLoss, Write,
              KeeperSeesLoss, KeeperApplies, EnsureApplies, StopSignal, BeginShutdown, ReleaseNext, Exit, Clients
      <4> QED BY <3>2, <4>6 DEF Asked, Idle
    <3> QED BY <2>3, <3>1, <3>2
  <2>4. CASE /\ Live(p) /\ due'[p][r] = due[p][r] /\ deadline' = deadline /\ pc' = pc
             /\ CallAnswered(p, r)
    <3>1. PICK c \in Clients : Exec(p, c)
      <4>1. ~(call' = call \/ call'[p][r] = Idle)
        BY <2>4 DEF CallAnswered, Idle
      <4>2. CASE (\E s \in Resources : KeeperAsks(p, s)) \/ EnsureAsks(p)
        <5>1. PICK c \in Clients : call[p][c] = Idle /\ \E k : call' = [call EXCEPT ![p][c] = k]
          BY <4>2 DEF KeeperAsks, EnsureAsks, Ask, Clients
        <5>2. c # r
          BY <2>4, <5>1 DEF CallAnswered, Idle
        <5>3. call'[p][r] = call[p][r]
          BY <1>01, <5>1, <5>2 DEF Types, CallsType
        <5> QED BY <2>4, <5>3 DEF CallAnswered
      <4>3. CASE (\E s \in Resources : KeeperApplies(p, s)) \/ EnsureApplies(p) \/ EndDrain(p) \/ Crash(p)
        <5>1. call'[p][r] \in {call[p][r], Idle}
          BY <1>01, <4>3 DEF KeeperApplies, EnsureApplies, Applied, EndDrain, Crash, Types, CallsType
        <5> QED BY <2>4, <5>1 DEF CallAnswered, Idle
      <4>4. \A c \in Clients : ~ExecFails(p, c)
        BY <1>0 DEF ExecFails
      <4> QED BY <1>5, <4>1, <4>2, <4>3, <4>4 DEF ProcStep, TakeGranted, TakeRefused, Begin, EnsureSeesLoss, Write,
              KeeperSeesLoss, StopSignal, BeginShutdown, ReleaseNext, Exit
    <3>2. c = r
      BY <1>01, <2>4, <3>1 DEF Exec, CallAnswered, Types, CallsType
    <3>3. /\ call[p][r].at = "asked" /\ call[p][r].res = r /\ call[p][r].t \in Nat
          /\ call'[p][r].t = call[p][r].t /\ ~Asked(p, r)' /\ call[p][r] # Idle
      BY <1>01, <2>4, CallType DEF CallAnswered, KeeperCalls, Asked, Idle
    <3>4. row'[r] = Acquired(p, r, call[p][r].t) /\ row[r].holder = p
      <4>1. row' = [row EXCEPT ![r] = Acquired(p, r, call[p][r].t)]
        BY <3>1, <3>2, <3>3 DEF Exec
      <4>2. row[r].holder = p
        BY <2>4 DEF RunnerHolds, HeldUntil
      <4> QED BY <1>01, <4>1, <4>2 DEF Types, RowType
    <3>5. row'[r].holder = p /\ row'[r].expires = call[p][r].t + Ttl
      BY <1>01, <3>3, <3>4, AcquiredRow DEF Takes
    <3>6. From(p, r)' \in Int /\ From(p, r)' - MaxCall <= call[p][r].t
      <4>1. CASE pc[p] = "up"
        <5>1. From(p, r)' = due[p][r] - RenewEvery /\ call[p][r].t = due[p][r] - RenewEvery
          BY <2>4, <3>3, <4>1 DEF From, RunnerTimes
        <5> QED BY <1>0, <1>01, <3>3, <5>1
      <4>2. CASE pc[p] = "draining"
        <5>1. From(p, r)' = deadline[p] - Grace - Gap /\ call[p][r].t >= deadline[p] - Grace - MaxCall
          BY <2>4, <3>3, <4>2 DEF From, RunnerTimes, Asked, Gap
        <5> QED BY <1>0, <1>01, <3>3, <5>1
      <4> QED BY <2>4, <4>1, <4>2 DEF Live
    <3> HIDE DEF From
    <3> QED BY <1>0, <3>3, <3>5, <3>6 DEF HeldUntil
  <2>5. CASE /\ Live(p) /\ due'[p][r] = due[p][r]
             /\ BeginShutdown(p) /\ pc'[p] = "draining" /\ deadline'[p] = now + Grace /\ call' = call
    <3>1. CASE Asked(p, r)
      BY <1>1, <2>5, <3>1 DEF From, Asked, Gap
    <3>2. CASE ~Asked(p, r)
      <4>1. From(p, r)' = now + Grace - Grace - Gap /\ From(p, r) = due[p][r] - RenewEvery /\ row' = row
        <5>1. pc[p] = "up" /\ row' = row
          BY <2>5 DEF BeginShutdown
        <5>2. ~Asked(p, r)'
          BY <2>5, <3>2 DEF Asked
        <5>3. From(p, r) = due[p][r] - RenewEvery
          BY <3>2, <5>1 DEF From
        <5>4. From(p, r)' = now + Grace - Grace - Gap
          <6>1. From(p, r)' = deadline'[p] - Grace - Gap
            BY <2>5, <5>2 DEF From, Gap
          <6>2. deadline'[p] = now + Grace
            BY <2>5
          <6> HIDE DEF From
          <6> QED BY <1>0, <6>1, <6>2
        <5> QED BY <5>1, <5>3, <5>4
      <4>2. now <= due[p][r] - RenewEvery + Gap
        BY <2>5 DEF RunnerTimes, BeginShutdown
      <4> QED BY <1>0, <1>01, <1>2, <2>5, <4>1, <4>2
    <3> QED BY <3>1, <3>2
  <2> QED BY <1>01, <1>5, <2>1, <2>2, <2>3, <2>4, <2>5, PcStep, DueStep, CallStep
<1> QED BY <1>3, <1>4, <1>5, Footprint

RunnerInv == /\ Types /\ CallTimes /\ CallsLive /\ KeeperCalls /\ TakenFresh /\ RunnerTimes /\ RunnerHolds

\* With renewal tasks on time, a working store and a TTL that covers a
\* renewal gap and the drain, two processes that share a lease are never live
\* at once, for any processes, plans and length of the run.
THEOREM OneRunnerPerLease == ASSUME TtlCovers PROVE Spec => []OneRunner
<1>1. Init => RunnerInv
  <2> SUFFICES ASSUME Init PROVE RunnerInv
    OBVIOUS
  <2>1. \A p \in Procs : pc[p] = "down" /\ taken[p] = 0 /\ \A r \in Resources : call[p][r] = Idle
    BY DEF Init, Clients
  <2> QED BY <2>1, WriteInvInit DEF RunnerInv, WriteInv, KeeperCalls, TakenFresh, RunnerTimes, RunnerHolds, Live
<1>2. RunnerInv /\ [Next]_vars => RunnerInv'
  BY TypesStep, CallTimesStep, CallsLiveStep, KeeperCallsStep, TakenFreshStep, RunnerTimesStep, RunnerHoldsStep
     DEF RunnerInv
<1>3. RunnerInv => OneRunner
  BY DEF RunnerInv, RunnerHolds, OneRunner, HeldUntil
<1> QED BY <1>1, <1>2, <1>3, PTL DEF Spec
=============================================================================
