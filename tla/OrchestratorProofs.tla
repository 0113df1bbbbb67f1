------------------------- MODULE OrchestratorProofs -------------------------
(***************************************************************************)
(* Proofs about Orchestrator, for every set of plans, every number of      *)
(* tries and of replans.  The invariant says what an attempt holds: which  *)
(* outputs are reused and which its own steps made, that a task read the   *)
(* outputs its dependencies have, and that every ready step is in flight.  *)
(***************************************************************************)
EXTENDS Orchestrator, FiniteSetTheorems, SequenceTheorems, TLAPS

-----------------------------------------------------------------------------
(* Plans.                                                                  *)

\* A sequence has no more elements than entries.
LEMMA EntriesCount ==
    ASSUME NEW S, NEW s \in Seq(S)
    PROVE  IsFiniteSet(ToSet(s)) /\ Cardinality(ToSet(s)) \in Nat /\ Cardinality(ToSet(s)) <= Len(s)
<1>1. Len(s) \in Nat /\ DOMAIN s = 1..Len(s) /\ s \in [1..Len(s) -> S]
  BY LenProperties
<1>2. s \in [1..Len(s) -> ToSet(s)]
  BY <1>1 DEF ToSet
<1>3. \A e \in ToSet(s) : \E i \in 1..Len(s) : s[i] = e
  BY <1>1 DEF ToSet
<1>4. s \in Surjection(1..Len(s), ToSet(s))
  BY <1>2, <1>3 DEF Surjection
<1>5. IsFiniteSet(1..Len(s)) /\ Cardinality(1..Len(s)) = Len(s)
  <2>1. 1 \in Int /\ Len(s) \in Int
    BY <1>1
  <2> QED BY <1>1, <2>1, FS_Interval
<1>6. IsFiniteSet(ToSet(s)) /\ Cardinality(ToSet(s)) <= Cardinality(1..Len(s))
  BY <1>4, <1>5, FS_Surjection
<1> QED BY <1>5, <1>6, FS_CardinalityType

\* A step of a plan.
LEMMA StepTyped ==
    ASSUME NEW p \in Plans, NEW s \in Steps(p)
    PROVE  s \in StepRec /\ s.id \in Ids(p) /\ s.deps \in Seq(STRING)
<1>1. p \in Seq(StepRec)
  BY OrchestratorAssumption
<1>2. s \in StepRec
  BY <1>1 DEF Steps, ToSet
<1> QED BY <1>2 DEF StepRec, Ids

\* The ids of a valid plan name its steps.
LEMMA StepOfIs ==
    ASSUME NEW p \in Plans, Valid(p), NEW s \in Steps(p)
    PROVE  StepOf(p, s.id) = s
<1>1. p \in Seq(StepRec) /\ Len(p) \in Nat /\ DOMAIN p = 1..Len(p)
  BY OrchestratorAssumption, LenProperties
<1>2. PICK g : g = [i \in 1..Len(p) |-> p[i].id]
  OBVIOUS
<1>3. g \in [1..Len(p) -> Ids(p)] /\ \A d \in Ids(p) : \E i \in 1..Len(p) : g[i] = d
  BY <1>1, <1>2 DEF Ids, Steps, ToSet
<1>4. g \in Surjection(1..Len(p), Ids(p))
  BY <1>3 DEF Surjection
<1>5. IsFiniteSet(1..Len(p)) /\ Cardinality(1..Len(p)) = Len(p)
  <2>1. 1 \in Int /\ Len(p) \in Int
    BY <1>1
  <2> QED BY <1>1, <2>1, FS_Interval
<1>6. Cardinality(Ids(p)) = Cardinality(1..Len(p))
  BY <1>5 DEF Valid
<1>7. g \in Injection(1..Len(p), Ids(p))
  BY <1>4, <1>5, <1>6, FS_SurjSameCardinalityImpliesInj
<1>8. \A i, j \in 1..Len(p) : p[i].id = p[j].id => i = j
  BY <1>2, <1>7 DEF Injection, IsInjective
<1>9. ASSUME NEW r \in Steps(p), r.id = s.id PROVE r = s
  <2>1. PICK i \in 1..Len(p) : r = p[i]
    BY <1>1 DEF Steps, ToSet
  <2>2. PICK j \in 1..Len(p) : s = p[j]
    BY <1>1 DEF Steps, ToSet
  <2> QED BY <1>8, <1>9, <2>1, <2>2
<1> QED BY <1>9 DEF StepOf

\* The step an id of a valid plan names.
LEMMA StepOfIn ==
    ASSUME NEW p \in Plans, Valid(p), NEW id \in Ids(p)
    PROVE  StepOf(p, id) \in Steps(p) /\ StepOf(p, id).id = id
<1>1. PICK s \in Steps(p) : s.id = id
  BY DEF Ids
<1> QED BY <1>1, StepOfIs

\* A step all of whose entries are counted off has all its dependencies.
LEMMA CountedHasDeps ==
    ASSUME NEW p \in Plans, NEW K, NEW s \in Counted(p, K)
    PROVE  Deps(s) \subseteq {d.id : d \in K}
<1>1. s \in Steps(p) /\ Cardinality(Deps(s) \cap {d.id : d \in K}) = Len(s.deps)
  BY DEF Counted
<1>2. s.deps \in Seq(STRING) /\ Len(s.deps) \in Nat
  BY <1>1, StepTyped
<1>3. IsFiniteSet(Deps(s)) /\ Cardinality(Deps(s)) \in Nat /\ Cardinality(Deps(s)) <= Len(s.deps)
  BY <1>2, EntriesCount DEF Deps
<1>4. PICK T : T = Deps(s) \cap {d.id : d \in K}
  OBVIOUS
<1>5. T \in SUBSET Deps(s)
  BY <1>4
<1>6. Cardinality(T) \in Nat /\ Cardinality(T) <= Cardinality(Deps(s))
      /\ (Cardinality(Deps(s)) = Cardinality(T) => Deps(s) = T)
  BY <1>3, <1>5, FS_Subset, FS_CardinalityType
<1>7. Deps(s) = T
  BY <1>1, <1>2, <1>3, <1>4, <1>6
<1> QED BY <1>4, <1>7

\* What is reused is what a pass over it keeps.
LEMMA ReusedFixed ==
    ASSUME NEW p
    PROVE  Kept(p, Reused(p)) \subseteq Reused(p) /\ Reused(p) \subseteq Kept(p, Reused(p))
<1>1. \A K, L : K \subseteq L => Kept(p, K) \subseteq Kept(p, L)
  BY DEF Kept
<1>2. \A K : Kept(p, K) \in SUBSET Steps(p)
  BY DEF Kept
<1>3. \A K \in SUBSET Steps(p) : Kept(p, K) \subseteq K => Reused(p) \subseteq K
  BY DEF Reused
<1>4. ASSUME NEW s \in Kept(p, Reused(p)) PROVE s \in Reused(p)
  <2>1. ASSUME NEW K \in SUBSET Steps(p), Kept(p, K) \subseteq K PROVE s \in K
    <3>1. Kept(p, Reused(p)) \subseteq Kept(p, K)
      BY <1>1, <1>3, <2>1
    <3> QED BY <1>4, <2>1, <3>1
  <2>2. s \in Steps(p)
    BY <1>2, <1>4
  <2> QED BY <2>1, <2>2 DEF Reused
<1>5. Kept(p, Kept(p, Reused(p))) \subseteq Kept(p, Reused(p))
  BY <1>1, <1>4
<1> QED BY <1>2, <1>3, <1>4, <1>5

-----------------------------------------------------------------------------
(* The invariant.                                                          *)

ReusedIds == {s.id : s \in Reused(plan)}

\* Where the turn stands.
ControlInv ==
    /\ pc \in {"plan", "created", "running", "replan", "ended"}
    /\ replans \in 0..MaxReplans
    /\ plan \in Plans \cup {None}
    /\ pc \in {"created", "running"} => plan \in Plans
    /\ pc = "running" => Valid(plan)
    /\ pc # "running" => DOMAIN flying = {}
    /\ result \in {None, "answered", "done", "failed", "cancelled"}

\* A finished step's output is of an earlier attempt.
FinishedInv ==
    \A id \in DOMAIN finished :
        /\ finished[id].step.id = id
        /\ finished[id].out \in Outputs({finished[id].step})
        /\ pc # "ended" => /\ finished[id].out.by < Attempt
                           /\ \A d \in DOMAIN finished[id].out.inputs : finished[id].out.inputs[d] < Attempt

\* What is complete was reused, or ran in this attempt on what is complete.
DoneInv ==
    pc = "running" =>
        /\ ReusedIds \subseteq DOMAIN done /\ DOMAIN done \subseteq Ids(plan)
        /\ \A id \in DOMAIN done : done[id] \in Outputs({StepOf(plan, id)})
        /\ \A id \in ReusedIds : done[id] = finished[id].out
        /\ \A id \in DOMAIN done \ ReusedIds : done[id].by = Attempt /\ Fresh(id)

TasksInv ==
    \A id \in DOMAIN flying :
        /\ DOMAIN flying[id] = {"try", "at", "inputs"}
        /\ flying[id].try \in 1..MaxAttempts
        /\ flying[id].at \in {"running", "ok", "exhausted", "panicked"}

\* A task read what its dependencies have, and every ready step is in flight.
FlyingInv ==
    pc = "running" =>
        /\ DOMAIN flying \subseteq Ids(plan) \ DOMAIN done
        /\ \A id \in DOMAIN flying :
             /\ Deps(StepOf(plan, id)) \subseteq DOMAIN done
             /\ flying[id].inputs = [d \in Deps(StepOf(plan, id)) |-> done[d].by]
        /\ \A s \in ReadySteps(plan, DOMAIN done) : s.id \in DOMAIN flying

TurnInv == ControlInv /\ FinishedInv /\ DoneInv /\ TasksInv /\ FlyingInv

\* The attempts are numbered from 0 to MaxReplans.
LEMMA AttemptTyped ==
    ASSUME replans \in 0..MaxReplans
    PROVE  Attempt \in 0..MaxReplans /\ Attempt \in Nat /\ replans \in Nat
  BY OrchestratorAssumption DEF Attempt

\* An output: the attempt that made it and those that made its inputs.
LEMMA OutputsAre ==
    ASSUME NEW s
    PROVE  Outputs({s}) = [by: 0..MaxReplans, inputs: [Deps(s) -> 0..MaxReplans]]
<1>1. UNION {[Deps(r) -> 0..MaxReplans] : r \in {s}} = [Deps(s) -> 0..MaxReplans]
  OBVIOUS
<1> QED BY <1>1 DEF Outputs

LEMMA OutputTyped ==
    ASSUME NEW s, NEW o \in Outputs({s})
    PROVE  o.by \in 0..MaxReplans /\ o.inputs \in [Deps(s) -> 0..MaxReplans] /\ DOMAIN o.inputs = Deps(s)
<1>1. o \in [by: 0..MaxReplans, inputs: [Deps(s) -> 0..MaxReplans]]
  BY OutputsAre, Zenon
<1> QED BY <1>1

\* No output is of a later attempt.
LEMMA DoneBounded ==
    ASSUME TurnInv, pc = "running", NEW id \in DOMAIN done
    PROVE  /\ done[id].by \in 0..Attempt
           /\ \A d \in DOMAIN done[id].inputs : done[id].inputs[d] \in 0..Attempt
<1>0. Attempt \in Nat /\ plan \in Plans /\ Valid(plan)
  BY AttemptTyped DEF TurnInv, ControlInv
<1>1. ASSUME NEW j \in DOMAIN done PROVE done[j].by \in 0..Attempt
  <2>1. done[j].by \in 0..MaxReplans
    <3>1. done[j] \in Outputs({StepOf(plan, j)})
      BY <1>1 DEF TurnInv, DoneInv
    <3> QED BY <3>1, OutputTyped
  <2>2. CASE j \in ReusedIds
    <3>1. j \in DOMAIN finished /\ done[j] = finished[j].out
      BY <2>2, ReusedFixed DEF TurnInv, DoneInv, ReusedIds, Kept
    <3>2. done[j].by < Attempt
      BY <3>1 DEF TurnInv, FinishedInv
    <3> QED BY <1>0, <2>1, <3>2
  <2>3. CASE j \notin ReusedIds
    BY <1>0, <1>1, <2>3 DEF TurnInv, DoneInv
  <2> QED BY <2>2, <2>3
<1>2. ASSUME NEW d \in DOMAIN done[id].inputs PROVE done[id].inputs[d] \in 0..Attempt
  <2>1. done[id].inputs \in [Deps(StepOf(plan, id)) -> 0..MaxReplans]
    <3>1. done[id] \in Outputs({StepOf(plan, id)})
      BY DEF TurnInv, DoneInv
    <3> QED BY <3>1, OutputTyped
  <2>2. done[id].inputs[d] \in 0..MaxReplans
    BY <1>2, <2>1
  <2>3. CASE id \in ReusedIds
    <3>1. id \in DOMAIN finished /\ done[id] = finished[id].out
      BY <2>3, ReusedFixed DEF TurnInv, DoneInv, ReusedIds, Kept
    <3>2. done[id].inputs[d] < Attempt
      BY <1>2, <3>1 DEF TurnInv, FinishedInv
    <3> QED BY <1>0, <2>2, <3>2
  <2>4. CASE id \notin ReusedIds
    <3>1. d \in DOMAIN done /\ done[id].inputs[d] = done[d].by
      BY <1>2, <2>4 DEF TurnInv, DoneInv, Fresh
    <3> QED BY <1>1, <3>1
  <2> QED BY <2>3, <2>4
<1> QED BY <1>1, <1>2

\* What Dispatched spawns.
LEMMA DispatchedIs ==
    ASSUME NEW p \in Plans, Valid(p), NEW outputs, NEW tasks
    PROVE  LET D == Dispatched(p, outputs, tasks) IN
           /\ DOMAIN tasks \subseteq DOMAIN D
           /\ \A id \in DOMAIN tasks : D[id] = tasks[id]
           /\ \A id \in DOMAIN D \ DOMAIN tasks :
                /\ id \in Ids(p) /\ id \notin DOMAIN outputs
                /\ Deps(StepOf(p, id)) \subseteq DOMAIN outputs
                /\ D[id] = Task(StepOf(p, id), outputs)
           /\ \A s \in ReadySteps(p, DOMAIN outputs) : s.id \in DOMAIN D
<1>1. PICK new : new = {s \in ReadySteps(p, DOMAIN outputs) : s.id \notin DOMAIN tasks}
  OBVIOUS
<1>2. PICK D : D = Dispatched(p, outputs, tasks)
  OBVIOUS
<1>3. D = [id \in DOMAIN tasks \cup {s.id : s \in new} |->
             IF id \in DOMAIN tasks THEN tasks[id] ELSE Task(StepOf(p, id), outputs)]
  BY <1>1, <1>2 DEF Dispatched
<1>4. ASSUME NEW id \in DOMAIN D, id \notin DOMAIN tasks
      PROVE  /\ id \in Ids(p) /\ id \notin DOMAIN outputs
             /\ Deps(StepOf(p, id)) \subseteq DOMAIN outputs
             /\ D[id] = Task(StepOf(p, id), outputs)
  <2>1. PICK s \in new : s.id = id
    BY <1>3, <1>4
  <2>2. s \in Steps(p) /\ s.id \notin DOMAIN outputs /\ Deps(s) \subseteq DOMAIN outputs
    BY <1>1, <2>1 DEF ReadySteps
  <2>3. StepOf(p, id) = s
    BY <2>1, <2>2, StepOfIs
  <2> QED BY <1>3, <1>4, <2>1, <2>2, <2>3 DEF Ids
<1>5. ASSUME NEW s \in ReadySteps(p, DOMAIN outputs) PROVE s.id \in DOMAIN D
  BY <1>1, <1>3
<1> QED BY <1>2, <1>3, <1>4, <1>5

-----------------------------------------------------------------------------
(* The invariant holds.                                                    *)

\* Nothing is in flight or complete in an empty map.
LEMMA EmptyIs == DOMAIN Empty = {}
  BY DEF Empty

\* No turn has begun.
LEMMA InitTurn == Init => TurnInv
<1> SUFFICES ASSUME Init PROVE TurnInv
  OBVIOUS
<1>1. ControlInv
  BY EmptyIs, OrchestratorAssumption DEF Init, ControlInv
<1>2. FinishedInv /\ TasksInv
  BY EmptyIs DEF Init, FinishedInv, TasksInv
<1>3. DoneInv /\ FlyingInv
  BY DEF Init, DoneInv, FlyingInv
<1> QED BY <1>1, <1>2, <1>3 DEF TurnInv

\* NeedsReplan keeps the invariant when what it hands on was made so far.
LEMMA ReplanTurn ==
    ASSUME TurnInv, NEW kept, NeedsReplan(kept),
           \A id \in DOMAIN kept :
              /\ kept[id].step.id = id
              /\ kept[id].out \in Outputs({kept[id].step})
              /\ kept[id].out.by \in 0..Attempt
              /\ \A d \in DOMAIN kept[id].out.inputs : kept[id].out.inputs[d] \in 0..Attempt
    PROVE  TurnInv'
<1>1. /\ finished' = kept /\ plan' = plan /\ DOMAIN flying' = {}
      /\ \/ pc' = "ended" /\ replans' = replans /\ result' = "failed"
         \/ pc' = "replan" /\ replans > 0 /\ replans' = replans - 1 /\ result' = result
  BY EmptyIs DEF NeedsReplan, Complete
<1>2. Attempt \in Nat /\ replans \in Nat /\ replans \in 0..MaxReplans /\ MaxReplans \in Nat
  BY AttemptTyped, OrchestratorAssumption DEF TurnInv, ControlInv
<1>3. ControlInv'
  <2>1. replans' \in 0..MaxReplans
    BY <1>1, <1>2
  <2>2. plan' \in Plans \cup {None} /\ result' \in {None, "answered", "done", "failed", "cancelled"}
    BY <1>1 DEF TurnInv, ControlInv
  <2> QED BY <1>1, <2>1, <2>2 DEF ControlInv
<1>4. pc' # "ended" => Attempt' = Attempt + 1
  BY <1>1, <1>2 DEF Attempt
<1>5. FinishedInv'
  <2> SUFFICES ASSUME NEW id \in DOMAIN kept
               PROVE  /\ kept[id].step.id = id
                      /\ kept[id].out \in Outputs({kept[id].step})
                      /\ pc' # "ended" =>
                           /\ kept[id].out.by < Attempt'
                           /\ \A d \in DOMAIN kept[id].out.inputs : kept[id].out.inputs[d] < Attempt'
    BY <1>1 DEF FinishedInv, Outputs
  <2> QED BY <1>2, <1>4
<1>6. DoneInv' /\ FlyingInv' /\ TasksInv'
  BY <1>1 DEF DoneInv, FlyingInv, TasksInv
<1> QED BY <1>3, <1>5, <1>6 DEF TurnInv

\* The turn ends.
LEMMA EndTurn ==
    ASSUME TurnInv, NEW r \in {"answered", "done", "failed", "cancelled"}, Complete(r),
           UNCHANGED <<plan, replans, finished, done>>
    PROVE  TurnInv'
<1>1. pc' = "ended" /\ result' = r /\ DOMAIN flying' = {}
  BY EmptyIs DEF Complete
<1>2. ControlInv'
  BY <1>1 DEF TurnInv, ControlInv
<1>3. FinishedInv'
  BY <1>1 DEF TurnInv, FinishedInv, Outputs
<1>4. DoneInv' /\ FlyingInv' /\ TasksInv'
  BY <1>1 DEF DoneInv, FlyingInv, TasksInv
<1> QED BY <1>2, <1>3, <1>4 DEF TurnInv

\* What an attempt completed joins what finished before it.
LEMMA ExtendedMade ==
    ASSUME TurnInv, pc = "running"
    PROVE  \A id \in DOMAIN Extended :
              /\ Extended[id].step.id = id
              /\ Extended[id].out \in Outputs({Extended[id].step})
              /\ Extended[id].out.by \in 0..Attempt
              /\ \A d \in DOMAIN Extended[id].out.inputs : Extended[id].out.inputs[d] \in 0..Attempt
<1>0. plan \in Plans /\ Valid(plan) /\ Attempt \in Nat /\ MaxReplans \in Nat
  BY AttemptTyped, OrchestratorAssumption DEF TurnInv, ControlInv
<1> SUFFICES ASSUME NEW id \in DOMAIN Extended
             PROVE  /\ Extended[id].step.id = id
                    /\ Extended[id].out \in Outputs({Extended[id].step})
                    /\ Extended[id].out.by \in 0..Attempt
                    /\ \A d \in DOMAIN Extended[id].out.inputs : Extended[id].out.inputs[d] \in 0..Attempt
  OBVIOUS
<1>1. CASE id \in DOMAIN done
  <2>1. Extended[id].step = StepOf(plan, id) /\ Extended[id].out = done[id]
    BY <1>1 DEF Extended
  <2>2. id \in Ids(plan) /\ done[id] \in Outputs({StepOf(plan, id)})
    BY <1>1 DEF TurnInv, DoneInv
  <2> QED BY <1>0, <1>1, <2>1, <2>2, StepOfIn, DoneBounded
<1>2. CASE id \notin DOMAIN done
  <2>1. id \in DOMAIN finished /\ Extended[id] = finished[id]
    BY <1>2 DEF Extended
  <2>2. /\ finished[id].step.id = id /\ finished[id].out \in Outputs({finished[id].step})
        /\ finished[id].out.by < Attempt
        /\ \A d \in DOMAIN finished[id].out.inputs : finished[id].out.inputs[d] < Attempt
    BY <2>1 DEF TurnInv, FinishedInv
  <2>3. /\ finished[id].out.by \in 0..MaxReplans
        /\ finished[id].out.inputs \in [Deps(finished[id].step) -> 0..MaxReplans]
    BY <2>2, OutputTyped
  <2>4. finished[id].out.by \in 0..Attempt
    BY <1>0, <2>2, <2>3
  <2>5. ASSUME NEW d \in DOMAIN finished[id].out.inputs PROVE finished[id].out.inputs[d] \in 0..Attempt
    <3>1. finished[id].out.inputs[d] \in 0..MaxReplans
      BY <2>3, <2>5
    <3> QED BY <1>0, <2>2, <2>5, <3>1
  <2> QED BY <2>1, <2>2, <2>4, <2>5
<1> QED BY <1>1, <1>2

\* The planner answers with a plan.
LEMMA PlannerTurn ==
    ASSUME TurnInv, PlannerPlans
    PROVE  TurnInv'
<1>1. /\ pc' = "created" /\ pc # "running" /\ pc # "ended" /\ plan' \in Plans
      /\ UNCHANGED <<replans, finished, done, flying, result>>
  BY DEF PlannerPlans
<1>2. ControlInv'
  BY <1>1 DEF TurnInv, ControlInv
<1>3. FinishedInv'
  BY <1>1 DEF TurnInv, FinishedInv, Outputs, Attempt
<1>4. DoneInv' /\ FlyingInv' /\ TasksInv'
  BY <1>1 DEF TurnInv, DoneInv, FlyingInv, TasksInv
<1> QED BY <1>2, <1>3, <1>4 DEF TurnInv

\* A plan that cannot run goes back.
LEMMA RefuseTurn ==
    ASSUME TurnInv, Refuse
    PROVE  TurnInv'
<1>0. pc = "created" /\ NeedsReplan(finished) /\ Attempt \in Nat /\ MaxReplans \in Nat
  BY AttemptTyped, OrchestratorAssumption DEF TurnInv, ControlInv, Refuse
<1>1. ASSUME NEW id \in DOMAIN finished
      PROVE  /\ finished[id].step.id = id /\ finished[id].out \in Outputs({finished[id].step})
             /\ finished[id].out.by \in 0..Attempt
             /\ \A d \in DOMAIN finished[id].out.inputs : finished[id].out.inputs[d] \in 0..Attempt
  <2>2. /\ finished[id].step.id = id /\ finished[id].out \in Outputs({finished[id].step})
        /\ finished[id].out.by < Attempt
        /\ \A d \in DOMAIN finished[id].out.inputs : finished[id].out.inputs[d] < Attempt
    BY <1>0, <1>1 DEF TurnInv, FinishedInv
  <2>3. /\ finished[id].out.by \in 0..MaxReplans
        /\ finished[id].out.inputs \in [Deps(finished[id].step) -> 0..MaxReplans]
    BY <2>2, OutputTyped
  <2>4. finished[id].out.by \in 0..Attempt
    BY <1>0, <2>2, <2>3
  <2>5. ASSUME NEW d \in DOMAIN finished[id].out.inputs PROVE finished[id].out.inputs[d] \in 0..Attempt
    <3>1. finished[id].out.inputs[d] \in 0..MaxReplans
      BY <2>3, <2>5
    <3> QED BY <1>0, <2>2, <2>5, <3>1
  <2> QED BY <2>2, <2>4, <2>5
<1> QED BY <1>0, <1>1, ReplanTurn

\* A task moves on by itself.
LEMMA TasksTurn ==
    ASSUME TurnInv, UNCHANGED <<pc, plan, replans, finished, done, result>>,
           DOMAIN flying' = DOMAIN flying, TasksInv',
           \A id \in DOMAIN flying : flying'[id].inputs = flying[id].inputs
    PROVE  TurnInv'
<1>1. ReusedIds' = ReusedIds /\ Attempt' = Attempt
  BY DEF ReusedIds, Reused, Kept, Attempt
<1>2. ControlInv'
  BY DEF TurnInv, ControlInv
<1>3. FinishedInv'
  BY <1>1 DEF TurnInv, FinishedInv, Outputs
<1>4. DoneInv'
  BY <1>1 DEF TurnInv, DoneInv, Outputs, Fresh
<1>5. FlyingInv'
  BY DEF TurnInv, FlyingInv
<1> QED BY <1>2, <1>3, <1>4, <1>5 DEF TurnInv

\* A try ends: the output, another try, or the end of the task.
LEMMA TryTurn ==
    ASSUME TurnInv, NEW id, TryEnds(id)
    PROVE  TurnInv'
<1>1. id \in DOMAIN flying /\ UNCHANGED <<pc, plan, replans, finished, done, result>>
  BY DEF TryEnds, TryOk, TryFails, TaskPanics
<1>2. PICK t : t = flying[id]
  OBVIOUS
<1>3. /\ DOMAIN t = {"try", "at", "inputs"} /\ t.try \in 1..MaxAttempts
      /\ t.at \in {"running", "ok", "exhausted", "panicked"}
  BY <1>1, <1>2 DEF TurnInv, TasksInv
<1>4. \/ \E a \in {"ok", "exhausted", "panicked"} : flying' = [flying EXCEPT ![id].at = a]
      \/ t.try < MaxAttempts /\ flying' = [flying EXCEPT ![id].try = t.try + 1]
  BY <1>2 DEF TryEnds, TryOk, TryFails, TaskPanics, Retries
<1>5. /\ DOMAIN flying' = DOMAIN flying
      /\ \A i \in DOMAIN flying : i # id => flying'[i] = flying[i]
      /\ DOMAIN flying'[id] = {"try", "at", "inputs"} /\ flying'[id].inputs = t.inputs
      /\ flying'[id].try \in 1..MaxAttempts
      /\ flying'[id].at \in {"running", "ok", "exhausted", "panicked"}
  <2>1. CASE \E a \in {"ok", "exhausted", "panicked"} : flying' = [flying EXCEPT ![id].at = a]
    <3>1. PICK a \in {"ok", "exhausted", "panicked"} : flying' = [flying EXCEPT ![id].at = a]
      BY <2>1
    <3>2. flying'[id] = [t EXCEPT !.at = a] /\ DOMAIN flying' = DOMAIN flying
          /\ \A i \in DOMAIN flying : i # id => flying'[i] = flying[i]
      BY <1>1, <1>2, <3>1
    <3> QED BY <1>3, <3>2
  <2>2. CASE t.try < MaxAttempts /\ flying' = [flying EXCEPT ![id].try = t.try + 1]
    <3>2. flying'[id] = [t EXCEPT !.try = t.try + 1] /\ DOMAIN flying' = DOMAIN flying
          /\ \A i \in DOMAIN flying : i # id => flying'[i] = flying[i]
      BY <1>1, <1>2, <2>2
    <3>3. t.try + 1 \in 1..MaxAttempts
      BY <1>3, <2>2, OrchestratorAssumption
    <3> QED BY <1>3, <3>2, <3>3
  <2> QED BY <1>4, <2>1, <2>2
<1>6. TasksInv'
  BY <1>5 DEF TurnInv, TasksInv
<1>7. \A i \in DOMAIN flying : flying'[i].inputs = flying[i].inputs
  BY <1>2, <1>5
<1> QED BY <1>1, <1>5, <1>6, <1>7, TasksTurn

\* A task that is spawned.
LEMMA TaskIs ==
    ASSUME NEW s, NEW outputs
    PROVE  LET t == Task(s, outputs) IN
           /\ DOMAIN t = {"try", "at", "inputs"} /\ t.try = 1 /\ t.at = "running"
           /\ t.inputs = [d \in Deps(s) |-> outputs[d].by]
  BY DEF Task

\* There is a first try.
LEMMA FirstTry == 1 \in 1..MaxAttempts
  BY OrchestratorAssumption

\* run_reusing begins: the reused outputs, and the first tasks.
LEMMA RunTurn ==
    ASSUME TurnInv, Run
    PROVE  TurnInv'
<1>0. /\ pc = "created" /\ pc' = "running" /\ plan \in Plans /\ Valid(plan)
      /\ UNCHANGED <<plan, replans, finished, result>>
      /\ done' = ReusedOutputs(plan) /\ flying' = Dispatched(plan, done', Empty)
  BY DEF Run, TurnInv, ControlInv
<1>1. ReusedIds' = ReusedIds /\ Attempt' = Attempt
  BY <1>0 DEF ReusedIds, Reused, Kept, Attempt
<1>2. DOMAIN done' = ReusedIds /\ \A id \in ReusedIds : done'[id] = finished[id].out
  BY <1>0 DEF ReusedOutputs, ReusedIds
<1>3. ASSUME NEW id \in ReusedIds
      PROVE  id \in Ids(plan) /\ done'[id] \in Outputs({StepOf(plan, id)})
  <2>1. PICK s \in Reused(plan) : s.id = id
    BY <1>3 DEF ReusedIds
  <2>2. s \in Steps(plan) /\ id \in DOMAIN finished /\ finished[id].step = s
    BY <2>1, ReusedFixed DEF Kept
  <2>3. StepOf(plan, id) = s
    BY <1>0, <2>1, <2>2, StepOfIs
  <2>4. finished[id].out \in Outputs({s})
    BY <2>2 DEF TurnInv, FinishedInv
  <2> QED BY <1>2, <1>3, <2>1, <2>2, <2>3, <2>4 DEF Ids
<1>4. /\ \A id \in DOMAIN flying' :
           /\ id \in Ids(plan) /\ id \notin DOMAIN done'
           /\ Deps(StepOf(plan, id)) \subseteq DOMAIN done'
           /\ flying'[id] = Task(StepOf(plan, id), done')
      /\ \A s \in ReadySteps(plan, DOMAIN done') : s.id \in DOMAIN flying'
  BY <1>0, EmptyIs, DispatchedIs
<1>5. ControlInv'
  BY <1>0 DEF TurnInv, ControlInv
<1>6. FinishedInv'
  BY <1>0, <1>1 DEF TurnInv, FinishedInv, Outputs
<1>7. DoneInv'
  <2>1. \A id \in DOMAIN done' : id \in Ids(plan) /\ done'[id] \in Outputs({StepOf(plan, id)})
    BY <1>2, <1>3
  <2> QED BY <1>0, <1>1, <1>2, <2>1 DEF DoneInv, Outputs
<1>8. TasksInv'
  <2>1. \A id \in DOMAIN flying' : /\ DOMAIN flying'[id] = {"try", "at", "inputs"}
                                  /\ flying'[id].try = 1 /\ flying'[id].at = "running"
    BY <1>4 DEF Task
  <2> QED BY <2>1, FirstTry DEF TasksInv
<1>9. FlyingInv'
  <2>1. \A id \in DOMAIN flying' : flying'[id].inputs = [d \in Deps(StepOf(plan, id)) |-> done'[d].by]
    BY <1>4, TaskIs
  <2> QED BY <1>0, <1>4, <2>1 DEF FlyingInv
<1> QED BY <1>5, <1>6, <1>7, <1>8, <1>9 DEF TurnInv

\* An output is taken: it is complete, and what it made ready is spawned.
LEMMA OutputTurn ==
    ASSUME TurnInv, NEW id, TakeOutput(id)
    PROVE  TurnInv'
<1>0. /\ pc = "running" /\ plan \in Plans /\ Valid(plan) /\ id \in DOMAIN flying
      /\ UNCHANGED <<pc, plan, replans, finished, result>>
      /\ id \in Ids(plan) /\ id \notin DOMAIN done /\ Attempt \in 0..MaxReplans
  BY AttemptTyped DEF TakeOutput, TurnInv, ControlInv, FlyingInv
<1>1. ReusedIds' = ReusedIds /\ Attempt' = Attempt
  BY <1>0 DEF ReusedIds, Reused, Kept, Attempt
<1>2. PICK rest : rest = Restrict(flying, DOMAIN flying \ {id})
  OBVIOUS
<1>3. DOMAIN rest = DOMAIN flying \ {id} /\ \A i \in DOMAIN rest : rest[i] = flying[i]
  BY <1>2 DEF Restrict
<1>4. /\ DOMAIN done' = DOMAIN done \cup {id}
      /\ done'[id] = Output(id) /\ \A i \in DOMAIN done : done'[i] = done[i]
  BY <1>0 DEF TakeOutput
<1>5. flying' = Dispatched(plan, done', rest)
  BY <1>2 DEF TakeOutput
<1>6. /\ DOMAIN rest \subseteq DOMAIN flying'
      /\ \A i \in DOMAIN rest : flying'[i] = rest[i]
      /\ \A i \in DOMAIN flying' \ DOMAIN rest :
           /\ i \in Ids(plan) /\ i \notin DOMAIN done'
           /\ Deps(StepOf(plan, i)) \subseteq DOMAIN done'
           /\ flying'[i] = Task(StepOf(plan, i), done')
      /\ \A s \in ReadySteps(plan, DOMAIN done') : s.id \in DOMAIN flying'
  BY <1>0, <1>5, DispatchedIs
<1>7. ControlInv' /\ FinishedInv'
  BY <1>0, <1>1 DEF TurnInv, ControlInv, FinishedInv, Outputs
<1>8. /\ Deps(StepOf(plan, id)) \subseteq DOMAIN done
      /\ flying[id].inputs = [d \in Deps(StepOf(plan, id)) |-> done[d].by]
  BY <1>0 DEF TurnInv, FlyingInv
<1>9. done'[id].by = Attempt /\ done'[id].inputs = flying[id].inputs
  BY <1>4 DEF Output
<1>10. done'[id] \in Outputs({StepOf(plan, id)})
  <2>1. \A d \in DOMAIN done : done[d].by \in 0..MaxReplans
    <3>1. \A d \in DOMAIN done : done[d] \in Outputs({StepOf(plan, d)})
      BY <1>0 DEF TurnInv, DoneInv
    <3> QED BY <3>1, OutputTyped
  <2>2. flying[id].inputs \in [Deps(StepOf(plan, id)) -> 0..MaxReplans]
    BY <1>8, <2>1
  <2>3. Output(id) \in [by: 0..MaxReplans, inputs: [Deps(StepOf(plan, id)) -> 0..MaxReplans]]
    BY <1>0, <2>2 DEF Output
  <2> QED BY <1>4, <2>3, OutputsAre
<1>11. DoneInv'
  <2>1. \A i \in DOMAIN done' : i \in Ids(plan) /\ done'[i] \in Outputs({StepOf(plan, i)})
    BY <1>0, <1>4, <1>10 DEF TurnInv, DoneInv
  <2>2. ReusedIds \subseteq DOMAIN done' /\ \A i \in ReusedIds : done'[i] = finished[i].out
    BY <1>0, <1>4 DEF TurnInv, DoneInv
  <2>3. ASSUME NEW i \in DOMAIN done' \ ReusedIds
        PROVE  /\ done'[i].by = Attempt
               /\ \A d \in DOMAIN done'[i].inputs :
                    d \in DOMAIN done' /\ done'[i].inputs[d] = done'[d].by
    <3>1. CASE i = id
      BY <1>4, <1>8, <1>9, <3>1
    <3>2. CASE i # id
      <4>1. i \in DOMAIN done \ ReusedIds /\ done'[i] = done[i]
        BY <1>4, <2>3, <3>2
      <4>2. done[i].by = Attempt /\ \A d \in DOMAIN done[i].inputs :
                d \in DOMAIN done /\ done[i].inputs[d] = done[d].by
        BY <1>0, <4>1 DEF TurnInv, DoneInv, Fresh
      <4> QED BY <1>4, <4>1, <4>2
    <3> QED BY <3>1, <3>2
  <2> QED BY <1>0, <1>1, <2>1, <2>2, <2>3 DEF DoneInv, Outputs, Fresh
<1>12. TasksInv'
  <2> SUFFICES ASSUME NEW i \in DOMAIN flying'
               PROVE  /\ DOMAIN flying'[i] = {"try", "at", "inputs"}
                      /\ flying'[i].try \in 1..MaxAttempts
                      /\ flying'[i].at \in {"running", "ok", "exhausted", "panicked"}
    BY DEF TasksInv
  <2>1. CASE i \in DOMAIN rest
    BY <1>3, <1>6, <2>1 DEF TurnInv, TasksInv
  <2>2. CASE i \notin DOMAIN rest
    <3>1. DOMAIN flying'[i] = {"try", "at", "inputs"} /\ flying'[i].try = 1 /\ flying'[i].at = "running"
      <4>1. flying'[i] = Task(StepOf(plan, i), done')
        BY <1>6, <2>2
      <4> QED BY <4>1 DEF Task
    <3> QED BY <3>1, FirstTry
  <2> QED BY <2>1, <2>2
<1>13. FlyingInv'
  <2>1. ASSUME NEW i \in DOMAIN flying'
        PROVE  /\ i \in Ids(plan) \ DOMAIN done'
               /\ Deps(StepOf(plan, i)) \subseteq DOMAIN done'
               /\ flying'[i].inputs = [d \in Deps(StepOf(plan, i)) |-> done'[d].by]
    <3>1. CASE i \in DOMAIN rest
      <4>1. i \in DOMAIN flying /\ i # id /\ flying'[i] = flying[i]
        BY <1>3, <1>6, <3>1
      <4>2. /\ i \in Ids(plan) \ DOMAIN done /\ Deps(StepOf(plan, i)) \subseteq DOMAIN done
            /\ flying[i].inputs = [d \in Deps(StepOf(plan, i)) |-> done[d].by]
        BY <1>0, <4>1 DEF TurnInv, FlyingInv
      <4> QED BY <1>4, <4>1, <4>2
    <3>2. CASE i \notin DOMAIN rest
      <4>1. /\ i \in Ids(plan) \ DOMAIN done' /\ Deps(StepOf(plan, i)) \subseteq DOMAIN done'
            /\ flying'[i] = Task(StepOf(plan, i), done')
        BY <1>6, <2>1, <3>2
      <4> QED BY <4>1, TaskIs
    <3> QED BY <3>1, <3>2
  <2> QED BY <1>0, <1>6, <2>1 DEF FlyingInv
<1> QED BY <1>7, <1>11, <1>12, <1>13 DEF TurnInv

\* Every step keeps the invariant.
LEMMA NextTurn == TurnInv /\ [Next]_vars => TurnInv'
<1> SUFFICES ASSUME TurnInv, [Next]_vars PROVE TurnInv'
  OBVIOUS
<1>1. CASE PlannerPlans
  BY <1>1, PlannerTurn
<1>2. CASE PlannerEnds
  BY <1>2, EndTurn DEF PlannerEnds
<1>3. CASE Refuse
  BY <1>3, RefuseTurn
<1>4. CASE Run
  BY <1>4, RunTurn
<1>5. CASE Finish
  <2>1. CASE Complete("done") /\ UNCHANGED <<plan, replans, finished, done>>
    BY <2>1, EndTurn
  <2>2. CASE NeedsReplan(Extended)
    <3>1. pc = "running"
      BY <1>5 DEF Finish
    <3> QED BY <2>2, <3>1, ExtendedMade, ReplanTurn
  <2> QED BY <1>5, <2>1, <2>2 DEF Finish
<1>6. ASSUME NEW id \in StepIds, TakeOutput(id) PROVE TurnInv'
  BY <1>6, OutputTurn
<1>7. ASSUME NEW id \in StepIds, TakeFailure(id) PROVE TurnInv'
  <2>1. pc = "running" /\ NeedsReplan(Extended)
    BY <1>7 DEF TakeFailure
  <2> QED BY <2>1, ExtendedMade, ReplanTurn
<1>8. CASE Cancel
  BY <1>8, EndTurn DEF Cancel
<1>9. ASSUME NEW id \in StepIds, TryEnds(id) PROVE TurnInv'
  BY <1>9, TryTurn
<1>10. CASE UNCHANGED vars
  <2>1. UNCHANGED <<pc, plan, replans, finished, done, result>> /\ flying' = flying
    BY <1>10 DEF vars
  <2>2. TasksInv'
    BY <2>1 DEF TurnInv, TasksInv
  <2> QED BY <2>1, <2>2, TasksTurn
<1> QED BY <1>1, <1>2, <1>3, <1>4, <1>5, <1>6, <1>7, <1>8, <1>9, <1>10 DEF Next, Driver

LEMMA TurnHolds == Spec => []TurnInv
  BY InitTurn, NextTurn, PTL DEF Spec

-----------------------------------------------------------------------------
(* The theorems.                                                           *)

\* Every output belongs to a step of its plan and names the inputs that step
\* depends on; a task has tries left.
THEOREM TurnTyped == Spec => []TypeOK
<1>1. TurnInv => TypeOK
  <2> SUFFICES ASSUME TurnInv PROVE TypeOK
    OBVIOUS
  <2>1. /\ pc \in {"plan", "created", "running", "replan", "ended"}
        /\ plan \in Plans \cup {None} /\ replans \in 0..MaxReplans
        /\ result \in {None, "answered", "done", "failed", "cancelled"}
    BY DEF TurnInv, ControlInv
  <2>2. \A id \in DOMAIN finished :
           finished[id].step.id = id /\ finished[id].out \in Outputs({finished[id].step})
    BY DEF TurnInv, FinishedInv
  <2>3. pc = "running" =>
           /\ \A id \in DOMAIN done : done[id] \in Outputs({StepOf(plan, id)})
           /\ DOMAIN flying \subseteq Ids(plan) \ DOMAIN done
    BY DEF TurnInv, DoneInv, FlyingInv
  <2>4. \A id \in DOMAIN flying :
           /\ flying[id].try \in 1..MaxAttempts
           /\ flying[id].at \in {"running", "ok", "exhausted", "panicked"}
    BY DEF TurnInv, TasksInv
  <2> QED BY <2>1, <2>2, <2>3, <2>4 DEF TypeOK
<1> QED BY <1>1, TurnHolds, PTL

\* A step that ran in an attempt read the outputs its dependencies have in
\* it, and so, up to the first replan, did every output that was reused: only
\* the outputs of the first attempt are there to be reused.
THEOREM StepsReadFresh == Spec => []RanFresh
<1>1. TurnInv => RanFresh
  <2> SUFFICES ASSUME TurnInv, pc = "running", NEW id \in DOMAIN done,
                      Attempt <= 1 \/ done[id].by = Attempt
               PROVE  Fresh(id)
    BY DEF RanFresh
  <2>0. Attempt \in Nat /\ plan \in Plans /\ Valid(plan)
    BY AttemptTyped DEF TurnInv, ControlInv
  <2>1. CASE id \notin ReusedIds
    BY <2>1 DEF TurnInv, DoneInv
  <2>2. CASE id \in ReusedIds
    <3>1. PICK s \in Reused(plan) : s.id = id
      BY <2>2 DEF ReusedIds
    <3>2. /\ s \in Steps(plan) /\ id \in DOMAIN finished /\ finished[id].step = s
          /\ Deps(s) \subseteq ReusedIds
      BY <3>1, ReusedFixed DEF Kept, ReusedIds
    <3>3. StepOf(plan, id) = s
      BY <2>0, <3>1, <3>2, StepOfIs
    <3>4. done[id] \in Outputs({s}) /\ done[id] = finished[id].out
      BY <2>2, <3>3 DEF TurnInv, DoneInv
    <3>5. DOMAIN done[id].inputs = Deps(s)
      BY <3>4, OutputTyped
    <3>6. done[id].by < Attempt /\ \A d \in DOMAIN done[id].inputs : done[id].inputs[d] < Attempt
      BY <3>2, <3>4 DEF TurnInv, FinishedInv
    <3>7. done[id].by \in 0..Attempt /\ \A d \in DOMAIN done[id].inputs : done[id].inputs[d] \in 0..Attempt
      BY DoneBounded
    <3>8. Attempt = 1
      BY <2>0, <3>6, <3>7
    <3>9. ASSUME NEW d \in DOMAIN done[id].inputs
          PROVE  d \in DOMAIN done /\ done[id].inputs[d] = done[d].by
      <4>1. d \in ReusedIds /\ d \in DOMAIN finished /\ d \in DOMAIN done /\ done[d] = finished[d].out
        BY <3>2, <3>5, <3>9, ReusedFixed DEF TurnInv, DoneInv, ReusedIds, Kept
      <4>2. done[d].by < Attempt /\ done[d].by \in 0..Attempt
        BY <4>1, DoneBounded DEF TurnInv, FinishedInv
      <4>3. done[id].inputs[d] < Attempt /\ done[id].inputs[d] \in 0..Attempt
        BY <3>6, <3>7, <3>9
      <4> QED BY <3>8, <4>1, <4>2, <4>3
    <3> QED BY <3>9 DEF Fresh
  <2> QED BY <2>1, <2>2
<1> QED BY <1>1, TurnHolds, PTL

\* No finished work is paid for twice: a step that runs although an identical
\* one finished has a dependency that ran in this attempt too.
THEOREM WorkPaidOnce == Spec => []PaidOnce
<1>1. TurnInv => PaidOnce
  <2> SUFFICES ASSUME TurnInv, pc = "running", NEW id \in DOMAIN flying,
                      id \in DOMAIN finished, finished[id].step = StepOf(plan, id)
               PROVE  \E d \in Deps(StepOf(plan, id)) : done[d].by = Attempt
    BY DEF PaidOnce
  <2>1. /\ plan \in Plans /\ Valid(plan) /\ id \in Ids(plan) /\ id \notin DOMAIN done
        /\ Deps(StepOf(plan, id)) \subseteq DOMAIN done
    BY DEF TurnInv, ControlInv, FlyingInv
  <2>2. StepOf(plan, id) \in Steps(plan) /\ StepOf(plan, id).id = id
    BY <2>1, StepOfIn
  <2>3. id \notin ReusedIds
    BY <2>1 DEF TurnInv, DoneInv
  <2>4. ~(Deps(StepOf(plan, id)) \subseteq ReusedIds)
    BY <2>2, <2>3, ReusedFixed DEF Kept, ReusedIds
  <2> QED BY <2>1, <2>4 DEF TurnInv, DoneInv
<1> QED BY <1>1, TurnHolds, PTL

\* A plan that was validated runs to its end: when nothing is in flight the
\* complete steps hold all that Kahn's algorithm counts off from them.
THEOREM PlanNeverStuck == Spec => []NeverStuck
<1>1. TurnInv => NeverStuck
  <2> SUFFICES ASSUME TurnInv, pc = "running", flying = Empty
               PROVE  Ids(plan) = DOMAIN done
    BY DEF NeverStuck
  <2>1. /\ plan \in Plans /\ Valid(plan) /\ Kahn(plan) = Steps(plan)
        /\ DOMAIN done \subseteq Ids(plan)
        /\ \A s \in ReadySteps(plan, DOMAIN done) : s.id \in DOMAIN flying
    BY DEF TurnInv, ControlInv, DoneInv, FlyingInv, Valid
  <2>2. PICK K : K = {s \in Steps(plan) : s.id \in DOMAIN done}
    OBVIOUS
  <2>3. ASSUME NEW s \in Counted(plan, K) PROVE s \in K
    <3>1. s \in Steps(plan) /\ Deps(s) \subseteq {d.id : d \in K}
      BY <2>1, <2>3, CountedHasDeps DEF Counted
    <3>2. Deps(s) \subseteq DOMAIN done
      BY <2>2, <3>1
    <3> QED BY <2>1, <2>2, <3>1, <3>2, EmptyIs DEF ReadySteps
  <2>4. K \in SUBSET Steps(plan)
    BY <2>2
  <2>5. Kahn(plan) \subseteq K
    BY <2>3, <2>4 DEF Kahn
  <2> QED BY <2>1, <2>2, <2>5 DEF Ids
<1> QED BY <1>1, TurnHolds, PTL
=============================================================================
