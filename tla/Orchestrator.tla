---------------------------- MODULE Orchestrator ----------------------------
(***************************************************************************)
(* One turn of the orchestrator (application/orchestrator/): the planner's *)
(* answer, the plan's validation (domain/plan.rs), the DAG executor with   *)
(* its parallel steps and their retries, and the replan loop that hands    *)
(* the outputs of finished steps to the next attempt.                      *)
(*                                                                         *)
(* An output is what a step's run returned: told apart by the attempt that *)
(* ran it, with the outputs it read.  A task that is aborted is gone at    *)
(* once.                                                                   *)
(***************************************************************************)
EXTENDS Integers, FiniteSets, Sequences, SequencesExt, Functions

CONSTANTS Plans,        \* the plans a planner may answer with
          Routable,     \* works whose agent is a known one
          MaxAttempts,  \* [orchestrator] max_attempts_per_step
          MaxReplans,   \* [orchestrator] max_replans
          None

\* A step: `work' stands for agent, goal and compose.
StepRec == [id: STRING, work: STRING, deps: Seq(STRING)]

ASSUME OrchestratorAssumption ==
    /\ Plans \subseteq Seq(StepRec)
    /\ MaxAttempts \in Nat \ {0}
    /\ MaxReplans \in Nat
    /\ None \notin Plans

VARIABLES
    pc,       \* where Orchestrator::handle stands
    plan,     \* the attempt's plan
    replans,  \* replans_left
    finished, \* Finished: per step id, the step and its output
    done,     \* completed_outputs
    flying,   \* the step tasks of this attempt
    result    \* what PlanCompleted said

vars == <<pc, plan, replans, finished, done, flying, result>>

\* Attempts are numbered from 0.
Attempt == MaxReplans - replans

-----------------------------------------------------------------------------
(* Plans (domain/plan.rs).                                                 *)

Steps(p) == ToSet(p)
Ids(p) == {s.id : s \in Steps(p)}
Deps(s) == ToSet(s.deps)
StepOf(p, id) == CHOOSE s \in Steps(p) : s.id = id

\* A step goes once every entry of depends_on is counted off; a removed step
\* counts off one entry of each step that names it.
Counted(p, removed) ==
    {s \in Steps(p) : Cardinality(Deps(s) \cap {d.id : d \in removed}) = Len(s.deps)}

\* Kahn's algorithm, until no step goes: the least set that holds what is
\* counted off from it.
Kahn(p) ==
    {s \in Steps(p) : \A K \in SUBSET Steps(p) : Counted(p, K) \subseteq K => s \in K}

\* Mutant: no cycle detection.
ValidTopo(p) ==
    /\ p # <<>>
    /\ Cardinality(Ids(p)) = Len(p)
    /\ \A s \in Steps(p) : s.work \in Routable /\ Deps(s) \subseteq Ids(p)

\* Plan::validate.
Valid(p) ==
    /\ p # <<>>
    /\ Cardinality(Ids(p)) = Len(p)
    /\ \A s \in Steps(p) : s.work \in Routable
    /\ \A s \in Steps(p) : Deps(s) \subseteq Ids(p)
    /\ Kahn(p) = Steps(p)

\* Plan::ready_steps.
ReadySteps(p, completed) ==
    {s \in Steps(p) : s.id \notin completed /\ Deps(s) \subseteq completed}

-----------------------------------------------------------------------------
(* DagExecutor.                                                            *)

\* Mutant: one pass, over what was complete before it.
ReusedOnePass(p) ==
    {s \in Steps(p) : /\ s.id \in DOMAIN finished /\ finished[s.id].step = s
                      /\ s.deps = <<>>}

\* Mutant: identical to a finished step, whatever it read.
ReusedByStep(p) == {s \in Steps(p) : s.id \in DOMAIN finished /\ finished[s.id].step = s}

\* Identical to a finished step, and its dependencies are kept: a pass over
\* the plan.
Kept(p, kept) ==
    {s \in Steps(p) : /\ s.id \in DOMAIN finished /\ finished[s.id].step = s
                      /\ Deps(s) \subseteq {d.id : d \in kept}}

\* The passes until nothing is added: the least set that holds what a pass
\* over it keeps.
Reused(p) ==
    {s \in Steps(p) : \A K \in SUBSET Steps(p) : Kept(p, K) \subseteq K => s \in K}

ReusedOutputs(p) ==
    [id \in {s.id : s \in Reused(p)} |-> finished[id].out]

\* The task of a step: its first try, and the inputs it was rendered.
Task(s, outputs) ==
    [try |-> 1, at |-> "running", inputs |-> [d \in Deps(s) |-> outputs[d].by]]

\* The tasks once every ready step that is not in flight is spawned.
Dispatched(p, outputs, tasks) ==
    LET new == {s \in ReadySteps(p, DOMAIN outputs) : s.id \notin DOMAIN tasks} IN
    [id \in DOMAIN tasks \cup {s.id : s \in new} |->
        IF id \in DOMAIN tasks THEN tasks[id] ELSE Task(StepOf(p, id), outputs)]

Output(id) == [by |-> Attempt, inputs |-> flying[id].inputs]

Empty == <<>>

\* The turn ends: PlanCompleted.
Complete(r) ==
    /\ pc' = "ended"
    /\ result' = r
    /\ flying' = Empty

\* finished.extend(done): this attempt's outputs over the earlier ones.
Extended ==
    [id \in DOMAIN finished \cup DOMAIN done |->
        IF id \in DOMAIN done THEN [step |-> StepOf(plan, id), out |-> done[id]]
        ELSE finished[id]]

\* Mutant: the replans are not counted.
NeedsReplanUncounted(kept) ==
    /\ finished' = kept
    /\ done' = Empty
    /\ pc' = "replan"
    /\ flying' = Empty
    /\ UNCHANGED <<plan, replans, result>>

\* NeedsReplan: the steps in flight are aborted; the planner is asked again
\* while replans are left.
NeedsReplan(kept) ==
    /\ finished' = kept
    /\ done' = Empty
    /\ \/ /\ replans = 0
          /\ Complete("failed")
          /\ UNCHANGED replans
       \/ /\ replans > 0
          /\ replans' = replans - 1
          /\ pc' = "replan"
          /\ flying' = Empty
          /\ UNCHANGED result
    /\ UNCHANGED plan

-----------------------------------------------------------------------------

Init ==
    /\ pc = "plan"
    /\ plan = None
    /\ replans = MaxReplans
    /\ finished = Empty /\ done = Empty /\ flying = Empty
    /\ result = None

\* Planner::plan or replan answers with a plan.
PlannerPlans ==
    /\ pc \in {"plan", "replan"}
    /\ plan' \in Plans
    /\ pc' = "created"
    /\ UNCHANGED <<replans, finished, done, flying, result>>

\* It answers itself, or fails.
PlannerEnds ==
    /\ pc \in {"plan", "replan"}
    /\ \E r \in {"answered", "failed"} : Complete(r)
    /\ UNCHANGED <<plan, replans, finished, done>>

\* drive: a plan that cannot run goes back to the planner.
Refuse ==
    /\ pc = "created"
    /\ ~Valid(plan)
    /\ NeedsReplan(finished)

\* run_reusing: keep what can be kept, spawn what is ready.
Run ==
    /\ pc = "created"
    /\ Valid(plan)
    /\ pc' = "running"
    /\ done' = ReusedOutputs(plan)
    /\ flying' = Dispatched(plan, ReusedOutputs(plan), Empty)
    /\ UNCHANGED <<plan, replans, finished, result>>

\* The executor takes an output and spawns what it made ready.
TakeOutput(id) ==
    /\ pc = "running"
    /\ id \in DOMAIN flying
    /\ flying[id].at = "ok"
    /\ done' = [i \in DOMAIN done \cup {id} |-> IF i = id THEN Output(id) ELSE done[i]]
    /\ flying' = Dispatched(plan, done', Restrict(flying, DOMAIN flying \ {id}))
    /\ UNCHANGED <<pc, plan, replans, finished, result>>

\* It takes an exhausted step or a panic.
TakeFailure(id) ==
    /\ pc = "running"
    /\ id \in DOMAIN flying
    /\ flying[id].at \in {"exhausted", "panicked"}
    /\ NeedsReplan(Extended)

\* Nothing in flight: the reply, or a step that never became ready.
Finish ==
    /\ pc = "running"
    /\ flying = Empty
    /\ IF Ids(plan) = DOMAIN done
       THEN Complete("done") /\ UNCHANGED <<plan, replans, finished, done>>
       ELSE NeedsReplan(Extended)

\* run_step_with_retry: a try of the step ends.
TryOk(id) ==
    /\ id \in DOMAIN flying
    /\ flying[id].at = "running"
    /\ flying' = [flying EXCEPT ![id].at = "ok"]
    /\ UNCHANGED <<pc, plan, replans, finished, done, result>>

\* Mutant: no limit on the tries.
RetriesAlways(id, retryable) == retryable

\* retry_in: a try is left and the class is one the backoff retries.
Retries(id, retryable) == retryable /\ flying[id].try < MaxAttempts

TryFails(id, retryable) ==
    /\ id \in DOMAIN flying
    /\ flying[id].at = "running"
    /\ flying' = IF Retries(id, retryable) THEN [flying EXCEPT ![id].try = @ + 1]
                 ELSE [flying EXCEPT ![id].at = "exhausted"]
    /\ UNCHANGED <<pc, plan, replans, finished, done, result>>

TaskPanics(id) ==
    /\ id \in DOMAIN flying
    /\ flying[id].at = "running"
    /\ flying' = [flying EXCEPT ![id].at = "panicked"]
    /\ UNCHANGED <<pc, plan, replans, finished, done, result>>

\* The turn's future is dropped at an await.
Cancel ==
    /\ pc \in {"plan", "replan"} \/ flying # Empty
    /\ Complete("cancelled")
    /\ UNCHANGED <<plan, replans, finished, done>>

-----------------------------------------------------------------------------

StepIds == UNION {Ids(p) : p \in Plans}

TryEnds(id) ==
    TryOk(id) \/ TaskPanics(id) \/ \E retryable \in BOOLEAN : TryFails(id, retryable)

Driver ==
    \/ PlannerPlans \/ PlannerEnds \/ Refuse \/ Run \/ Finish
    \/ \E id \in StepIds : TakeOutput(id) \/ TakeFailure(id)

Next == Driver \/ Cancel \/ \E id \in StepIds : TryEnds(id)

Spec == Init /\ [][Next]_vars

\* The planner and the workers answer (run timeouts kill a child that hangs),
\* and the runtime polls the turn.
Fairness == WF_vars(Driver) /\ \A id \in StepIds : WF_vars(TryEnds(id))

FairSpec == Spec /\ Fairness

-----------------------------------------------------------------------------
(* Properties.                                                             *)

Outputs(steps) == [by: 0..MaxReplans, inputs: UNION {[Deps(s) -> 0..MaxReplans] : s \in steps}]

\* Every output belongs to a step of its plan and names the inputs that step
\* depends on; a task has tries left (Finished, completed_outputs, InFlight).
TypeOK ==
    /\ pc \in {"plan", "created", "running", "replan", "ended"}
    /\ plan \in Plans \cup {None}
    /\ replans \in 0..MaxReplans
    /\ \A id \in DOMAIN finished :
          finished[id].step.id = id /\ finished[id].out \in Outputs({finished[id].step})
    /\ pc = "running" =>
          /\ \A id \in DOMAIN done : done[id] \in Outputs({StepOf(plan, id)})
          /\ DOMAIN flying \subseteq Ids(plan) \ DOMAIN done
    /\ \A id \in DOMAIN flying :
          /\ flying[id].try \in 1..MaxAttempts
          /\ flying[id].at \in {"running", "ok", "exhausted", "panicked"}
    /\ result \in {None, "answered", "done", "failed", "cancelled"}

\* The output of a step was made from the outputs its dependencies have in
\* the attempt.
Fresh(id) ==
    \A d \in DOMAIN done[id].inputs :
        d \in DOMAIN done /\ done[id].inputs[d] = done[d].by

\* A step that ran in an attempt read the outputs its dependencies have in
\* it, and so, up to the first replan, did every output that was reused
\* (run_reusing, render_step_inputs, the abort of an attempt's tasks).
RanFresh ==
    pc = "running" => \A id \in DOMAIN done :
        Attempt <= 1 \/ done[id].by = Attempt => Fresh(id)

\* No finished work is paid for twice: a step that runs although an identical
\* one finished has a dependency that ran in this attempt too (same_step,
\* the reuse loop, finished.extend).
PaidOnce ==
    pc = "running" => \A id \in DOMAIN flying :
        id \in DOMAIN finished /\ finished[id].step = StepOf(plan, id) =>
            \E d \in Deps(StepOf(plan, id)) : done[d].by = Attempt

\* A plan that was validated runs to its end: no step is left that never
\* becomes ready (the backstop at the end of run_reusing).
NeverStuck == pc = "running" /\ flying = Empty => Ids(plan) = DOMAIN done

\* Every turn ends with its PlanCompleted, however steps and planner fail.
TurnEnds == <>(pc = "ended" /\ result # None)

-----------------------------------------------------------------------------
(* What the comments and docs say and the code does not do.                *)

\* executor.rs:55: a step "whose dependencies are all reused too, keeps that
\* output": an output that was made from an older one is not kept.
ReuseFresh == pc = "running" => \A id \in DOMAIN done : Fresh(id)
=============================================================================
