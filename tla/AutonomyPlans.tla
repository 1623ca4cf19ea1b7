----------------------------- MODULE AutonomyPlans -----------------------------
(***************************************************************************)
(* The plans of the autonomy engine, autonomy-engine/main.py: a goal that  *)
(* a model decomposes into steps, and the executions that work through     *)
(* them.  Everything is kept in memory, and every handler and execution is *)
(* a coroutine: what it does between two awaits is one step here.          *)
(*                                                                         *)
(* Dependencies do not appear.  The loop over step.depends_on marks a step *)
(* "skipped" when a dependency has failed, but its `continue` is that      *)
(* inner loop's: execute_step follows before anybody can look.             *)
(***************************************************************************)
EXTENDS Naturals

CONSTANTS
    Plans,
    NumSteps,    \* settings.max_plan_steps
    MaxRetries,  \* settings.max_retries
    Executions   \* coroutines of execute_plan there may be at a time (a bound)

ASSUME PlanBoundsAssumption == NumSteps \in Nat /\ MaxRetries \in Nat

VARIABLES
    plans,      \* the plans, those removed from _plans included
    executions  \* how far each execution is

planVars == <<plans, executions>>

Steps == 1..NumSteps
NoPlan == [listed |-> FALSE, status |-> "none", retries |-> 0,
           steps |-> [i \in {} |-> "pending"], request |-> "none"]
NoExecution == [pc |-> "none"]

PlansInit ==
    /\ plans = [p \in Plans |-> NoPlan]
    /\ executions = [e \in Executions |-> NoExecution]

New(p) == plans[p].status = "none"
Live(e) == executions[e] # NoExecution
On(e, p) == Live(e) /\ executions[e].plan = p

SetPlanStatus(p, status) == plans' = [plans EXCEPT ![p].status = status]

-----------------------------------------------------------------------------
(* The routes                                                              *)

(* The plan is listed before it has steps.  Its request is "plan", or      *)
(* "auto" when it shall be executed at once, and is open meanwhile.        *)
CreatePlan(p, request) ==
    /\ New(p)
    /\ plans' = [plans EXCEPT ![p] =
                    [NoPlan EXCEPT !.listed = TRUE, !.status = "planning", !.request = request]]
    /\ UNCHANGED executions

Spawn(e, p, chosen) ==
    /\ ~Live(e)
    /\ executions' = [executions EXCEPT ![e] =
                        [pc |-> "spawned", plan |-> p, chosen |-> chosen]]

(* The model has answered.  Whatever happened to the plan meanwhile, its   *)
(* status is set anew.                                                     *)
Generated(p) ==
    /\ plans[p].request # "none"
    /\ \E n \in Steps :
        plans' = [plans EXCEPT ![p].steps = [i \in 1..n |-> "pending"],
                               ![p].status = "pending", ![p].request = "none"]
    /\ IF plans[p].request = "auto" THEN \E e \in Executions : Spawn(e, p, Steps)
       ELSE UNCHANGED executions

NotGenerated(p) ==
    /\ plans[p].request # "none"
    /\ plans' = [plans EXCEPT ![p].status = "failed", ![p].request = "none"]
    /\ UNCHANGED executions

(* Nobody asks whether the plan is being executed already.                 *)
TriggerExecution(p, e) ==
    /\ plans[p].listed
    /\ \E chosen \in SUBSET Steps \ {{}} : Spawn(e, p, chosen)
    /\ UNCHANGED plans

PausePlan(p) ==
    /\ plans[p].listed
    /\ SetPlanStatus(p, "paused")
    /\ UNCHANGED executions

(* Its executions go on.                                                   *)
DeletePlan(p) ==
    /\ plans[p].listed
    /\ plans' = [plans EXCEPT ![p].listed = FALSE]
    /\ UNCHANGED executions

-----------------------------------------------------------------------------
(* execute_plan                                                            *)

(* The execution goes on with the first of its steps from here on that is  *)
(* not completed, or reflects when none is left.  The list of steps is     *)
(* taken when it begins.                                                   *)
GoOn(e, plan, from, todo) ==
    LET p == executions[e].plan
        left == {i \in todo : i >= from /\ plan.steps[i] # "completed"}
    IN IF left = {}
       THEN /\ plans' = [plans EXCEPT ![p] = [plan EXCEPT !.status = "reflecting"]]
            /\ executions' = [executions EXCEPT ![e] = [pc |-> "reflecting", plan |-> p]]
       ELSE LET i == CHOOSE j \in left : \A k \in left : j <= k
            IN /\ plans' = [plans EXCEPT ![p] = [plan EXCEPT !.steps[i] = "executing"]]
               /\ executions' = [executions EXCEPT ![e] =
                    [pc |-> "executing", plan |-> p, step |-> i, todo |-> todo]]

BeginExecution(e) ==
    /\ executions[e].pc = "spawned"
    /\ LET p == executions[e].plan
       IN IF plans[p].listed
          THEN GoOn(e, [plans[p] EXCEPT !.status = "executing"], 1,
                    executions[e].chosen \cap DOMAIN plans[p].steps)
          ELSE executions' = [executions EXCEPT ![e] = NoExecution] /\ UNCHANGED plans

StepCompletes(e) ==
    /\ executions[e].pc = "executing"
    /\ LET x == executions[e]
       IN GoOn(e, [plans[x.plan] EXCEPT !.steps[x.step] = "completed"], x.step + 1, x.todo)

(* Mistake: one retry more than there are.                                 *)
StepFailsOnceMore(e) ==
    /\ executions[e].pc = "executing"
    /\ LET x == executions[e]
           plan == plans[x.plan]
           outcome == IF plan.retries <= MaxRetries
                      THEN [plan EXCEPT !.steps[x.step] = "pending", !.retries = @ + 1]
                      ELSE [plan EXCEPT !.steps[x.step] = "failed"]
       IN GoOn(e, outcome, x.step + 1, x.todo)

(* "Allow retry": the step is pending again, and this execution goes on to *)
(* the next one.                                                           *)
StepFails(e) ==
    /\ executions[e].pc = "executing"
    /\ LET x == executions[e]
           plan == plans[x.plan]
           outcome == IF plan.retries < MaxRetries
                      THEN [plan EXCEPT !.steps[x.step] = "pending", !.retries = @ + 1]
                      ELSE [plan EXCEPT !.steps[x.step] = "failed"]
       IN GoOn(e, outcome, x.step + 1, x.todo)

(* Mistake: a reflection that fails ends the execution.                    *)
ReflectOrDie(e) ==
    /\ executions[e].pc = "reflecting"
    /\ executions' = [executions EXCEPT ![e] = NoExecution]
    /\ \/ SetPlanStatus(executions[e].plan, "completed")
       \/ UNCHANGED plans

(* With or without a reflection: failed when every step is, completed      *)
(* otherwise, whatever is still pending or executed by somebody else.      *)
Reflect(e) ==
    /\ executions[e].pc = "reflecting"
    /\ executions' = [executions EXCEPT ![e] = NoExecution]
    /\ LET p == executions[e].plan
           steps == plans[p].steps
           allFailed == DOMAIN steps # {} /\ \A i \in DOMAIN steps : steps[i] = "failed"
       IN SetPlanStatus(p, IF allFailed THEN "failed" ELSE "completed")

Executing(e) == BeginExecution(e) \/ StepCompletes(e) \/ StepFails(e) \/ Reflect(e)

-----------------------------------------------------------------------------
(* The process dies, and all plans with it.                                *)
EngineRestarts ==
    /\ \E p \in Plans : plans[p].listed
    /\ plans' = [p \in Plans |-> [plans[p] EXCEPT !.listed = FALSE,
                                                    !.request = "none"]]
    /\ executions' = [e \in Executions |-> NoExecution]

PlanNext ==
    \/ \E p \in Plans :
        \/ \E request \in {"plan", "auto"} : CreatePlan(p, request)
        \/ Generated(p) \/ NotGenerated(p)
        \/ PausePlan(p) \/ DeletePlan(p)
        \/ \E e \in Executions : TriggerExecution(p, e)
    \/ \E e \in Executions : Executing(e)
    \/ EngineRestarts

-----------------------------------------------------------------------------
(* Properties                                                              *)

PlanTypeOK ==
    /\ \A p \in Plans :
        /\ DOMAIN plans[p] = DOMAIN NoPlan
        /\ plans[p].request \in {"none", "plan", "auto"}
        /\ plans[p].listed \in BOOLEAN /\ plans[p].retries \in 0..MaxRetries
        /\ plans[p].status \in {"none", "planning", "pending", "executing",
                                "reflecting", "completed", "failed", "paused"}
        /\ plans[p].steps \in
             UNION {[S -> {"pending", "executing", "completed", "failed"}] : S \in {1..n : n \in 0..NumSteps}}
    /\ \A e \in Executions : Live(e) =>
        /\ executions[e].plan \in Plans
        /\ executions[e].pc \in {"spawned", "executing", "reflecting"}
        /\ executions[e].pc = "executing" =>
            executions[e].step \in DOMAIN plans[executions[e].plan].steps

(* Pauses, deletions, late plans and executions side by side: a listed     *)
(* plan never says that it is executed, or that one of its steps is, when  *)
(* no execution is there to say otherwise later.                           *)
ExecutingIsExecuted ==
    \A p \in Plans : plans[p].listed =>
        /\ plans[p].status \in {"executing", "reflecting"} => \E e \in Executions : On(e, p)
        /\ \A i \in DOMAIN plans[p].steps : plans[p].steps[i] = "executing" =>
            \E e \in Executions :
                On(e, p) /\ executions[e].pc = "executing" /\ executions[e].step = i
=============================================================================
