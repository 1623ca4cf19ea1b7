--------------------------- MODULE AutonomousRunner ---------------------------
(***************************************************************************)
(* The autonomous task runner, autonomous-runner/main.py, over the plans   *)
(* of the autonomy engine: a custom task has a plan made and executed.     *)
(*                                                                         *)
(* Tasks and the handles of their background loops are in memory.  Work is *)
(* done by coroutines: the loops of interval tasks, and requests that      *)
(* execute a task themselves.  A loop that is cancelled raises at its next *)
(* turn, wherever it waits: wait_for of Python 3.12 lets it through, and   *)
(* execute_task does not catch it.                                         *)
(***************************************************************************)
EXTENDS AutonomyPlans

CONSTANTS
    Tasks,
    Trigger,    \* each task's trigger
    Custom,     \* the tasks of type custom
    Loops,      \* coroutines of _task_loop there may be at a time (a bound)
    Requests,   \* requests that execute a task (a bound)
    NoLoop

ASSUME TriggerAssumption == Trigger \in [Tasks -> {"interval", "once", "manual"}]
ASSUME CallersAssumption == Loops \cap Requests = {} /\ NoLoop \notin Loops \cup Requests

VARIABLES
    tasks,   \* the tasks: "none", their status, or "removed" from _tasks
    work,    \* what each loop and each request is at
    handle   \* _background_handles, without those of loops that ended

taskVars == <<tasks, work, handle>>
vars == <<planVars, taskVars>>

Callers == Loops \cup Requests
Free == [pc |-> "free"]
Statuses == {"active", "paused", "completed"}
Listed(t) == tasks[t] \in Statuses

Init ==
    /\ PlansInit
    /\ tasks = [t \in Tasks |-> "none"]
    /\ work = [c \in Callers |-> Free]
    /\ handle = [t \in Tasks |-> NoLoop]

Put(w, c, t, pc, once) ==
    [w EXCEPT ![c] = [pc |-> pc, task |-> t, once |-> once, cancelled |-> FALSE]]

(* A handle that is cancelled, if there is one                             *)
Cancelled(t) ==
    [c \in Callers |-> IF c = handle[t] THEN [work[c] EXCEPT !.cancelled = TRUE] ELSE work[c]]

-----------------------------------------------------------------------------
(* The routes                                                              *)

(* Mistake: the loop that is there already is forgotten.                   *)
StartBesides(t) ==
    \E l \in Loops :
        /\ work[l] = Free
        /\ work' = Put(work, l, t, "waiting", FALSE)
        /\ handle' = [handle EXCEPT ![t] = l]

StartBackground(t) ==
    \E l \in Loops :
        /\ work[l] = Free
        /\ work' = Put(Cancelled(t), l, t, "waiting", FALSE)
        /\ handle' = [handle EXCEPT ![t] = l]

StopBackground(t) ==
    /\ work' = Cancelled(t)
    /\ handle' = [handle EXCEPT ![t] = NoLoop]

ExecuteInRequest(t, once) ==
    /\ \E r \in Requests : work[r] = Free /\ work' = Put(work, r, t, "running", once)
    /\ UNCHANGED handle

(* With auto_start, or without                                             *)
CreateTask(t) ==
    /\ tasks[t] = "none"
    /\ tasks' = [tasks EXCEPT ![t] = "active"]
    /\ \/ Trigger[t] = "interval" /\ StartBackground(t)
       \/ Trigger[t] # "interval" /\ ExecuteInRequest(t, Trigger[t] = "once")
       \/ UNCHANGED <<work, handle>>
    /\ UNCHANGED planVars

(* Whatever the status of the task is                                      *)
RunTask(t) ==
    /\ Listed(t)
    /\ ExecuteInRequest(t, FALSE)
    /\ UNCHANGED <<tasks, planVars>>

Pause(t) ==
    /\ Listed(t)
    /\ tasks' = [tasks EXCEPT ![t] = "paused"]
    /\ StopBackground(t)
    /\ UNCHANGED planVars

Resume(t) ==
    /\ Listed(t)
    /\ tasks' = [tasks EXCEPT ![t] = "active"]
    /\ IF Trigger[t] = "interval" THEN StartBackground(t) ELSE UNCHANGED <<work, handle>>
    /\ UNCHANGED planVars

(* Requests that execute the task go on.                                   *)
CancelTask(t) ==
    /\ Listed(t)
    /\ tasks' = [tasks EXCEPT ![t] = "removed"]
    /\ StopBackground(t)
    /\ UNCHANGED planVars

-----------------------------------------------------------------------------
(* The coroutines                                                          *)

Goto(c, pc) == work' = [work EXCEPT ![c].pc = pc]

End(c) ==
    /\ work' = [work EXCEPT ![c] = Free]
    /\ handle' = [t \in Tasks |-> IF handle[t] = c THEN NoLoop ELSE handle[t]]

(* The loop is scheduled for the first time, or its interval is over.      *)
Turn(l) ==
    /\ work[l].pc = "waiting" /\ ~work[l].cancelled
    /\ IF tasks[work[l].task] = "active" THEN Goto(l, "running") /\ UNCHANGED handle
       ELSE End(l)
    /\ UNCHANGED <<tasks, planVars>>

CancelledError(l) ==
    /\ work[l] # Free /\ work[l].cancelled
    /\ End(l)
    /\ UNCHANGED <<tasks, planVars>>

(* The autonomy engine takes the request; nobody takes it back.            *)
AskForPlan(c) ==
    /\ work[c].pc = "running" /\ ~work[c].cancelled /\ work[c].task \in Custom
    /\ \E p \in Plans : CreatePlan(p, "auto")
    /\ Goto(c, "asked")
    /\ UNCHANGED <<tasks, handle>>

(* Mistake: a loop ends with the first execution that fails.               *)
ExecutedOrDead(c) ==
    /\ work[c].pc \in {"running", "asked"} /\ ~work[c].cancelled
    /\ IF c \in Loops
       THEN \/ Goto(c, "waiting") /\ UNCHANGED <<tasks, handle>>
            \/ End(c) /\ UNCHANGED tasks
       ELSE /\ End(c)
            /\ tasks' = IF work[c].once /\ Listed(work[c].task)
                        THEN [tasks EXCEPT ![work[c].task] = "completed"] ELSE tasks
    /\ UNCHANGED planVars

(* execute_task returns, be it with a result, an error or a timeout: all   *)
(* are recorded and none is raised.  A task that runs once is completed,   *)
(* whatever its status has become.                                         *)
Executed(c) ==
    /\ work[c].pc \in {"running", "asked"} /\ ~work[c].cancelled
    /\ IF c \in Loops THEN Goto(c, "waiting") /\ UNCHANGED <<tasks, handle>>
       ELSE /\ End(c)
            /\ tasks' = IF work[c].once /\ Listed(work[c].task)
                        THEN [tasks EXCEPT ![work[c].task] = "completed"] ELSE tasks
    /\ UNCHANGED planVars

(* The process dies, and all tasks with it.                                *)
RunnerRestarts ==
    /\ \E t \in Tasks : Listed(t)
    /\ tasks' = [t \in Tasks |-> IF Listed(t) THEN "removed" ELSE tasks[t]]
    /\ work' = [c \in Callers |-> Free]
    /\ handle' = [t \in Tasks |-> NoLoop]
    /\ UNCHANGED planVars

Next ==
    \/ \E t \in Tasks : CreateTask(t) \/ RunTask(t) \/ Pause(t) \/ Resume(t) \/ CancelTask(t)
    \/ \E l \in Loops : Turn(l) \/ CancelledError(l)
    \/ \E c \in Callers : AskForPlan(c) \/ Executed(c)
    \/ RunnerRestarts
    \/ PlanNext /\ UNCHANGED taskVars

Spec == Init /\ [][Next]_vars

-----------------------------------------------------------------------------
(* Properties                                                              *)

(* Every variable keeps its type, and a handle is of a loop of its task.   *)
TypeOK ==
    /\ PlanTypeOK
    /\ tasks \in [Tasks -> Statuses \cup {"none", "removed"}]
    /\ handle \in [Tasks -> Loops \cup {NoLoop}]
    /\ \A c \in Callers : work[c] # Free =>
        /\ work[c].pc \in {"waiting", "running", "asked"}
        /\ work[c].task \in Tasks /\ work[c].once \in BOOLEAN /\ work[c].cancelled \in BOOLEAN
    /\ \A t \in Tasks : handle[t] # NoLoop =>
        work[handle[t]] # Free /\ work[handle[t]].task = t

(* However often a task is paused, resumed, cancelled and resumed again    *)
(* while its loop executes it: the loop that was not told to end is the    *)
(* one in the table, so there is one at most, and its task is active.      *)
OneLoopPerTask ==
    \A l \in Loops : work[l] # Free /\ ~work[l].cancelled =>
        handle[work[l].task] = l /\ tasks[work[l].task] = "active"

(* No result, error or timeout of an execution, and no order of pauses and *)
(* resumes, leaves a task active that has lost its loop.                   *)
ActiveKeepsLoop ==
    [][\A t \in Tasks :
        handle[t] # NoLoop /\ handle'[t] = NoLoop => tasks'[t] # "active"]_vars
=============================================================================
