--------------------------- MODULE WorkflowEngine ---------------------------
(***************************************************************************)
(* The workflow engine, workflow-engine/main.py: HTTP handlers that start, *)
(* stop and delete workflows, a thread for each start, the status in       *)
(* PostgreSQL, and the in-memory dictionary _running_workflows by which    *)
(* handlers and threads find out about each other.                         *)
(*                                                                         *)
(* The handlers are coroutines without an await, so the event loop runs    *)
(* one at a time; threads interleave with them and with each other at      *)
(* every statement, dictionary access and step.                            *)
(***************************************************************************)
EXTENDS Naturals

CONSTANTS
    Workflows,
    Threads,     \* threads that may live at the same time (a bound)
    Steps,       \* steps of a workflow
    MaxFaults,   \* statements and steps that raise (a bound)
    MaxRestarts  \* deaths of the process (a bound)

ASSUME StepsAssumption == Steps \in Nat \ {0}
ASSUME BoundsAssumption == MaxFaults \in Nat /\ MaxRestarts \in Nat

VARIABLES
    status,   \* the row's status column, "none" before and "deleted" after the row
    flag,     \* _running_workflows: "absent", "go" (True) or "halt" (False)
    thread,
    handler,  \* the request the event loop is serving
    late,     \* steps each thread executed of a deleted workflow (history)
    faults, restarts

vars == <<status, flag, thread, handler, late, faults, restarts>>

Exists(w) == status[w] \notin {"none", "deleted"}
Free == [pc |-> "free"]
Idle == [op |-> "idle"]
Live(th, w) == thread[th].pc # "free" /\ thread[th].wf = w
At(th, pc) == thread[th].pc = pc
Goto(th, pc) == thread' = [thread EXCEPT ![th].pc = pc]

(* UPDATE ... SET status WHERE id: no row, no effect.                      *)
SetStatus(w, s) == status' = IF Exists(w) THEN [status EXCEPT ![w] = s] ELSE status

(* Mistake: logs without a foreign key.                                    *)
LogTakesAny(w) == FALSE

(* An entry of a row that is gone violates the log's foreign key.          *)
LogRefused(w) == status[w] = "deleted"

Init ==
    /\ status = [w \in Workflows |-> "none"]
    /\ flag = [w \in Workflows |-> "absent"]
    /\ thread = [th \in Threads |-> Free]
    /\ handler = Idle
    /\ late = [th \in Threads |-> 0]
    /\ faults = 0 /\ restarts = 0

-----------------------------------------------------------------------------
(* Handlers                                                                *)

Begin(op, w) == handler' = [op |-> op, wf |-> w]
Serving(op, w) == handler = [op |-> op, wf |-> w]

Create(w) ==
    /\ handler = Idle
    /\ status[w] = "none"
    /\ status' = [status EXCEPT ![w] = "draft"]
    /\ UNCHANGED <<flag, thread, handler, late, faults, restarts>>

(* 404 without the row, 409 while it says running.                         *)
StartGuard(w) ==
    /\ handler = Idle
    /\ Exists(w) /\ status[w] # "running"
    /\ \E th \in Threads : At(th, "free")
    /\ Begin("start", w)
    /\ UNCHANGED <<status, flag, thread, late, faults, restarts>>

Start(w) ==
    /\ Serving("start", w)
    /\ handler' = Idle
    /\ SetStatus(w, "running")
    /\ \E th \in Threads :
        /\ At(th, "free")
        /\ thread' = [thread EXCEPT ![th] = [pc |-> "raise_flag", wf |-> w, idx |-> 0]]
    /\ UNCHANGED <<flag, late, faults, restarts>>

(* Neither stop nor delete asks for the row first.  Between the look at    *)
(* the dictionary and the write a thread may leave it.                     *)
StopGuard(w) ==
    /\ handler = Idle
    /\ status[w] # "none"
    /\ Begin(IF flag[w] = "absent" THEN "stop_row" ELSE "stop_flag", w)
    /\ UNCHANGED <<status, flag, thread, late, faults, restarts>>

StopFlag(w) ==
    /\ Serving("stop_flag", w)
    /\ handler' = Idle
    /\ flag' = [flag EXCEPT ![w] = "halt"]
    /\ UNCHANGED <<status, thread, late, faults, restarts>>

StopRow(w) ==
    /\ Serving("stop_row", w)
    /\ handler' = Idle
    /\ status' = IF status[w] = "running" THEN [status EXCEPT ![w] = "stopped"] ELSE status
    /\ UNCHANGED <<flag, thread, late, faults, restarts>>

DeleteGuard(w) ==
    /\ handler = Idle
    /\ status[w] # "none" /\ flag[w] = "absent"
    /\ Begin("delete", w)
    /\ UNCHANGED <<status, flag, thread, late, faults, restarts>>

Delete(w) ==
    /\ Serving("delete", w)
    /\ handler' = Idle
    /\ status' = [status EXCEPT ![w] = "deleted"]
    /\ UNCHANGED <<flag, thread, late, faults, restarts>>

(* The handler's statement fails, or finds the pool exhausted: 500.        *)
HandlerFault ==
    /\ handler.op \in {"start", "stop_row", "delete"}
    /\ faults < MaxFaults
    /\ faults' = faults + 1
    /\ handler' = Idle
    /\ UNCHANGED <<status, flag, thread, late, restarts>>

-----------------------------------------------------------------------------
(* _run_workflow                                                           *)

RaiseFlag(th) ==
    /\ At(th, "raise_flag")
    /\ flag' = [flag EXCEPT ![thread[th].wf] = "go"]
    /\ Goto(th, "load")
    /\ UNCHANGED <<status, handler, late, faults, restarts>>

Load(th) ==
    /\ At(th, "load")
    /\ Goto(th, IF Exists(thread[th].wf) THEN "log_start" ELSE "drop_flag")
    /\ UNCHANGED <<status, flag, handler, late, faults, restarts>>

(* A statement that writes a log entry and where the thread goes after it. *)
AfterLog == [log_start |-> "check", log_step |-> "execute", log_ok |-> "advance",
             log_error |-> "fail", log_stop |-> "drop_flag",
             log_done |-> "drop_flag", log_crash |-> "drop_flag"]

(* A refused entry raises: into the except branch, or out of it.           *)
AddLog(th) ==
    /\ thread[th].pc \in DOMAIN AfterLog
    /\ Goto(th, IF LogRefused(thread[th].wf) /\ ~At(th, "log_crash") THEN "crash"
                ELSE AfterLog[thread[th].pc])
    /\ UNCHANGED <<status, flag, handler, late, faults, restarts>>

(* Mistake: one step too many.                                             *)
CheckOneMore(th) ==
    /\ At(th, "check")
    /\ Goto(th, IF thread[th].idx > Steps THEN "complete"
                ELSE IF flag[thread[th].wf] = "go" THEN "mark" ELSE "stop")
    /\ UNCHANGED <<status, flag, handler, late, faults, restarts>>

Check(th) ==
    /\ At(th, "check")
    /\ Goto(th, IF thread[th].idx = Steps THEN "complete"
                ELSE IF flag[thread[th].wf] = "go" THEN "mark" ELSE "stop")
    /\ UNCHANGED <<status, flag, handler, late, faults, restarts>>

(* A status the thread writes: where, what, and where it goes after it.    *)
Write(th, pc, s, next) ==
    /\ At(th, pc)
    /\ SetStatus(thread[th].wf, s)
    /\ Goto(th, next)
    /\ UNCHANGED <<flag, handler, late, faults, restarts>>

MarkStep(th) == Write(th, "mark", "running", "log_step")
Stop(th) == Write(th, "stop", "stopped", "log_stop")

(* Mistake: a failed step is logged and the status stays.                  *)
FailQuietly(th) == Write(th, "fail", status[thread[th].wf], "drop_flag")

Fail(th) == Write(th, "fail", "failed", "drop_flag")
Complete(th) == Write(th, "complete", "completed", "log_done")

(* Mistake: an exception is logged and the status stays.                   *)
CrashQuietly(th) == Write(th, "crash", status[thread[th].wf], "log_crash")

RecordCrash(th) == Write(th, "crash", "failed", "log_crash")

(* A delete may commit after the step was logged and before it begins.     *)
CountLate(th) ==
    late' = IF At(th, "execute") /\ ~Exists(thread[th].wf)
            THEN [late EXCEPT ![th] = @ + 1] ELSE late

(* _execute_step succeeds or returns an error.                             *)
Execute(th) ==
    /\ At(th, "execute")
    /\ \E next \in {"log_ok", "log_error"} : Goto(th, next)
    /\ CountLate(th)
    /\ UNCHANGED <<status, flag, handler, faults, restarts>>

Advance(th) ==
    /\ At(th, "advance")
    /\ thread' = [thread EXCEPT ![th].pc = "check", ![th].idx = @ + 1]
    /\ UNCHANGED <<status, flag, handler, late, faults, restarts>>

(* A statement or a step raises: the except branch, whose own statements   *)
(* may raise too and are then forgotten.                                   *)
ThreadFault(th) ==
    /\ thread[th].pc \in DOMAIN AfterLog
                         \cup {"load", "mark", "execute", "stop", "fail", "complete", "crash"}
    /\ faults < MaxFaults
    /\ faults' = faults + 1
    /\ Goto(th, IF thread[th].pc \in {"crash", "log_crash"} THEN "drop_flag" ELSE "crash")
    /\ CountLate(th)
    /\ UNCHANGED <<status, flag, handler, restarts>>

DropFlag(th) ==
    /\ At(th, "drop_flag")
    /\ flag' = [flag EXCEPT ![thread[th].wf] = "absent"]
    /\ thread' = [thread EXCEPT ![th] = Free]
    /\ late' = [late EXCEPT ![th] = 0]
    /\ UNCHANGED <<status, handler, faults, restarts>>

(* The process dies with its daemon threads; startup resets no row.        *)
Restart ==
    /\ restarts < MaxRestarts
    /\ restarts' = restarts + 1
    /\ flag' = [w \in Workflows |-> "absent"]
    /\ thread' = [th \in Threads |-> Free]
    /\ handler' = Idle
    /\ late' = [th \in Threads |-> 0]
    /\ UNCHANGED <<status, faults>>

-----------------------------------------------------------------------------

HandlerStep(w) == Start(w) \/ StopFlag(w) \/ StopRow(w) \/ Delete(w)

ThreadStep(th) ==
    \/ RaiseFlag(th) \/ Load(th) \/ AddLog(th) \/ Check(th) \/ MarkStep(th)
    \/ Execute(th) \/ Advance(th) \/ Stop(th) \/ Fail(th) \/ Complete(th)
    \/ RecordCrash(th) \/ DropFlag(th)

Next ==
    \/ \E w \in Workflows :
        Create(w) \/ StartGuard(w) \/ StopGuard(w) \/ DeleteGuard(w) \/ HandlerStep(w)
    \/ \E th \in Threads : ThreadStep(th) \/ ThreadFault(th)
    \/ HandlerFault \/ Restart

Spec == Init /\ [][Next]_vars

(* The event loop finishes a request it began, and a thread keeps running: *)
(* every call it waits for has a timeout.                                  *)
FairSpec ==
    /\ Spec
    /\ \A w \in Workflows : WF_vars(HandlerStep(w))
    /\ \A th \in Threads : WF_vars(ThreadStep(th))

-----------------------------------------------------------------------------
(* Properties                                                              *)

Places == DOMAIN AfterLog
          \cup {"raise_flag", "load", "check", "mark", "execute", "advance", "stop",
                "fail", "complete", "crash", "drop_flag"}
Statuses == {"none", "draft", "running", "stopped", "failed", "completed", "deleted"}

TypeOK ==
    /\ status \in [Workflows -> Statuses]
    /\ flag \in [Workflows -> {"absent", "go", "halt"}]
    /\ thread \in [Threads -> [pc: Places, wf: Workflows, idx: 0..Steps] \cup {Free}]
    /\ handler \in [op: {"start", "stop_flag", "stop_row", "delete"}, wf: Workflows]
                   \cup {Idle}
    /\ late \in [Threads -> Nat]
    /\ faults \in 0..MaxFaults /\ restarts \in 0..MaxRestarts

(* The thread has not written the status it ends with.                     *)
Working(th, w) ==
    /\ Live(th, w)
    /\ thread[th].pc \notin {"log_stop", "log_done", "log_crash", "drop_flag"}

(* However starts, stops and a failing statement meet, a workflow that is  *)
(* shown as running has a thread that will still say how it ended, so the  *)
(* 409 of a start is not for good.  A restart, or the failure of the       *)
(* except branch itself, is what it does not survive.                      *)
RunningHasThread ==
    restarts = 0 /\ faults <= 1 =>
        \A w \in Workflows : status[w] = "running" => \E th \in Threads : Working(th, w)

(* A delete may find a thread of its workflow under way: one that has not  *)
(* raised its flag yet, or has lost it to another thread that ended.  Such *)
(* a thread executes no more than the step whose entry it had written      *)
(* before the row was gone, however many steps are left.                   *)
DeletedEndsWithStep == \A th \in Threads : late[th] <= 1

(* "Workflow already running": the check keeps a workflow to one thread.   *)
OneThreadAtATime ==
    \A w \in Workflows, a, b \in Threads : Working(a, w) /\ Working(b, w) => a = b

(* A workflow does not stay running, unless its process died: every start  *)
(* comes to a status that lets it be started again.                        *)
RunsEnd ==
    \A w \in Workflows :
        status[w] = "running" ~> status[w] # "running" \/ restarts > 0
=============================================================================
