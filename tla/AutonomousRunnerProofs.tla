------------------------ MODULE AutonomousRunnerProofs ------------------------
(***************************************************************************)
(* What is proved of AutonomousRunner, for any number of tasks, loops,     *)
(* requests, plans, steps and executions: its types, that the handles name *)
(* the loops that go on, that no active task loses its loop, and that what *)
(* a plan says is executed is.                                             *)
(***************************************************************************)
EXTENDS AutonomousRunner, WellFoundedInduction, TLAPS

-----------------------------------------------------------------------------
(* Tasks, loops and requests                                               *)

Jobs == [pc : {"waiting", "running", "asked"}, task : Tasks, once : BOOLEAN, cancelled : BOOLEAN]

TasksOK ==
    /\ tasks \in [Tasks -> Statuses \cup {"none", "removed"}]
    /\ handle \in [Tasks -> Loops \cup {NoLoop}]
    /\ work \in [Callers -> {Free} \cup Jobs]

(* A handle is of a loop of its task that was not told to end; only tasks  *)
(* of their trigger have loops, or are completed.                          *)
LoopsOK ==
    /\ \A t \in Tasks : handle[t] # NoLoop =>
        work[handle[t]] # Free /\ work[handle[t]].task = t /\ ~work[handle[t]].cancelled
    /\ \A l \in Loops : work[l] # Free => Trigger[work[l].task] = "interval"
    /\ \A c \in Callers : work[c] # Free /\ work[c].once => Trigger[work[c].task] = "once"
    /\ \A r \in Requests : work[r] # Free => ~work[r].cancelled
    /\ OneLoopPerTask

TaskInv == TasksOK /\ LoopsOK

LEMMA FreeIsNoJob == \A w \in Jobs : w # Free
BY DEF Jobs, Free

(* A handle is cancelled, and goes from the table.                         *)
LEMMA CancelKeeps ==
    ASSUME TaskInv, NEW t \in Tasks
    PROVE  /\ Cancelled(t) \in [Callers -> {Free} \cup Jobs]
           /\ \A c \in Callers :
                /\ Cancelled(t)[c] = Free <=> work[c] = Free
                /\ work[c] # Free =>
                    /\ Cancelled(t)[c].task = work[c].task /\ Cancelled(t)[c].once = work[c].once
                    /\ Cancelled(t)[c].cancelled = (work[c].cancelled \/ c = handle[t])
<1>. SUFFICES ASSUME NEW c \in Callers
     PROVE  /\ Cancelled(t)[c] \in {Free} \cup Jobs
            /\ Cancelled(t)[c] = Free <=> work[c] = Free
            /\ work[c] # Free =>
                /\ Cancelled(t)[c].task = work[c].task /\ Cancelled(t)[c].once = work[c].once
                /\ Cancelled(t)[c].cancelled = (work[c].cancelled \/ c = handle[t])
     BY DEF Cancelled
<1>1. CASE c = handle[t]
  <2>1. c # NoLoop
        BY CallersAssumption DEF Callers
  <2>2. work[c] \in Jobs
        BY <1>1, <2>1 DEF TaskInv, TasksOK, LoopsOK
  <2>3. Cancelled(t)[c] = [work[c] EXCEPT !.cancelled = TRUE]
        BY <1>1 DEF Cancelled
  <2>. QED  BY <1>1, <2>2, <2>3, FreeIsNoJob DEF Jobs
<1>2. CASE c # handle[t]
  <2>1. Cancelled(t)[c] = work[c]
        BY <1>2 DEF Cancelled
  <2>. QED  BY <1>2, <2>1, FreeIsNoJob DEF TaskInv, TasksOK, Jobs
<1>. QED  BY <1>1, <1>2

LEMMA StartKeeps ==
    ASSUME TaskInv, NEW t \in Tasks, StartBackground(t), Trigger[t] = "interval",
           tasks' = [tasks EXCEPT ![t] = "active"]
    PROVE  TaskInv' /\ handle'[t] # NoLoop /\ \A u \in Tasks \ {t} : handle'[u] = handle[u]
<1>1. PICK l \in Loops : /\ work[l] = Free
                         /\ work' = Put(Cancelled(t), l, t, "waiting", FALSE)
                         /\ handle' = [handle EXCEPT ![t] = l]
      BY DEF StartBackground
<1>2. l \in Callers /\ l # NoLoop
      BY CallersAssumption DEF Callers
<1>3. work'[l] = [pc |-> "waiting", task |-> t, once |-> FALSE, cancelled |-> FALSE]
      /\ \A c \in Callers \ {l} : work'[c] = Cancelled(t)[c]
      BY <1>1, <1>2, CancelKeeps DEF Put
<1>4. work'[l] \in Jobs
      BY <1>3 DEF Jobs
<1>5. work' \in [Callers -> {Free} \cup Jobs]
      BY <1>1, <1>2, <1>4, <1>3, CancelKeeps DEF Put
<1>6. TasksOK'
      BY <1>1, <1>5 DEF TaskInv, TasksOK, Statuses
<1>7. handle'[t] = l /\ \A u \in Tasks \ {t} : handle'[u] = handle[u]
      BY <1>1 DEF TaskInv, TasksOK
<1>8. \A u \in Tasks \ {t} : handle[u] # NoLoop => handle[u] # l /\ handle[u] # handle[t]
      BY <1>1 DEF TaskInv, LoopsOK
<1>9. \A c \in Callers \ {l} :
        /\ work'[c] = Free <=> work[c] = Free
        /\ work[c] # Free => /\ work'[c].task = work[c].task /\ work'[c].once = work[c].once
                             /\ work'[c].cancelled = (work[c].cancelled \/ c = handle[t])
      BY <1>3, CancelKeeps
<1>10. LoopsOK'
  <2>1. \A u \in Tasks : handle'[u] # NoLoop =>
           work'[handle'[u]] # Free /\ work'[handle'[u]].task = u /\ ~work'[handle'[u]].cancelled
    <3>. SUFFICES ASSUME NEW u \in Tasks, handle'[u] # NoLoop
         PROVE  work'[handle'[u]] # Free /\ work'[handle'[u]].task = u
                /\ ~work'[handle'[u]].cancelled
         OBVIOUS
    <3>1. CASE u = t
          BY <1>3, <1>4, <1>7, <3>1, FreeIsNoJob
    <3>2. CASE u # t
      <4>1. /\ handle'[u] = handle[u] /\ handle[u] # l /\ handle[u] # handle[t]
            /\ handle[u] \in Callers
            BY <1>7, <1>8, <3>2 DEF TaskInv, TasksOK, Callers
      <4>2. work[handle[u]] # Free /\ work[handle[u]].task = u /\ ~work[handle[u]].cancelled
            BY <4>1 DEF TaskInv, LoopsOK
      <4>. QED  BY <1>9, <4>1, <4>2
    <3>. QED  BY <3>1, <3>2
  <2>2. \A k \in Loops : work'[k] # Free => Trigger[work'[k].task] = "interval"
        BY <1>3, <1>9 DEF TaskInv, LoopsOK, Callers
  <2>3. \A c \in Callers : work'[c] # Free /\ work'[c].once => Trigger[work'[c].task] = "once"
        BY <1>3, <1>9 DEF TaskInv, LoopsOK
  <2>4. \A r \in Requests : work'[r] # Free => ~work'[r].cancelled
    <3>. SUFFICES ASSUME NEW r \in Requests, work'[r] # Free PROVE ~work'[r].cancelled
         OBVIOUS
    <3>1. r \in Callers /\ r # l /\ r # handle[t]
          BY CallersAssumption DEF Callers, TaskInv, TasksOK
    <3>. QED  BY <1>9, <3>1 DEF TaskInv, LoopsOK
  <2>5. OneLoopPerTask'
    <3>. SUFFICES ASSUME NEW k \in Loops, work'[k] # Free, ~work'[k].cancelled
         PROVE  handle'[work'[k].task] = k /\ tasks'[work'[k].task] = "active"
         BY DEF OneLoopPerTask
    <3>1. CASE k = l
          BY <1>3, <1>7, <3>1 DEF TaskInv, TasksOK
    <3>2. CASE k # l
      <4>1. k \in Callers
            BY DEF Callers
      <4>2. work[k] # Free /\ ~work[k].cancelled /\ k # handle[t] /\ work'[k].task = work[k].task
            BY <1>9, <3>2, <4>1
      <4>3. work[k].task \in Tasks
            BY <4>1, <4>2 DEF TaskInv, TasksOK, Jobs
      <4>4. handle[work[k].task] = k /\ tasks[work[k].task] = "active"
            BY <4>2 DEF TaskInv, LoopsOK, OneLoopPerTask
      <4>. QED  BY <1>7, <4>2, <4>3, <4>4 DEF TaskInv, TasksOK
    <3>. QED  BY <3>1, <3>2
  <2>. QED  BY <2>1, <2>2, <2>3, <2>4, <2>5 DEF LoopsOK
<1>. QED  BY <1>2, <1>6, <1>7, <1>10 DEF TaskInv

LEMMA StopKeeps ==
    ASSUME TaskInv, NEW t \in Tasks, StopBackground(t),
           NEW status \in {"paused", "removed"}, tasks' = [tasks EXCEPT ![t] = status]
    PROVE  TaskInv'
<1>1. TasksOK'
      BY CancelKeeps DEF StopBackground, TaskInv, TasksOK, Statuses
<1>2. handle'[t] = NoLoop /\ \A u \in Tasks \ {t} : handle'[u] = handle[u] /\ tasks'[u] = tasks[u]
      BY DEF StopBackground, TaskInv, TasksOK
<1>3. \A c \in Callers :
        /\ work'[c] = Free <=> work[c] = Free
        /\ work[c] # Free => /\ work'[c].task = work[c].task /\ work'[c].once = work[c].once
                             /\ work'[c].cancelled = (work[c].cancelled \/ c = handle[t])
      BY CancelKeeps DEF StopBackground
<1>4. \A u \in Tasks \ {t} : handle[u] # NoLoop => handle[u] # handle[t] /\ handle[u] \in Callers
      BY DEF TaskInv, TasksOK, LoopsOK, Callers
<1>5. \A u \in Tasks : handle'[u] # NoLoop =>
         work'[handle'[u]] # Free /\ work'[handle'[u]].task = u /\ ~work'[handle'[u]].cancelled
  <2>. SUFFICES ASSUME NEW u \in Tasks, handle'[u] # NoLoop
       PROVE  work'[handle'[u]] # Free /\ work'[handle'[u]].task = u
              /\ ~work'[handle'[u]].cancelled
       OBVIOUS
  <2>1. /\ handle'[u] = handle[u] /\ handle[u] # handle[t] /\ handle[u] \in Callers
        BY <1>2, <1>4
  <2>2. work[handle[u]] # Free /\ work[handle[u]].task = u /\ ~work[handle[u]].cancelled
        BY <2>1 DEF TaskInv, LoopsOK
  <2>. QED  BY <1>3, <2>1, <2>2
<1>6. /\ \A k \in Loops : work'[k] # Free => Trigger[work'[k].task] = "interval"
      /\ \A c \in Callers : work'[c] # Free /\ work'[c].once => Trigger[work'[c].task] = "once"
      BY <1>3 DEF TaskInv, LoopsOK, Callers
<1>7. \A r \in Requests : work'[r] # Free => ~work'[r].cancelled
  <2>. SUFFICES ASSUME NEW r \in Requests, work'[r] # Free PROVE ~work'[r].cancelled
       OBVIOUS
  <2>1. r \in Callers /\ r # handle[t]
        BY CallersAssumption DEF Callers, TaskInv, TasksOK
  <2>. QED  BY <1>3, <2>1 DEF TaskInv, LoopsOK
<1>8. OneLoopPerTask'
  <2>. SUFFICES ASSUME NEW k \in Loops, work'[k] # Free, ~work'[k].cancelled
       PROVE  handle'[work'[k].task] = k /\ tasks'[work'[k].task] = "active"
       BY DEF OneLoopPerTask
  <2>1. k \in Callers
        BY DEF Callers
  <2>2. work[k] # Free /\ ~work[k].cancelled /\ k # handle[t] /\ work'[k].task = work[k].task
        BY <1>3, <2>1
  <2>3. work[k].task \in Tasks
        BY <2>1, <2>2 DEF TaskInv, TasksOK, Jobs
  <2>4. handle[work[k].task] = k /\ tasks[work[k].task] = "active"
        BY <2>2 DEF TaskInv, LoopsOK, OneLoopPerTask
  <2>. QED  BY <1>2, <2>2, <2>3, <2>4
<1>. QED  BY <1>1, <1>5, <1>6, <1>7, <1>8 DEF TaskInv, LoopsOK

LEMMA RequestKeeps ==
    ASSUME TaskInv, NEW t \in Tasks, NEW once \in BOOLEAN, ExecuteInRequest(t, once),
           once => Trigger[t] = "once",
           \/ tasks' = tasks
           \/ tasks[t] = "none" /\ tasks' = [tasks EXCEPT ![t] = "active"]
    PROVE  TaskInv'
<1>1. PICK r \in Requests : work[r] = Free /\ work' = Put(work, r, t, "running", once)
      BY DEF ExecuteInRequest
<1>2. r \in Callers /\ r \notin Loops
      BY CallersAssumption DEF Callers
<1>3. /\ work'[r] = [pc |-> "running", task |-> t, once |-> once, cancelled |-> FALSE]
      /\ \A c \in Callers \ {r} : work'[c] = work[c]
      BY <1>1, <1>2 DEF Put, TaskInv, TasksOK
<1>4. work'[r] \in Jobs
      BY <1>3 DEF Jobs
<1>5. TasksOK'
      BY <1>1, <1>2, <1>3, <1>4 DEF Put, TaskInv, TasksOK, ExecuteInRequest, Statuses
<1>6. \A u \in Tasks : handle'[u] = handle[u] /\ (handle[u] # NoLoop => handle[u] # r)
      BY <1>2 DEF ExecuteInRequest, TaskInv, TasksOK
<1>7. \A u \in Tasks : handle'[u] # NoLoop =>
         work'[handle'[u]] # Free /\ work'[handle'[u]].task = u /\ ~work'[handle'[u]].cancelled
      BY <1>3, <1>6 DEF TaskInv, TasksOK, LoopsOK, Callers
<1>8. /\ \A l \in Loops : work'[l] # Free => Trigger[work'[l].task] = "interval"
      /\ \A c \in Callers : work'[c] # Free /\ work'[c].once => Trigger[work'[c].task] = "once"
      /\ \A q \in Requests : work'[q] # Free => ~work'[q].cancelled
      BY <1>2, <1>3 DEF TaskInv, LoopsOK, Callers
<1>9. OneLoopPerTask'
  <2>. SUFFICES ASSUME NEW l \in Loops, work'[l] # Free, ~work'[l].cancelled
       PROVE  handle'[work'[l].task] = l /\ tasks'[work'[l].task] = "active"
       BY DEF OneLoopPerTask
  <2>1. l \in Callers /\ work'[l] = work[l]
        BY <1>2, <1>3 DEF Callers
  <2>2. work[l].task \in Tasks
        BY <2>1 DEF TaskInv, TasksOK, Jobs
  <2>3. handle[work[l].task] = l /\ tasks[work[l].task] = "active"
        BY <2>1 DEF TaskInv, LoopsOK, OneLoopPerTask
  <2>. QED  BY <1>6, <2>1, <2>2, <2>3 DEF TaskInv, TasksOK
<1>. QED  BY <1>5, <1>7, <1>8, <1>9 DEF TaskInv, LoopsOK

(* A coroutine ends, or moves on without becoming another one.             *)
LEMMA EndKeeps ==
    ASSUME TaskInv, NEW c \in Callers, work[c] # Free, End(c),
           \/ tasks' = tasks
           \/ /\ c \in Requests /\ work[c].once
              /\ tasks' = [tasks EXCEPT ![work[c].task] = "completed"]
    PROVE  TaskInv'
<1>1. work'[c] = Free /\ \A d \in Callers \ {c} : work'[d] = work[d]
      BY DEF End, TaskInv, TasksOK
<1>2. work[c].task \in Tasks
      BY DEF TaskInv, TasksOK, Jobs
<1>3. TasksOK'
      BY <1>2 DEF End, TaskInv, TasksOK, Statuses
<1>4. \A t \in Tasks : /\ handle'[t] = IF handle[t] = c THEN NoLoop ELSE handle[t]
                       /\ handle[t] # NoLoop => handle[t] \in Callers
      BY DEF End, TaskInv, TasksOK, Callers
<1>5. \A t \in Tasks : handle'[t] # NoLoop =>
         work'[handle'[t]] # Free /\ work'[handle'[t]].task = t /\ ~work'[handle'[t]].cancelled
      BY <1>1, <1>4 DEF TaskInv, LoopsOK
<1>6. /\ \A l \in Loops : work'[l] # Free => Trigger[work'[l].task] = "interval"
      /\ \A d \in Callers : work'[d] # Free /\ work'[d].once => Trigger[work'[d].task] = "once"
      /\ \A r \in Requests : work'[r] # Free => ~work'[r].cancelled
      BY <1>1 DEF TaskInv, LoopsOK, Callers
<1>7. OneLoopPerTask'
  <2>. SUFFICES ASSUME NEW l \in Loops, work'[l] # Free, ~work'[l].cancelled
       PROVE  handle'[work'[l].task] = l /\ tasks'[work'[l].task] = "active"
       BY DEF OneLoopPerTask
  <2>1. l \in Callers /\ l # c /\ work'[l] = work[l]
        BY <1>1 DEF Callers
  <2>2. work[l].task \in Tasks
        BY <2>1 DEF TaskInv, TasksOK, Jobs
  <2>3. handle[work[l].task] = l /\ tasks[work[l].task] = "active"
        BY <2>1 DEF TaskInv, LoopsOK, OneLoopPerTask
  <2>4. c \in Requests /\ work[c].once => Trigger[work[c].task] # Trigger[work[l].task]
        BY <2>1 DEF TaskInv, LoopsOK
  <2>. QED  BY <1>2, <1>4, <2>1, <2>2, <2>3, <2>4 DEF TaskInv, TasksOK
<1>. QED  BY <1>3, <1>5, <1>6, <1>7 DEF TaskInv, LoopsOK

LEMMA GotoKeeps ==
    ASSUME TaskInv, NEW c \in Callers, work[c] # Free, NEW pc \in {"waiting", "running", "asked"},
           Goto(c, pc), UNCHANGED <<tasks, handle>>
    PROVE  TaskInv'
<1>1. /\ work'[c] = [work[c] EXCEPT !.pc = pc] /\ work[c] \in Jobs
      /\ \A d \in Callers \ {c} : work'[d] = work[d]
      BY DEF Goto, TaskInv, TasksOK
<1>2. work'[c] \in Jobs /\ \A d \in Callers :
        /\ work'[d] = Free <=> work[d] = Free
        /\ work[d] # Free => /\ work'[d].task = work[d].task /\ work'[d].once = work[d].once
                             /\ work'[d].cancelled = work[d].cancelled
      BY <1>1, FreeIsNoJob DEF Jobs
<1>3. TasksOK'
      BY <1>1, <1>2 DEF Goto, TaskInv, TasksOK
<1>4. \A t \in Tasks : handle'[t] # NoLoop =>
         work'[handle'[t]] # Free /\ work'[handle'[t]].task = t /\ ~work'[handle'[t]].cancelled
  <2>1. \A t \in Tasks : handle[t] # NoLoop => handle[t] \in Callers
        BY DEF TaskInv, TasksOK, Callers
  <2>. QED  BY <1>2, <2>1 DEF TaskInv, LoopsOK
<1>5. /\ \A l \in Loops : work'[l] # Free => Trigger[work'[l].task] = "interval"
      /\ \A d \in Callers : work'[d] # Free /\ work'[d].once => Trigger[work'[d].task] = "once"
      /\ \A r \in Requests : work'[r] # Free => ~work'[r].cancelled
      /\ OneLoopPerTask'
      BY <1>2 DEF TaskInv, LoopsOK, OneLoopPerTask, Callers
<1>. QED  BY <1>3, <1>4, <1>5 DEF TaskInv, LoopsOK

LEMMA TaskStep ==
    ASSUME TaskInv, Next
    PROVE  TaskInv'
<1>1. ASSUME NEW t \in Tasks, CreateTask(t)
      PROVE  TaskInv'
  <2>1. CASE Trigger[t] = "interval" /\ StartBackground(t)
        BY <1>1, <2>1, StartKeeps DEF CreateTask
  <2>2. CASE Trigger[t] # "interval" /\ ExecuteInRequest(t, Trigger[t] = "once")
        BY <1>1, <2>2, RequestKeeps DEF CreateTask
  <2>3. CASE UNCHANGED <<work, handle>>
    <3>1. TasksOK'
          BY <1>1, <2>3 DEF CreateTask, TaskInv, TasksOK, Statuses
    <3>2. \A l \in Loops : work[l] # Free => work[l].task \in Tasks
          BY DEF TaskInv, TasksOK, Jobs, Callers
    <3>. QED  BY <1>1, <2>3, <3>1, <3>2 DEF CreateTask, TaskInv, TasksOK, LoopsOK, OneLoopPerTask
  <2>. QED  BY <1>1, <2>1, <2>2, <2>3 DEF CreateTask
<1>2. ASSUME NEW t \in Tasks, RunTask(t)
      PROVE  TaskInv'
      BY <1>2, RequestKeeps DEF RunTask
<1>3. ASSUME NEW t \in Tasks, Pause(t) \/ CancelTask(t)
      PROVE  TaskInv'
      BY <1>3, StopKeeps DEF Pause, CancelTask
<1>4. ASSUME NEW t \in Tasks, Resume(t)
      PROVE  TaskInv'
  <2>1. CASE Trigger[t] = "interval"
        BY <1>4, <2>1, StartKeeps DEF Resume
  <2>2. CASE Trigger[t] # "interval"
    <3>1. TasksOK' /\ UNCHANGED <<work, handle>>
          BY <1>4, <2>2 DEF Resume, TaskInv, TasksOK, Statuses
    <3>2. \A l \in Loops : work[l] # Free => work[l].task \in Tasks \ {t}
          BY <2>2 DEF TaskInv, TasksOK, LoopsOK, Jobs, Callers
    <3>. QED  BY <1>4, <3>1, <3>2 DEF Resume, TaskInv, TasksOK, LoopsOK, OneLoopPerTask
  <2>. QED  BY <2>1, <2>2
<1>5. ASSUME NEW l \in Loops, Turn(l) \/ CancelledError(l)
      PROVE  TaskInv'
  <2>1. l \in Callers /\ work[l] # Free
        BY <1>5 DEF Turn, CancelledError, Free, Callers
  <2>. QED  BY <1>5, <2>1, EndKeeps, GotoKeeps DEF Turn, CancelledError
<1>6. ASSUME NEW c \in Callers, AskForPlan(c) \/ Executed(c)
      PROVE  TaskInv'
  <2>1. work[c] # Free
        BY <1>6 DEF AskForPlan, Executed, Free
  <2>2. CASE AskForPlan(c)
        BY <2>1, <2>2, GotoKeeps DEF AskForPlan
  <2>3. CASE Executed(c) /\ c \in Loops
        BY <2>1, <2>3, GotoKeeps DEF Executed
  <2>4. CASE Executed(c) /\ c \notin Loops
        BY <2>1, <2>4, EndKeeps DEF Executed, Callers
  <2>. QED  BY <1>6, <2>2, <2>3, <2>4
<1>7. CASE RunnerRestarts
      BY <1>7 DEF RunnerRestarts, TaskInv, TasksOK, LoopsOK, OneLoopPerTask, Statuses, Callers
<1>8. CASE UNCHANGED taskVars
      BY <1>8 DEF taskVars, TaskInv, TasksOK, LoopsOK, OneLoopPerTask
<1>. QED  BY <1>1, <1>2, <1>3, <1>4, <1>5, <1>6, <1>7, <1>8 DEF Next

(* No step leaves an active task without the loop it had.                  *)
LEMMA LoopKept ==
    ASSUME TaskInv, Next, NEW t \in Tasks, handle[t] # NoLoop, handle'[t] = NoLoop
    PROVE  tasks'[t] # "active"
<1>1. /\ handle[t] \in Loops /\ work[handle[t]] # Free
      /\ work[handle[t]].task = t /\ ~work[handle[t]].cancelled /\ tasks[t] = "active"
      BY DEF TaskInv, TasksOK, LoopsOK, OneLoopPerTask
<1>2. ASSUME NEW u \in Tasks, CreateTask(u) \/ RunTask(u) \/ Resume(u)
      PROVE  FALSE
  <2>1. handle' = handle \/ StartBackground(u)
        BY <1>2 DEF CreateTask, RunTask, Resume, ExecuteInRequest
  <2>2. \A l \in Loops : l # NoLoop
        BY CallersAssumption
  <2>. QED  BY <2>1, <2>2 DEF StartBackground, TaskInv, TasksOK
<1>3. ASSUME NEW u \in Tasks, Pause(u) \/ CancelTask(u)
      PROVE  tasks'[t] # "active"
      BY <1>3 DEF Pause, CancelTask, StopBackground, TaskInv, TasksOK
<1>4. ASSUME NEW l \in Loops, Turn(l) \/ CancelledError(l)
      PROVE  FALSE
      BY <1>1, <1>4 DEF Turn, CancelledError, End, TaskInv, TasksOK
<1>5. ASSUME NEW c \in Callers, AskForPlan(c) \/ Executed(c)
      PROVE  FALSE
  <2>1. handle' = handle \/ (c \notin Loops /\ End(c))
        BY <1>5 DEF AskForPlan, Executed
  <2>. QED  BY <1>1, <2>1 DEF End
<1>6. CASE RunnerRestarts
      BY <1>1, <1>6 DEF RunnerRestarts, Listed, Statuses, TaskInv, TasksOK
<1>7. CASE UNCHANGED taskVars
      BY <1>7 DEF taskVars
<1>. QED  BY <1>2, <1>3, <1>4, <1>5, <1>6, <1>7 DEF Next

-----------------------------------------------------------------------------
(* Plans and executions                                                    *)

StepStatuses == {"pending", "executing", "completed", "failed"}
StepLists == UNION {[S -> StepStatuses] : S \in {1..n : n \in 0..NumSteps}}
PlanStatuses == {"none", "planning", "pending", "executing", "reflecting", "completed", "failed",
                 "paused"}
PlanRecords == [listed : BOOLEAN, status : PlanStatuses, retries : 0..MaxRetries,
                steps : StepLists, request : {"none", "plan", "auto"}]
ExecutionRecords ==
    {NoExecution}
    \cup [pc : {"spawned"}, plan : Plans, chosen : SUBSET Steps]
    \cup [pc : {"executing"}, plan : Plans, step : Nat, todo : SUBSET Nat]
    \cup [pc : {"reflecting"}, plan : Plans]

RecordsOK ==
    plans \in [Plans -> PlanRecords] /\ executions \in [Executions -> ExecutionRecords]

(* A plan that waits for its steps has none, so no execution of it is at   *)
(* one; an execution at a step has only steps of its plan to go.           *)
LinksOK ==
    /\ \A p \in Plans : /\ New(p) => plans[p] = NoPlan
                        /\ plans[p].request # "none" => DOMAIN plans[p].steps = {}
    /\ \A e \in Executions : Live(e) =>
        /\ ~New(executions[e].plan)
        /\ executions[e].pc = "executing" =>
            /\ executions[e].step \in DOMAIN plans[executions[e].plan].steps
            /\ executions[e].todo \subseteq DOMAIN plans[executions[e].plan].steps

PlanInv == RecordsOK /\ LinksOK /\ ExecutingIsExecuted

LEMMA StepList ==
    ASSUME NEW f
    PROVE  f \in StepLists <=> \E n \in 0..NumSteps : f \in [1..n -> StepStatuses]
BY DEF StepLists

LEMMA SetStep ==
    ASSUME NEW f \in StepLists, NEW i \in DOMAIN f, NEW s \in StepStatuses
    PROVE  [f EXCEPT ![i] = s] \in StepLists
<1>1. PICK n \in 0..NumSteps : f \in [1..n -> StepStatuses]
      BY StepList
<1>2. [f EXCEPT ![i] = s] \in [1..n -> StepStatuses]
      BY <1>1
<1>. QED  BY <1>2, StepList

LEMMA NoPlanIsRecord ==
    /\ NoPlan \in PlanRecords /\ DOMAIN NoPlan.steps = {}
    /\ NoPlan.status = "none" /\ NoPlan.request = "none" /\ NoPlan.listed = FALSE
<1>1. [i \in {} |-> "pending"] \in [1..0 -> StepStatuses]
      OBVIOUS
<1>2. 0 \in 0..NumSteps
      BY PlanBoundsAssumption
<1>3. [i \in {} |-> "pending"] \in StepLists
      BY <1>1, <1>2, StepList
<1>. QED  BY <1>3, PlanBoundsAssumption DEF NoPlan, PlanRecords, PlanStatuses

LEMMA LiveMeansPc ==
    ASSUME RecordsOK, NEW e \in Executions
    PROVE  /\ Live(e) <=> executions[e].pc # "none"
           /\ Live(e) => /\ executions[e].plan \in Plans
                         /\ executions[e].pc \in {"spawned", "executing", "reflecting"}
           /\ executions[e].pc = "spawned" => executions[e].chosen \subseteq Steps
           /\ executions[e].pc = "executing" =>
                executions[e].step \in Nat /\ executions[e].todo \subseteq Nat
BY DEF RecordsOK, ExecutionRecords, NoExecution, Live

-----------------------------------------------------------------------------
(* execute_plan                                                            *)

LEMMA LeastStep ==
    ASSUME NEW S \in SUBSET Nat, S # {}
    PROVE  (CHOOSE j \in S : \A k \in S : j <= k) \in S
<1>1. \E j \in S : \A k \in S : ~(<<k, j>> \in OpToRel(<, Nat))
      BY NatLessThanWellFounded, WFMin
<1>2. PICK j \in S : \A k \in S : ~(<<k, j>> \in OpToRel(<, Nat))
      BY <1>1
<1>3. \A k \in S : j <= k
  <2>. SUFFICES ASSUME NEW k \in S, ~(j <= k) PROVE FALSE
       OBVIOUS
  <2>1. k < j /\ <<k, j>> \in Nat \X Nat
        OBVIOUS
  <2>. QED  BY <1>2, <2>1 DEF OpToRel
<1>. QED  BY <1>3

(* GoOn takes one of the steps left, or reflects.                          *)
Reflects(e, plan) ==
    /\ plans' = [plans EXCEPT ![executions[e].plan] = [plan EXCEPT !.status = "reflecting"]]
    /\ executions' = [executions EXCEPT ![e] =
                        [pc |-> "reflecting", plan |-> executions[e].plan]]
Takes(e, plan, i, todo) ==
    /\ plans' = [plans EXCEPT ![executions[e].plan] = [plan EXCEPT !.steps[i] = "executing"]]
    /\ executions' = [executions EXCEPT ![e] =
          [pc |-> "executing", plan |-> executions[e].plan, step |-> i, todo |-> todo]]

LEMMA GoOnIs ==
    ASSUME NEW e \in Executions, NEW plan, NEW from \in Nat, NEW todo \in SUBSET Nat,
           GoOn(e, plan, from, todo)
    PROVE  Reflects(e, plan) \/ \E i \in todo : Takes(e, plan, i, todo)
<1>. DEFINE left == {i \in todo : i >= from /\ plan.steps[i] # "completed"}
<1>1. CASE left = {}
      BY <1>1 DEF GoOn, Reflects
<1>2. CASE left # {}
  <2>. DEFINE i == CHOOSE j \in left : \A k \in left : j <= k
  <2>1. i \in left
        BY <1>2, LeastStep
  <2>2. Takes(e, plan, i, todo)
        BY <1>2 DEF GoOn, Takes
  <2>3. i \in todo
        BY <2>1
  <2>. HIDE DEF i
  <2>. QED  BY <2>2, <2>3
<1>. QED  BY <1>1, <1>2

(* An execution leaves the step it was at, if it was at one, and goes on.  *)
LEMMA GoOnKeeps ==
    ASSUME PlanInv, NEW e \in Executions, Live(e),
           NEW plan \in PlanRecords, NEW from \in Nat, NEW todo,
           DOMAIN plan.steps = DOMAIN plans[executions[e].plan].steps,
           todo \subseteq DOMAIN plan.steps,
           plan.listed = plans[executions[e].plan].listed,
           plan.request = plans[executions[e].plan].request,
           plan.status # "none",
           \A i \in DOMAIN plan.steps : plan.steps[i] = "executing" =>
                /\ plans[executions[e].plan].steps[i] = "executing"
                /\ ~(executions[e].pc = "executing" /\ executions[e].step = i),
           GoOn(e, plan, from, todo)
    PROVE  PlanInv'
<1>. DEFINE p == executions[e].plan
<1>1. p \in Plans
      BY LiveMeansPc DEF PlanInv
<1>2. todo \in SUBSET Nat
  <2>1. PICK n \in 0..NumSteps : plan.steps \in [1..n -> StepStatuses]
        BY StepList DEF PlanRecords
  <2>. QED  BY <2>1
<1>3. Reflects(e, plan) \/ \E i \in todo : Takes(e, plan, i, todo)
      BY <1>2, GoOnIs
<1>. HIDE DEF p
<1>4. PICK now, x :
        /\ plans' = [plans EXCEPT ![p] = now] /\ executions' = [executions EXCEPT ![e] = x]
        /\ now \in PlanRecords /\ x \in ExecutionRecords /\ x # NoExecution /\ x.plan = p
        /\ DOMAIN now.steps = DOMAIN plan.steps
        /\ now.listed = plan.listed /\ now.request = plan.request /\ now.status # "none"
        /\ x.pc = "executing" => x.step \in todo /\ x.todo = todo
        /\ \A j \in DOMAIN now.steps : now.steps[j] = "executing" =>
              plan.steps[j] = "executing" \/ (x.pc = "executing" /\ x.step = j)
  <2>1. CASE Reflects(e, plan)
    <3>. DEFINE now == [plan EXCEPT !.status = "reflecting"]
                x == [pc |-> "reflecting", plan |-> p]
    <3>1. now \in PlanRecords /\ now.steps = plan.steps /\ now.listed = plan.listed
          /\ now.request = plan.request /\ now.status # "none"
          BY DEF PlanRecords, PlanStatuses
    <3>2. x \in ExecutionRecords /\ x # NoExecution /\ x.plan = p /\ x.pc # "executing"
          BY <1>1 DEF ExecutionRecords, NoExecution
    <3>3. plans' = [plans EXCEPT ![p] = now] /\ executions' = [executions EXCEPT ![e] = x]
          BY <2>1 DEF Reflects, p
    <3>. HIDE DEF now, x
    <3>. QED  BY <3>1, <3>2, <3>3
  <2>2. ASSUME NEW i \in todo, Takes(e, plan, i, todo)
        PROVE  \E now, x :
        /\ plans' = [plans EXCEPT ![p] = now] /\ executions' = [executions EXCEPT ![e] = x]
        /\ now \in PlanRecords /\ x \in ExecutionRecords /\ x # NoExecution /\ x.plan = p
        /\ DOMAIN now.steps = DOMAIN plan.steps
        /\ now.listed = plan.listed /\ now.request = plan.request /\ now.status # "none"
        /\ x.pc = "executing" => x.step \in todo /\ x.todo = todo
        /\ \A j \in DOMAIN now.steps : now.steps[j] = "executing" =>
              plan.steps[j] = "executing" \/ (x.pc = "executing" /\ x.step = j)
    <3>. DEFINE steps == [plan.steps EXCEPT ![i] = "executing"]
                now == [plan EXCEPT !.steps = steps]
                x == [pc |-> "executing", plan |-> p, step |-> i, todo |-> todo]
    <3>1. steps \in StepLists
          BY SetStep DEF PlanRecords, StepStatuses
    <3>2. DOMAIN steps = DOMAIN plan.steps
          /\ \A j \in DOMAIN steps : steps[j] = "executing" => plan.steps[j] = "executing" \/ j = i
          OBVIOUS
    <3>. HIDE DEF steps
    <3>3. now \in PlanRecords /\ now.steps = steps /\ now.listed = plan.listed
          /\ now.request = plan.request /\ now.status = plan.status
          BY <3>1 DEF PlanRecords
    <3>4. x \in ExecutionRecords /\ x # NoExecution /\ x.plan = p /\ x.pc = "executing"
          /\ x.step = i /\ x.todo = todo
          BY <1>1, <1>2 DEF ExecutionRecords, NoExecution
    <3>5. plans' = [plans EXCEPT ![p] = now] /\ executions' = [executions EXCEPT ![e] = x]
          BY <2>2 DEF Takes, steps, p
    <3>. HIDE DEF now, x
    <3>. QED  BY <3>2, <3>3, <3>4, <3>5
  <2>. QED  BY <1>3, <2>1, <2>2
<1>5. RecordsOK'
      BY <1>4 DEF PlanInv, RecordsOK
<1>6. /\ plans'[p] = now /\ executions'[e] = x
      /\ \A q \in Plans \ {p} : plans'[q] = plans[q]
      /\ \A d \in Executions \ {e} : executions'[d] = executions[d]
      /\ \A d \in Executions : Live(d) => executions[d].plan \in Plans
      BY <1>1, <1>4, LiveMeansPc DEF PlanInv, RecordsOK
<1>7. DOMAIN now.steps = DOMAIN plans[p].steps /\ now.request = plans[p].request
      /\ now.listed = plans[p].listed
      BY <1>4 DEF p
<1>8. LinksOK'
  <2>1. \A q \in Plans : /\ New(q)' => plans'[q] = NoPlan
                         /\ plans'[q].request # "none" => DOMAIN plans'[q].steps = {}
        BY <1>4, <1>6, <1>7, <1>1 DEF New, PlanInv, LinksOK
  <2>2. ASSUME NEW d \in Executions, Live(d)'
        PROVE  /\ ~New(executions[d].plan)'
               /\ executions'[d].pc = "executing" =>
                    /\ executions'[d].step \in DOMAIN plans'[executions'[d].plan].steps
                    /\ executions'[d].todo \subseteq DOMAIN plans'[executions'[d].plan].steps
    <3>1. CASE d = e
          BY <1>4, <1>6, <1>7, <3>1 DEF New
    <3>2. CASE d # e
      <4>1. executions'[d] = executions[d] /\ Live(d)
            BY <1>6, <2>2, <3>2 DEF Live
      <4>2. /\ plans[executions[d].plan].status # "none"
            /\ executions[d].pc = "executing" =>
                    /\ executions[d].step \in DOMAIN plans[executions[d].plan].steps
                    /\ executions[d].todo \subseteq DOMAIN plans[executions[d].plan].steps
            BY <4>1 DEF PlanInv, LinksOK, New
      <4>. QED  BY <1>4, <1>6, <1>7, <4>1, <4>2 DEF New
    <3>. QED  BY <3>1, <3>2
  <2>. QED  BY <2>1, <2>2 DEF LinksOK
<1>9. ExecutingIsExecuted'
  <2>. SUFFICES ASSUME NEW q \in Plans, plans'[q].listed
       PROVE  /\ plans'[q].status \in {"executing", "reflecting"} => \E d \in Executions : On(d, q)'
              /\ \A i \in DOMAIN plans'[q].steps : plans'[q].steps[i] = "executing" =>
                    \E d \in Executions :
                        On(d, q)' /\ executions'[d].pc = "executing" /\ executions'[d].step = i
       BY DEF ExecutingIsExecuted
  <2>1. CASE q = p
    <3>1. On(e, q)'
          BY <1>4, <1>6, <2>1 DEF On, Live
    <3>2. ASSUME NEW i \in DOMAIN now.steps, now.steps[i] = "executing"
          PROVE  \E d \in Executions :
                    On(d, q)' /\ executions'[d].pc = "executing" /\ executions'[d].step = i
      <4>1. CASE x.pc = "executing" /\ x.step = i
            BY <1>6, <3>1, <4>1
      <4>2. CASE plan.steps[i] = "executing"
        <5>1. /\ plans[p].steps[i] = "executing" /\ i \in DOMAIN plans[p].steps
              /\ ~(executions[e].pc = "executing" /\ executions[e].step = i)
              BY <1>4, <1>7, <4>2 DEF p
        <5>2. plans[p].listed
              BY <1>6, <1>7, <2>1
        <5>3. PICK d \in Executions :
                 On(d, p) /\ executions[d].pc = "executing" /\ executions[d].step = i
              BY <1>1, <5>1, <5>2 DEF PlanInv, ExecutingIsExecuted
        <5>4. executions'[d] = executions[d]
              BY <1>6, <5>1, <5>3
        <5>. QED  BY <2>1, <5>3, <5>4 DEF On, Live
      <4>. QED  BY <1>4, <3>2, <4>1, <4>2
    <3>. QED  BY <1>6, <2>1, <3>1, <3>2
  <2>2. CASE q # p
    <3>1. plans'[q] = plans[q]
          BY <1>6, <2>2
    <3>2. \A d \in Executions : On(d, q) => executions'[d] = executions[d]
          BY <1>6, <2>2 DEF On, p
    <3>3. /\ plans[q].status \in {"executing", "reflecting"} => \E d \in Executions : On(d, q)
          /\ \A i \in DOMAIN plans[q].steps : plans[q].steps[i] = "executing" =>
                \E d \in Executions :
                    On(d, q) /\ executions[d].pc = "executing" /\ executions[d].step = i
          BY <3>1 DEF PlanInv, ExecutingIsExecuted
    <3>. QED  BY <3>1, <3>2, <3>3 DEF On, Live
  <2>. QED  BY <2>1, <2>2
<1>. QED  BY <1>5, <1>8, <1>9 DEF PlanInv

-----------------------------------------------------------------------------
(* The routes, and the end of an execution                                 *)

Kept(d) == executions'[d] = executions[d]
Spawned(d, p) == ~Live(d) /\ executions'[d].pc = "spawned" /\ executions'[d].plan = p
Ended(d, p) ==
    /\ Live(d) /\ executions[d].plan = p /\ executions[d].pc # "executing"
    /\ executions'[d] = NoExecution

(* One plan changes, but for the steps that are executed, and executions   *)
(* of it that are at no step come and go.                                  *)
LEMMA OnePlanChanges ==
    ASSUME PlanInv, RecordsOK', NEW p \in Plans,
           \A q \in Plans \ {p} : plans'[q] = plans[q],
           plans'[p].status # "none",
           plans'[p].request # "none" => DOMAIN plans'[p].steps = {},
           DOMAIN plans[p].steps \subseteq DOMAIN plans'[p].steps,
           \A d \in Executions : Kept(d) \/ Spawned(d, p) \/ Ended(d, p),
           plans'[p].listed /\ plans'[p].status \in {"executing", "reflecting"} =>
                /\ plans[p].listed /\ plans[p].status = plans'[p].status
                /\ \A d \in Executions : ~Ended(d, p),
           plans'[p].listed => \A i \in DOMAIN plans'[p].steps : plans'[p].steps[i] = "executing" =>
                plans[p].listed /\ i \in DOMAIN plans[p].steps /\ plans[p].steps[i] = "executing"
    PROVE  PlanInv'
<1>1. LinksOK'
  <2>1. \A q \in Plans : /\ New(q)' => plans'[q] = NoPlan
                         /\ plans'[q].request # "none" => DOMAIN plans'[q].steps = {}
        BY DEF PlanInv, LinksOK, New
  <2>2. ASSUME NEW d \in Executions, Live(d)'
        PROVE  /\ ~New(executions[d].plan)'
               /\ executions'[d].pc = "executing" =>
                    /\ executions'[d].step \in DOMAIN plans'[executions'[d].plan].steps
                    /\ executions'[d].todo \subseteq DOMAIN plans'[executions'[d].plan].steps
    <3>1. CASE Kept(d)
      <4>1. /\ Live(d) /\ executions[d].plan \in Plans
            /\ plans[executions[d].plan].status # "none"
            /\ executions[d].pc = "executing" =>
                    /\ executions[d].step \in DOMAIN plans[executions[d].plan].steps
                    /\ executions[d].todo \subseteq DOMAIN plans[executions[d].plan].steps
            BY <2>2, <3>1, LiveMeansPc DEF Kept, Live, PlanInv, LinksOK, New
      <4>. QED  BY <3>1, <4>1 DEF Kept, New
    <3>2. CASE Spawned(d, p)
          BY <3>2 DEF Spawned, New
    <3>3. ~Ended(d, p)
          BY <2>2 DEF Ended, Live
    <3>. QED  BY <3>1, <3>2, <3>3
  <2>. QED  BY <2>1, <2>2 DEF LinksOK
<1>2. ASSUME NEW q \in Plans, plans'[q].listed
      PROVE  /\ plans'[q].status \in {"executing", "reflecting"} => \E d \in Executions : On(d, q)'
             /\ \A i \in DOMAIN plans'[q].steps : plans'[q].steps[i] = "executing" =>
                    \E d \in Executions :
                        On(d, q)' /\ executions'[d].pc = "executing" /\ executions'[d].step = i
  <2>1. \A d \in Executions : On(d, q) /\ Kept(d) => On(d, q)'
        BY DEF On, Live, Kept
  <2>2. ASSUME plans'[q].status \in {"executing", "reflecting"}
        PROVE  \E d \in Executions : On(d, q)'
    <3>1. plans[q].listed /\ plans[q].status = plans'[q].status
          BY <1>2, <2>2
    <3>2. PICK d \in Executions : On(d, q)
          BY <2>2, <3>1 DEF PlanInv, ExecutingIsExecuted
    <3>3. Kept(d)
          BY <1>2, <2>2, <3>2 DEF On, Spawned, Ended
    <3>. QED  BY <2>1, <3>2, <3>3
  <2>3. ASSUME NEW i \in DOMAIN plans'[q].steps, plans'[q].steps[i] = "executing"
        PROVE  \E d \in Executions :
                    On(d, q)' /\ executions'[d].pc = "executing" /\ executions'[d].step = i
    <3>1. plans[q].listed /\ i \in DOMAIN plans[q].steps /\ plans[q].steps[i] = "executing"
          BY <1>2, <2>3
    <3>2. PICK d \in Executions :
             On(d, q) /\ executions[d].pc = "executing" /\ executions[d].step = i
          BY <3>1 DEF PlanInv, ExecutingIsExecuted
    <3>3. Kept(d)
          BY <3>2 DEF On, Spawned, Ended
    <3>. QED  BY <2>1, <3>2, <3>3 DEF Kept
  <2>. QED  BY <2>2, <2>3
<1>. QED  BY <1>1, <1>2 DEF PlanInv, ExecutingIsExecuted

LEMMA CreateKeeps ==
    ASSUME PlanInv, NEW p \in Plans, NEW request \in {"plan", "auto"}, CreatePlan(p, request)
    PROVE  PlanInv'
<1>. DEFINE now == [NoPlan EXCEPT !.listed = TRUE, !.status = "planning", !.request = request]
<1>1. /\ now \in PlanRecords /\ now.status = "planning" /\ DOMAIN now.steps = {}
      BY NoPlanIsRecord DEF PlanRecords, PlanStatuses
<1>2. plans' = [plans EXCEPT ![p] = now] /\ executions' = executions /\ New(p)
      BY DEF CreatePlan
<1>. HIDE DEF now
<1>3. RecordsOK' /\ plans'[p] = now /\ \A q \in Plans \ {p} : plans'[q] = plans[q]
      BY <1>1, <1>2 DEF PlanInv, RecordsOK
<1>4. DOMAIN plans[p].steps = {}
      BY <1>2, NoPlanIsRecord DEF PlanInv, LinksOK
<1>. QED  BY <1>1, <1>2, <1>3, <1>4, OnePlanChanges DEF Kept

LEMMA GeneratedKeeps ==
    ASSUME PlanInv, NEW p \in Plans, Generated(p)
    PROVE  PlanInv'
<1>1. PICK n \in Steps :
        plans' = [plans EXCEPT ![p].steps = [i \in 1..n |-> "pending"],
                               ![p].status = "pending", ![p].request = "none"]
      BY DEF Generated
<1>. DEFINE steps == [i \in 1..n |-> "pending"]
            now == [plans[p] EXCEPT !.steps = steps, !.status = "pending", !.request = "none"]
<1>2. steps \in StepLists
  <2>1. n \in 0..NumSteps /\ steps \in [1..n -> StepStatuses]
        BY PlanBoundsAssumption DEF Steps, StepStatuses
  <2>. QED  BY <2>1, StepList
<1>3. \A i \in DOMAIN steps : steps[i] # "executing"
      OBVIOUS
<1>. HIDE DEF steps
<1>4. now \in PlanRecords /\ now.steps = steps /\ now.status = "pending" /\ now.request = "none"
      BY <1>2 DEF PlanInv, RecordsOK, PlanRecords, PlanStatuses
<1>5. plans' = [plans EXCEPT ![p] = now]
      BY <1>1 DEF steps, PlanInv, RecordsOK
<1>. HIDE DEF now
<1>6. plans' \in [Plans -> PlanRecords] /\ plans'[p] = now /\ \A q \in Plans \ {p} : plans'[q] = plans[q]
      BY <1>4, <1>5 DEF PlanInv, RecordsOK
<1>7. executions' = executions \/ \E e \in Executions : Spawn(e, p, Steps)
      BY DEF Generated
<1>8. executions' \in [Executions -> ExecutionRecords]
      BY <1>7 DEF Spawn, PlanInv, RecordsOK, ExecutionRecords
<1>9. \A d \in Executions : Kept(d) \/ Spawned(d, p)
      BY <1>7 DEF Spawn, Kept, Spawned, PlanInv, RecordsOK
<1>10. DOMAIN plans[p].steps = {}
       BY DEF Generated, PlanInv, LinksOK
<1>. QED  BY <1>3, <1>4, <1>6, <1>8, <1>9, <1>10, OnePlanChanges DEF RecordsOK

(* The status changes, or the request or the listing ends.                 *)
Restates(p, now) ==
    /\ now \in PlanRecords /\ now.steps = plans[p].steps
    /\ now.listed => plans[p].listed
    /\ now.status # "none"
    /\ now.status \in {"executing", "reflecting"} => ~now.listed
    /\ now.request \in {"none", plans[p].request}

LEMMA StatusKeeps ==
    ASSUME PlanInv, NEW p \in Plans, NEW now, Restates(p, now),
           plans' = [plans EXCEPT ![p] = now],
           executions' \in [Executions -> ExecutionRecords],
           \A d \in Executions : Kept(d) \/ Ended(d, p)
    PROVE  PlanInv'
<1>1. plans' \in [Plans -> PlanRecords] /\ plans'[p] = now /\ \A q \in Plans \ {p} : plans'[q] = plans[q]
      BY DEF Restates, PlanInv, RecordsOK
<1>2. now.request # "none" => DOMAIN now.steps = {}
      BY DEF Restates, PlanInv, LinksOK
<1>. QED  BY <1>1, <1>2, OnePlanChanges DEF Restates, RecordsOK

(* One step of a plan gets its result.                                     *)
Follows(old, i, plan) ==
    /\ plan \in PlanRecords
    /\ plan.listed = old.listed /\ plan.request = old.request /\ plan.status = old.status
    /\ DOMAIN plan.steps = DOMAIN old.steps /\ plan.steps[i] # "executing"
    /\ \A j \in DOMAIN old.steps \ {i} : plan.steps[j] = old.steps[j]

LEMMA ResultFollows ==
    ASSUME NEW old \in PlanRecords, NEW i \in DOMAIN old.steps,
           NEW result \in {"pending", "completed", "failed"}, NEW retries \in 0..MaxRetries
    PROVE  /\ Follows(old, i, [old EXCEPT !.steps[i] = result])
           /\ Follows(old, i, [old EXCEPT !.steps[i] = result, !.retries = retries])
<1>. DEFINE steps == [old.steps EXCEPT ![i] = result]
<1>1. steps \in StepLists
      BY SetStep DEF PlanRecords, StepStatuses
<1>2. DOMAIN steps = DOMAIN old.steps /\ steps[i] # "executing"
      /\ \A j \in DOMAIN old.steps \ {i} : steps[j] = old.steps[j]
      OBVIOUS
<1>. HIDE DEF steps
<1>3. Follows(old, i, [old EXCEPT !.steps = steps])
      BY <1>1, <1>2 DEF Follows, PlanRecords
<1>4. Follows(old, i, [old EXCEPT !.steps = steps, !.retries = retries])
      BY <1>1, <1>2 DEF Follows, PlanRecords
<1>. QED  BY <1>3, <1>4 DEF steps

LEMMA ExecutionKeeps ==
    ASSUME PlanInv, NEW e \in Executions, Executing(e)
    PROVE  PlanInv'
<1>. DEFINE p == executions[e].plan
            old == plans[p]
<1>0. /\ executions[e].pc \in {"spawned", "executing", "reflecting"} /\ Live(e)
      /\ p \in Plans /\ old \in PlanRecords /\ old.status # "none"
  <2>1. executions[e].pc \in {"spawned", "executing", "reflecting"}
        BY DEF Executing, BeginExecution, StepCompletes, StepFails, Reflect
  <2>2. Live(e)
        BY <2>1, LiveMeansPc DEF PlanInv
  <2>. QED  BY <2>1, <2>2, LiveMeansPc DEF PlanInv, RecordsOK, LinksOK, New
<1>1. CASE BeginExecution(e) /\ old.listed
  <2>. DEFINE now == [old EXCEPT !.status = "executing"]
  <2>1. /\ now \in PlanRecords /\ now.steps = old.steps /\ now.listed = old.listed
        /\ now.request = old.request /\ now.status = "executing"
        BY <1>0 DEF PlanRecords, PlanStatuses
  <2>2. executions[e].pc = "spawned"
        /\ GoOn(e, now, 1, executions[e].chosen \cap DOMAIN old.steps)
        BY <1>1 DEF BeginExecution
  <2>. HIDE DEF now
  <2>. QED  BY <1>0, <2>1, <2>2, GoOnKeeps
<1>2. CASE BeginExecution(e) /\ ~old.listed
  <2>1. plans' = plans /\ executions' = [executions EXCEPT ![e] = NoExecution]
        /\ executions[e].pc = "spawned"
        BY <1>2 DEF BeginExecution
  <2>2. RecordsOK' /\ \A d \in Executions : Kept(d) \/ Ended(d, p)
        BY <1>0, <2>1 DEF PlanInv, RecordsOK, ExecutionRecords, Kept, Ended
  <2>3. old.request # "none" => DOMAIN old.steps = {}
        BY <1>0 DEF PlanInv, LinksOK
  <2>. QED  BY <1>0, <1>2, <2>1, <2>2, <2>3, OnePlanChanges
<1>3. ASSUME StepCompletes(e) \/ StepFails(e)
      PROVE  PlanInv'
  <2>. DEFINE x == executions[e]
  <2>1. x.pc = "executing" /\ x.step \in DOMAIN old.steps /\ x.todo \subseteq DOMAIN old.steps
        /\ x.step \in Nat
        BY <1>0, <1>3, LiveMeansPc DEF StepCompletes, StepFails, PlanInv, LinksOK
  <2>2. old.retries \in 0..MaxRetries
        BY <1>0 DEF PlanRecords
  <2>3. \E plan : Follows(old, x.step, plan) /\ GoOn(e, plan, x.step + 1, x.todo)
    <3>1. CASE StepCompletes(e)
          BY <1>0, <2>1, <2>2, <3>1, ResultFollows DEF StepCompletes
    <3>2. CASE StepFails(e) /\ old.retries < MaxRetries
      <4>1. old.retries + 1 \in 0..MaxRetries
            BY <2>2, <3>2, PlanBoundsAssumption
      <4>2. Follows(old, x.step, [old EXCEPT !.steps[x.step] = "pending", !.retries = old.retries + 1])
            BY <1>0, <2>1, <4>1, ResultFollows
      <4>. QED  BY <3>2, <4>2 DEF StepFails
    <3>3. CASE StepFails(e) /\ ~(old.retries < MaxRetries)
          BY <1>0, <2>1, <2>2, <3>3, ResultFollows DEF StepFails
    <3>. QED  BY <1>3, <3>1, <3>2, <3>3
  <2>4. PICK plan : Follows(old, x.step, plan) /\ GoOn(e, plan, x.step + 1, x.todo)
        BY <2>3
  <2>. QED  BY <1>0, <2>1, <2>4, GoOnKeeps DEF Follows
<1>4. CASE Reflect(e)
  <2>1. PICK status \in {"failed", "completed"} : SetPlanStatus(p, status)
        BY <1>4 DEF Reflect
  <2>. DEFINE now == [old EXCEPT !.status = status]
  <2>2. Restates(p, now)
        BY <1>0 DEF Restates, PlanRecords, PlanStatuses
  <2>3. plans' = [plans EXCEPT ![p] = now]
        BY <2>1 DEF SetPlanStatus
  <2>4. executions' \in [Executions -> ExecutionRecords]
        /\ \A d \in Executions : Kept(d) \/ Ended(d, p)
        BY <1>0, <1>4 DEF Reflect, PlanInv, RecordsOK, ExecutionRecords, Kept, Ended
  <2>. HIDE DEF now
  <2>. QED  BY <1>0, <2>2, <2>3, <2>4, StatusKeeps
<1>. QED  BY <1>1, <1>2, <1>3, <1>4 DEF Executing

LEMMA PlanStep ==
    ASSUME PlanInv, PlanNext
    PROVE  PlanInv'
<1>1. ASSUME NEW p \in Plans, NotGenerated(p) \/ PausePlan(p) \/ DeletePlan(p)
      PROVE  PlanInv'
  <2>1. plans[p] \in PlanRecords /\ (plans[p].status = "none" => plans[p] = NoPlan)
        BY DEF PlanInv, RecordsOK, LinksOK, New
  <2>2. executions' \in [Executions -> ExecutionRecords] /\ \A d \in Executions : Kept(d)
        BY <1>1 DEF NotGenerated, PausePlan, DeletePlan, PlanInv, RecordsOK, Kept
  <2>3. CASE NotGenerated(p)
    <3>. DEFINE now == [plans[p] EXCEPT !.status = "failed", !.request = "none"]
    <3>1. Restates(p, now)
          BY <2>1 DEF Restates, PlanRecords, PlanStatuses
    <3>2. plans' = [plans EXCEPT ![p] = now]
          BY <2>3 DEF NotGenerated, PlanInv, RecordsOK
    <3>. HIDE DEF now
    <3>. QED  BY <2>2, <3>1, <3>2, StatusKeeps
  <2>4. CASE PausePlan(p)
    <3>. DEFINE now == [plans[p] EXCEPT !.status = "paused"]
    <3>1. Restates(p, now)
          BY <2>1 DEF Restates, PlanRecords, PlanStatuses
    <3>2. plans' = [plans EXCEPT ![p] = now]
          BY <2>4 DEF PausePlan, SetPlanStatus
    <3>. HIDE DEF now
    <3>. QED  BY <2>2, <3>1, <3>2, StatusKeeps
  <2>5. CASE DeletePlan(p)
    <3>. DEFINE now == [plans[p] EXCEPT !.listed = FALSE]
    <3>1. plans' = [plans EXCEPT ![p] = now] /\ plans[p].listed
          BY <2>5 DEF DeletePlan, PlanInv, RecordsOK
    <3>2. Restates(p, now)
          BY <2>1, <3>1, NoPlanIsRecord DEF Restates, PlanRecords
    <3>. HIDE DEF now
    <3>. QED  BY <2>2, <3>1, <3>2, StatusKeeps
  <2>. QED  BY <1>1, <2>3, <2>4, <2>5
<1>2. ASSUME NEW p \in Plans, NEW e \in Executions, TriggerExecution(p, e)
      PROVE  PlanInv'
  <2>1. PICK chosen \in SUBSET Steps : Spawn(e, p, chosen)
        BY <1>2 DEF TriggerExecution
  <2>2. plans' = plans /\ plans[p].listed /\ plans[p].status # "none"
        BY <1>2, NoPlanIsRecord DEF TriggerExecution, PlanInv, LinksOK, New
  <2>3. RecordsOK'
        BY <2>1, <2>2 DEF Spawn, PlanInv, RecordsOK, ExecutionRecords
  <2>4. \A d \in Executions : (Kept(d) \/ Spawned(d, p)) /\ ~Ended(d, p)
        BY <2>1 DEF Spawn, Kept, Spawned, Ended, Live, PlanInv, RecordsOK, NoExecution
  <2>5. plans[p].request # "none" => DOMAIN plans[p].steps = {}
        BY DEF PlanInv, LinksOK
  <2>. QED  BY <2>2, <2>3, <2>4, <2>5, OnePlanChanges
<1>3. CASE EngineRestarts
  <2>1. \A q \in Plans : /\ plans'[q] = [plans[q] EXCEPT !.listed = FALSE, !.request = "none"]
                         /\ plans[q] \in PlanRecords
        BY <1>3 DEF EngineRestarts, PlanInv, RecordsOK
  <2>0. [NoPlan EXCEPT !.listed = FALSE, !.request = "none"] = NoPlan
    <3>1. ASSUME NEW r \in PlanRecords, r.listed = FALSE, r.request = "none"
          PROVE  [r EXCEPT !.listed = FALSE, !.request = "none"] = r
          BY <3>1 DEF PlanRecords
    <3>. QED  BY <3>1, NoPlanIsRecord
  <2>2. \A q \in Plans : /\ plans'[q] \in PlanRecords /\ plans'[q].listed = FALSE
                         /\ plans'[q].request = "none" /\ plans'[q].status = plans[q].status
                         /\ plans[q] = NoPlan => plans'[q] = NoPlan
    <3>. SUFFICES ASSUME NEW q \in Plans
         PROVE  /\ plans'[q] \in PlanRecords /\ plans'[q].listed = FALSE
                /\ plans'[q].request = "none" /\ plans'[q].status = plans[q].status
                /\ plans[q] = NoPlan => plans'[q] = NoPlan
         OBVIOUS
    <3>1. /\ plans'[q] \in PlanRecords /\ plans'[q].listed = FALSE
          /\ plans'[q].request = "none" /\ plans'[q].status = plans[q].status
          BY <2>1 DEF PlanRecords
    <3>. QED  BY <2>0, <2>1, <3>1
  <2>3. \A d \in Executions : executions'[d] = NoExecution
        BY <1>3 DEF EngineRestarts
  <2>4. RecordsOK'
        BY <1>3, <2>2 DEF EngineRestarts, RecordsOK, ExecutionRecords
  <2>. QED  BY <2>2, <2>3, <2>4 DEF PlanInv, LinksOK, ExecutingIsExecuted, New, Live
<1>. QED
     BY <1>1, <1>2, <1>3, CreateKeeps, GeneratedKeeps, ExecutionKeeps DEF PlanNext

-----------------------------------------------------------------------------
LEMMA RunnerInit == Init => TaskInv /\ PlanInv
<1>. SUFFICES ASSUME Init PROVE TaskInv /\ PlanInv
     OBVIOUS
<1>1. TaskInv
      BY DEF Init, TaskInv, TasksOK, LoopsOK, OneLoopPerTask, Callers
<1>2. RecordsOK
      BY NoPlanIsRecord DEF Init, PlansInit, RecordsOK, ExecutionRecords
<1>3. LinksOK /\ ExecutingIsExecuted
      BY NoPlanIsRecord DEF Init, PlansInit, LinksOK, ExecutingIsExecuted, Live
<1>. QED  BY <1>1, <1>2, <1>3 DEF PlanInv

LEMMA RunnerStep == TaskInv /\ PlanInv /\ [Next]_vars => (TaskInv /\ PlanInv)'
<1>. SUFFICES ASSUME TaskInv, PlanInv, [Next]_vars PROVE TaskInv' /\ PlanInv'
     OBVIOUS
<1>1. CASE UNCHANGED vars
  <2>1. UNCHANGED <<plans, executions, tasks, work, handle>>
        BY <1>1 DEF vars, planVars, taskVars
  <2>. QED  BY <2>1 DEF TaskInv, TasksOK, LoopsOK, OneLoopPerTask, PlanInv, RecordsOK, LinksOK,
                        ExecutingIsExecuted, New, Live, On
<1>2. CASE Next
  <2>1. TaskInv'
        BY <1>2, TaskStep
  <2>2. \/ UNCHANGED planVars \/ PlanNext
        \/ \E p \in Plans : CreatePlan(p, "auto")
        BY <1>2 DEF Next, CreateTask, RunTask, Pause, Resume, CancelTask, Turn, CancelledError,
                    AskForPlan, Executed, RunnerRestarts
  <2>3. CASE UNCHANGED planVars
    <3>1. plans' = plans /\ executions' = executions
          BY <2>3 DEF planVars
    <3>2. RecordsOK' /\ LinksOK'
          BY <3>1 DEF PlanInv, RecordsOK, LinksOK, New, Live
    <3>3. ExecutingIsExecuted'
          BY <3>1 DEF PlanInv, ExecutingIsExecuted, Live, On
    <3>. QED  BY <2>1, <3>2, <3>3 DEF PlanInv
  <2>. QED  BY <2>1, <2>2, <2>3, PlanStep, CreateKeeps
<1>. QED  BY <1>1, <1>2

LEMMA RunnerInvariant == Spec => [](TaskInv /\ PlanInv)
BY RunnerInit, RunnerStep, PTL DEF Spec

(* Tasks, loops, plans and executions keep their types, and a handle is of *)
(* a loop of its task.                                                     *)
THEOREM RunnerTypeCorrect == Spec => []TypeOK
<1>1. ASSUME TaskInv, PlanInv PROVE TypeOK
  <2>1. ASSUME NEW p \in Plans
        PROVE  /\ DOMAIN plans[p] = DOMAIN NoPlan
               /\ plans[p].request \in {"none", "plan", "auto"}
               /\ plans[p].listed \in BOOLEAN /\ plans[p].retries \in 0..MaxRetries
               /\ plans[p].status \in PlanStatuses /\ plans[p].steps \in StepLists
        BY <1>1 DEF PlanInv, RecordsOK, PlanRecords, NoPlan
  <2>2. ASSUME NEW e \in Executions, Live(e)
        PROVE  /\ executions[e].plan \in Plans
               /\ executions[e].pc \in {"spawned", "executing", "reflecting"}
               /\ executions[e].pc = "executing" =>
                    executions[e].step \in DOMAIN plans[executions[e].plan].steps
        BY <1>1, <2>2, LiveMeansPc DEF PlanInv, LinksOK
  <2>3. PlanTypeOK
        BY <2>1, <2>2 DEF PlanTypeOK, PlanStatuses, StepLists, StepStatuses
  <2>4. ASSUME NEW c \in Callers, work[c] # Free
        PROVE  /\ work[c].pc \in {"waiting", "running", "asked"} /\ work[c].task \in Tasks
               /\ work[c].once \in BOOLEAN /\ work[c].cancelled \in BOOLEAN
        BY <1>1, <2>4 DEF TaskInv, TasksOK, Jobs
  <2>. QED  BY <1>1, <2>3, <2>4 DEF TypeOK, TaskInv, TasksOK, LoopsOK
<1>. QED  BY <1>1, RunnerInvariant, PTL

(* However tasks are paused, resumed and cancelled, the loop that was not  *)
(* told to end is the one in the table, and its task is active.            *)
THEOREM RunnerOneLoopPerTask == Spec => []OneLoopPerTask
<1>1. TaskInv => OneLoopPerTask
      BY DEF TaskInv, LoopsOK
<1>. QED  BY <1>1, RunnerInvariant, PTL

(* No step leaves a task active that has lost its loop.                    *)
THEOREM RunnerActiveKeepsLoop == Spec => ActiveKeepsLoop
<1>1. ASSUME TaskInv, [Next]_vars
      PROVE  [\A t \in Tasks :
                handle[t] # NoLoop /\ handle'[t] = NoLoop => tasks'[t] # "active"]_vars
      BY <1>1, LoopKept
<1>. QED  BY <1>1, RunnerInvariant, PTL DEF Spec, ActiveKeepsLoop

(* A listed plan never says that it, or a step, is executed when nobody    *)
(* is there to say otherwise later, for any number of executions of it.    *)
THEOREM RunnerExecutingIsExecuted == Spec => []ExecutingIsExecuted
<1>1. PlanInv => ExecutingIsExecuted
      BY DEF PlanInv
<1>. QED  BY <1>1, RunnerInvariant, PTL
=============================================================================
