------------------------ MODULE WorkflowEngineProofs ------------------------
(***************************************************************************)
(* What is proved of WorkflowEngine, for any workflows, threads, steps,    *)
(* faults and restarts.                                                    *)
(*                                                                         *)
(* RunningHasThread is not inductive: a fault in the except branch ends a  *)
(* thread that has not said how it ended.  What makes it right is why a    *)
(* thread is in that branch: a fault was spent on it already, or its row   *)
(* is gone for good (CrashCause).  That a thread executes one step of a     *)
(* deleted workflow at most needs that it is of a workflow that was        *)
(* created (OfRows), since the log only refuses entries of deleted ones,   *)
(* and where the thread is after that step: on its way out (LateIsLeaving).*)
(***************************************************************************)
EXTENDS WorkflowEngine, TLAPS

CrashCause ==
    \A th \in Threads : At(th, "crash") /\ faults = 0 => status[thread[th].wf] = "deleted"

OfRows ==
    /\ \A th \in Threads : ~At(th, "free") => status[thread[th].wf] # "none"
    /\ handler # Idle => status[handler.wf] # "none"

(* Between the check and the advance there is a step to do.                *)
InStep == {"mark", "log_step", "execute", "log_ok", "advance"}
StepsLeft == \A th \in Threads : thread[th].pc \in InStep => thread[th].idx < Steps

EngineInv == TypeOK /\ StepsLeft /\ CrashCause /\ OfRows /\ RunningHasThread

Busy == [pc : Places, wf : Workflows, idx : 0..Steps]

-----------------------------------------------------------------------------
(* Types                                                                   *)

LEMMA InitialInv == Init => EngineInv
<1>. SUFFICES ASSUME Init PROVE EngineInv
     OBVIOUS
<1>1. TypeOK
      BY BoundsAssumption DEF Init, TypeOK, Statuses
<1>2. StepsLeft /\ CrashCause /\ OfRows
      BY DEF Init, StepsLeft, InStep, CrashCause, OfRows, At, Free
<1>3. RunningHasThread
      BY DEF Init, RunningHasThread
<1>. QED  BY <1>1, <1>2, <1>3 DEF EngineInv

(* A thread that is not free has a workflow and a place.                   *)
LEMMA ThreadIs ==
    ASSUME TypeOK, NEW th \in Threads
    PROVE  /\ thread[th] \in Busy \/ thread[th] = Free
           /\ ~At(th, "free") => thread[th] \in Busy
BY DEF TypeOK, Busy, At, Free

(* A thread goes from one place to another in its workflow.                *)
Moved(th, pc) ==
    /\ thread' \in [Threads -> Busy \cup {Free}]
    /\ \A u \in Threads \ {th} : thread'[u] = thread[u]
    /\ thread'[th].wf = thread[th].wf /\ thread[th].wf \in Workflows
    /\ thread'[th].pc = pc
    /\ ~At(th, "free") /\ ~At(th, "free")'

LEMMA GotoMoves ==
    ASSUME TypeOK, NEW th \in Threads, ~At(th, "free"), NEW pc \in Places, Goto(th, pc)
    PROVE  Moved(th, pc) /\ thread'[th].idx = thread[th].idx
<1>1. thread[th] \in Busy
      BY ThreadIs
<1>2. [thread[th] EXCEPT !.pc = pc] \in Busy
      BY <1>1 DEF Busy
<1>3. thread \in [Threads -> Busy \cup {Free}]
      BY DEF TypeOK, Busy
<1>4. pc # "free"
      BY DEF Places, AfterLog
<1>. QED  BY <1>1, <1>2, <1>3, <1>4 DEF Goto, Moved, Busy, At

LEMMA PlacesAre ==
    /\ DOMAIN AfterLog = {"log_start", "log_step", "log_ok", "log_error", "log_stop",
                          "log_done", "log_crash"}
    /\ \A pc \in DOMAIN AfterLog : AfterLog[pc] \in Places
    /\ {"load", "check", "mark", "execute", "advance", "stop", "fail", "complete", "crash",
        "drop_flag", "raise_flag"} \subseteq Places
    /\ DOMAIN AfterLog \subseteq Places
    /\ "free" \notin Places
BY DEF AfterLog, Places

-----------------------------------------------------------------------------
(* A step of a thread                                                      *)

(* The thread ends; or it goes on in its workflow, to the except branch    *)
(* only by a fault or a refused entry, and past its last status only with  *)
(* a workflow that is not running or by a second fault.                    *)
Ends(th) ==
    /\ At(th, "drop_flag") /\ thread' = [thread EXCEPT ![th] = Free]
    /\ UNCHANGED <<status, faults>>

Last == {"log_stop", "log_done", "log_crash", "drop_flag"}

(* What the step makes of the row of workflow w...                         *)
RowKept(w) ==
    /\ status' \in [Workflows -> Statuses]
    /\ \A v \in Workflows \ {w} : status'[v] = status[v]
    /\ (status[w] \in {"none", "deleted"} \/ status'[w] \in {"none", "deleted"})
            => status'[w] = status[w]
    /\ faults' \in Nat /\ faults' >= faults

(* ... and why the thread goes from one place to another.                  *)
Reasons(w, here, pc, idx) ==
    /\ status'[w] = "running" /\ status[w] # "running" => pc \notin Last
    /\ pc = "crash" /\ faults' = 0 => status[w] = "deleted"
    /\ pc \in Last /\ here \notin Last => status'[w] # "running" \/ faults' > 1
    /\ pc = "execute" /\ here # "execute" => status[w] # "deleted"
    /\ pc \in InStep => idx < Steps

GoesOn(th) ==
    /\ Moved(th, thread'[th].pc)
    /\ RowKept(thread[th].wf)
    /\ Reasons(thread[th].wf, thread[th].pc, thread'[th].pc, thread'[th].idx)

LEMMA QuietStep ==
    ASSUME TypeOK, NEW th \in Threads, ~At(th, "free"), NEW pc \in Places, Goto(th, pc),
           status' = status, faults' = faults,
           pc = "crash" => status[thread[th].wf] = "deleted",
           pc \in Last /\ thread[th].pc \notin Last => ~Exists(thread[th].wf),
           pc = "execute" => status[thread[th].wf] # "deleted",
           pc \in InStep => thread[th].idx < Steps
    PROVE  GoesOn(th)
<1>1. faults \in Nat /\ status \in [Workflows -> Statuses]
      BY BoundsAssumption DEF TypeOK
<1>2. Moved(th, pc) /\ thread'[th].idx = thread[th].idx /\ thread'[th].pc = pc
      BY GotoMoves DEF Moved
<1>3. RowKept(thread[th].wf)
      BY <1>1 DEF RowKept
<1>4. Reasons(thread[th].wf, thread[th].pc, pc, thread[th].idx)
      BY DEF Reasons, Exists
<1>. QED  BY <1>2, <1>3, <1>4 DEF GoesOn

LEMMA WritingStep ==
    ASSUME TypeOK, NEW th \in Threads, NEW here, NEW s \in Statuses, NEW pc \in Places,
           Write(th, here, s, pc), here \notin Last, here # "free",
           s \notin {"none", "deleted"},
           s = "running" => pc \notin Last,
           pc \notin {"crash", "execute"},
           pc \in InStep => thread[th].idx < Steps
    PROVE  GoesOn(th)
<1>1. /\ At(th, here) /\ SetStatus(thread[th].wf, s) /\ Goto(th, pc) /\ faults' = faults
      BY DEF Write
<1>2. faults \in Nat /\ status \in [Workflows -> Statuses]
      BY BoundsAssumption DEF TypeOK
<1>3. Moved(th, pc) /\ thread'[th].idx = thread[th].idx /\ thread'[th].pc = pc
      BY <1>1, GotoMoves DEF Moved, At
<1>4. thread[th].wf \in Workflows
      BY <1>3 DEF Moved
<1>5. /\ status' \in [Workflows -> Statuses]
      /\ \A v \in Workflows \ {thread[th].wf} : status'[v] = status[v]
      /\ \/ status[thread[th].wf] \in {"none", "deleted"} /\ status' = status
         \/ /\ status[thread[th].wf] \notin {"none", "deleted"}
            /\ status'[thread[th].wf] = s
      BY <1>1, <1>2, <1>4 DEF SetStatus, Exists
<1>6. RowKept(thread[th].wf)
      BY <1>1, <1>2, <1>5 DEF RowKept
<1>7. Reasons(thread[th].wf, thread[th].pc, pc, thread[th].idx)
      BY <1>5 DEF Reasons
<1>. QED  BY <1>3, <1>6, <1>7 DEF GoesOn

LEMMA FaultStep ==
    ASSUME TypeOK, NEW th \in Threads, ~At(th, "free"), NEW pc \in {"crash", "drop_flag"},
           Goto(th, pc), status' = status, faults' = faults + 1,
           pc \in Last => \/ thread[th].pc \in Last
                          \/ status[thread[th].wf] = "deleted" \/ faults' > 1
    PROVE  GoesOn(th)
<1>1. faults \in Nat /\ status \in [Workflows -> Statuses] /\ pc \in Places
      BY BoundsAssumption, PlacesAre DEF TypeOK
<1>2. Moved(th, pc) /\ thread'[th].idx = thread[th].idx /\ thread'[th].pc = pc
      BY <1>1, GotoMoves DEF Moved
<1>3. RowKept(thread[th].wf)
      BY <1>1 DEF RowKept
<1>4. Reasons(thread[th].wf, thread[th].pc, pc, thread[th].idx)
      BY <1>1 DEF Reasons, InStep
<1>. QED  BY <1>2, <1>3, <1>4 DEF GoesOn

LEMMA ThreadMoves ==
    ASSUME EngineInv, NEW th \in Threads, ThreadStep(th) \/ ThreadFault(th)
    PROVE  Ends(th) \/ GoesOn(th)
<1>0. TypeOK /\ (thread[th].pc \in InStep => thread[th].idx < Steps)
      BY DEF EngineInv, StepsLeft
<1>1. CASE RaiseFlag(th)
      BY <1>0, <1>1, QuietStep, PlacesAre DEF RaiseFlag, At, Last, InStep
<1>2. CASE Load(th)
      BY <1>0, <1>2, QuietStep, PlacesAre DEF Load, At, Last, InStep
<1>3. CASE AddLog(th)
  <2>1. /\ thread[th].pc \in DOMAIN AfterLog /\ status' = status /\ faults' = faults
        /\ ~At(th, "free")
        BY <1>3, PlacesAre DEF AddLog, At
  <2>2. CASE Goto(th, "crash") /\ status[thread[th].wf] = "deleted"
        BY <1>0, <2>1, <2>2, QuietStep, PlacesAre DEF Last, InStep
  <2>3. CASE Goto(th, AfterLog[thread[th].pc])
             /\ (At(th, "log_step") => status[thread[th].wf] # "deleted")
    <3>1. /\ AfterLog[thread[th].pc] \in Places \ {"crash"}
          /\ AfterLog[thread[th].pc] \in Last => thread[th].pc \in Last
          /\ AfterLog[thread[th].pc] = "execute" => At(th, "log_step")
          /\ AfterLog[thread[th].pc] \in InStep => thread[th].pc \in InStep
          BY <2>1, PlacesAre DEF AfterLog, Last, At, InStep
    <3>. QED  BY <1>0, <2>1, <2>3, <3>1, QuietStep
  <2>. QED  BY <1>3, <2>2, <2>3 DEF AddLog, LogRefused, At
<1>4. CASE Check(th)
  <2>1. /\ At(th, "check") /\ ~At(th, "free") /\ status' = status /\ faults' = faults
        /\ thread[th].idx \in 0..Steps /\ Steps \in Nat
    <3>1. At(th, "check") /\ ~At(th, "free") /\ status' = status /\ faults' = faults
          BY <1>4 DEF Check, At
    <3>. QED  BY <1>0, <3>1, ThreadIs, StepsAssumption DEF Busy
  <2>2. CASE Goto(th, "complete") \/ Goto(th, "stop")
        BY <1>0, <2>1, <2>2, QuietStep, PlacesAre DEF Last, InStep
  <2>3. CASE Goto(th, "mark") /\ thread[th].idx # Steps
    <3>1. thread[th].idx < Steps
          BY <2>1, <2>3
    <3>. QED  BY <1>0, <2>1, <2>3, <3>1, QuietStep, PlacesAre DEF Last, InStep
  <2>. QED  BY <1>4, <2>2, <2>3 DEF Check
<1>5. CASE MarkStep(th)
  <2>1. Write(th, "mark", "running", "log_step") /\ thread[th].idx < Steps
        BY <1>0, <1>5 DEF MarkStep, Write, At, InStep
  <2>. QED  BY <1>0, <2>1, WritingStep, PlacesAre DEF Statuses, Last
<1>6. CASE Execute(th)
      BY <1>0, <1>6, QuietStep, PlacesAre DEF Execute, At, Last, InStep
<1>7. CASE Advance(th)
  <2>1. /\ thread[th] \in Busy /\ thread[th].pc = "advance" /\ thread[th].idx < Steps
        /\ thread[th].idx \in Nat
        /\ thread \in [Threads -> Busy \cup {Free}]
        BY <1>0, <1>7, ThreadIs DEF Advance, At, TypeOK, InStep, Busy
  <2>2. [thread[th] EXCEPT !.pc = "check", !.idx = thread[th].idx + 1] \in Busy
    <3>1. thread[th].idx + 1 \in 0..Steps
          BY <2>1, StepsAssumption
    <3>. QED  BY <2>1, <3>1, PlacesAre DEF Busy
  <2>3. Moved(th, "check") /\ thread'[th].pc = "check"
        BY <1>7, <2>1, <2>2 DEF Advance, Moved, Busy, At
  <2>4. RowKept(thread[th].wf)
        BY <1>0, <1>7, BoundsAssumption DEF RowKept, Advance, TypeOK
  <2>5. Reasons(thread[th].wf, thread[th].pc, "check", thread'[th].idx)
        BY <1>7 DEF Reasons, Advance, Last, InStep
  <2>. QED  BY <2>3, <2>4, <2>5 DEF GoesOn
<1>8. CASE Stop(th)
  <2>1. Write(th, "stop", "stopped", "log_stop")
        BY <1>8 DEF Stop
  <2>. QED  BY <1>0, <2>1, WritingStep, PlacesAre DEF Statuses, Last, InStep
<1>9. CASE Fail(th)
  <2>1. Write(th, "fail", "failed", "drop_flag")
        BY <1>9 DEF Fail
  <2>. QED  BY <1>0, <2>1, WritingStep, PlacesAre DEF Statuses, Last, InStep
<1>10. CASE Complete(th)
  <2>1. Write(th, "complete", "completed", "log_done")
        BY <1>10 DEF Complete
  <2>. QED  BY <1>0, <2>1, WritingStep, PlacesAre DEF Statuses, Last, InStep
<1>11. CASE RecordCrash(th)
  <2>1. Write(th, "crash", "failed", "log_crash")
        BY <1>11 DEF RecordCrash
  <2>. QED  BY <1>0, <2>1, WritingStep, PlacesAre DEF Statuses, Last, InStep
<1>12. CASE DropFlag(th)
      BY <1>12 DEF DropFlag, Ends
<1>13. CASE ThreadFault(th)
  <2>1. /\ thread[th].pc \in DOMAIN AfterLog \cup
             {"load", "mark", "execute", "stop", "fail", "complete", "crash"}
        /\ status' = status /\ faults' = faults + 1 /\ faults \in Nat /\ ~At(th, "free")
        BY <1>0, <1>13, PlacesAre, BoundsAssumption DEF ThreadFault, At, TypeOK
  <2>2. CASE At(th, "log_crash") /\ Goto(th, "drop_flag")
        BY <1>0, <2>1, <2>2, FaultStep DEF At, Last
  <2>3. CASE At(th, "crash") /\ Goto(th, "drop_flag")
    <3>1. status[thread[th].wf] = "deleted" \/ faults' > 1
          BY <2>1, <2>3 DEF EngineInv, CrashCause
    <3>. QED  BY <1>0, <2>1, <2>3, <3>1, FaultStep
  <2>4. CASE Goto(th, "crash")
        BY <1>0, <2>1, <2>4, FaultStep DEF Last
  <2>. QED  BY <1>13, <2>2, <2>3, <2>4 DEF ThreadFault, At
<1>. QED  BY <1>1, <1>2, <1>3, <1>4, <1>5, <1>6, <1>7, <1>8, <1>9, <1>10, <1>11, <1>12,
             <1>13 DEF ThreadStep

(* What else a thread may touch.                                           *)
LEMMA ThreadTouches ==
    ASSUME TypeOK, NEW th \in Threads, ThreadStep(th) \/ ThreadFault(th)
    PROVE  /\ flag' \in [Workflows -> {"absent", "go", "halt"}]
           /\ faults' \in 0..MaxFaults /\ UNCHANGED <<handler, restarts>>
           /\ late' \in [Threads -> Nat] /\ \A u \in Threads \ {th} : late'[u] = late[u]
<1>0. CountLate(th) \/ late' = late \/ late' = [late EXCEPT ![th] = 0]
      => late' \in [Threads -> Nat] /\ \A u \in Threads \ {th} : late'[u] = late[u]
      BY DEF CountLate, TypeOK
<1>1. CASE RaiseFlag(th) \/ DropFlag(th)
  <2>1. thread[th] \in Busy
        BY <1>1, ThreadIs DEF RaiseFlag, DropFlag, At
  <2>. QED  BY <1>0, <1>1, <2>1 DEF RaiseFlag, DropFlag, TypeOK, Busy
<1>2. CASE ThreadFault(th)
      BY <1>0, <1>2, BoundsAssumption DEF ThreadFault, TypeOK
<1>3. CASE ~RaiseFlag(th) /\ ~DropFlag(th) /\ ~ThreadFault(th)
      BY <1>0, <1>3 DEF ThreadStep, Load, AddLog, Check, MarkStep, Execute, Advance, Stop, Fail,
                  Complete, RecordCrash, Write, TypeOK
<1>. QED  BY <1>1, <1>2, <1>3

-----------------------------------------------------------------------------
(* The invariant                                                           *)

LEMMA EndKeeps ==
    ASSUME EngineInv, NEW th \in Threads, Ends(th), TypeOK',
           UNCHANGED <<handler, restarts>>
    PROVE  EngineInv'
<1>1. /\ thread[th].pc = "drop_flag" /\ thread'[th] = Free
      /\ \A u \in Threads \ {th} : thread'[u] = thread[u]
      /\ status' = status /\ faults' = faults
      BY DEF Ends, At, EngineInv, TypeOK
<1>2. StepsLeft' /\ CrashCause' /\ OfRows'
      BY <1>1 DEF EngineInv, StepsLeft, CrashCause, OfRows, At, Free, InStep
<1>3. \A u \in Threads, w \in Workflows : Working(u, w) => Working(u, w)'
      BY <1>1 DEF Working, Live
<1>. QED  BY <1>1, <1>2, <1>3 DEF EngineInv, RunningHasThread

LEMMA GoingOnKeeps ==
    ASSUME EngineInv, NEW th \in Threads, GoesOn(th), TypeOK',
           UNCHANGED <<handler, restarts>>
    PROVE  EngineInv'
<1>. DEFINE w == thread[th].wf
<1>1. /\ w \in Workflows /\ thread'[th].wf = w
      /\ \A u \in Threads \ {th} : thread'[u] = thread[u]
      /\ ~At(th, "free") /\ ~At(th, "free")'
      BY DEF GoesOn, Moved
<1>2. /\ \A v \in Workflows \ {w} : status'[v] = status[v]
      /\ (status[w] \in {"none", "deleted"} \/ status'[w] \in {"none", "deleted"})
            => status'[w] = status[w]
      /\ faults \in Nat /\ faults' \in Nat /\ faults' >= faults
      BY BoundsAssumption DEF GoesOn, RowKept, EngineInv, TypeOK
<1>3. /\ status'[w] = "running" /\ status[w] # "running" => thread'[th].pc \notin Last
      /\ thread'[th].pc = "crash" /\ faults' = 0 => status[w] = "deleted"
      /\ thread'[th].pc \in Last /\ thread[th].pc \notin Last
            => status'[w] # "running" \/ faults' > 1
      /\ thread'[th].pc \in InStep => thread'[th].idx < Steps
      BY DEF GoesOn, Reasons
<1>4. \A v \in Workflows : status[v] \in {"none", "deleted"} \/ status'[v] \in {"none", "deleted"}
                             => status'[v] = status[v]
      BY <1>2
<1>5. ASSUME NEW u \in Threads, u # th, ~At(u, "free")
      PROVE  thread[u].wf \in Workflows
      BY <1>5, ThreadIs DEF EngineInv, Busy
<1>6. StepsLeft'
      BY <1>1, <1>3 DEF EngineInv, StepsLeft
<1>7. CrashCause'
  <2>. SUFFICES ASSUME NEW u \in Threads, thread'[u].pc = "crash", faults' = 0
                PROVE  status'[thread'[u].wf] = "deleted"
       BY DEF CrashCause, At
  <2>1. CASE u = th
        BY <1>1, <1>3, <1>4, <2>1
  <2>2. CASE u # th
    <3>1. thread'[u] = thread[u] /\ faults = 0
          BY <1>1, <1>2, <2>2
    <3>2. status[thread[u].wf] = "deleted"
          BY <3>1 DEF EngineInv, CrashCause, At
    <3>. QED  BY <1>4, <1>5, <2>2, <3>1, <3>2 DEF At
  <2>. QED  BY <2>1, <2>2
<1>8. OfRows'
  <2>1. ASSUME NEW u \in Threads, thread'[u].pc # "free"
        PROVE  status'[thread'[u].wf] # "none"
    <3>1. CASE u = th
          BY <1>1, <1>4, <3>1 DEF EngineInv, OfRows
    <3>2. CASE u # th
          BY <1>1, <1>4, <1>5, <2>1, <3>2 DEF EngineInv, OfRows, At
    <3>. QED  BY <3>1, <3>2
  <2>2. handler' # Idle => status'[handler'.wf] # "none"
    <3>1. handler # Idle => handler.wf \in Workflows
          BY DEF EngineInv, TypeOK
    <3>. QED  BY <1>4, <3>1 DEF EngineInv, OfRows
  <2>. QED  BY <2>1, <2>2 DEF OfRows, At
<1>9. RunningHasThread'
  <2>. SUFFICES ASSUME restarts' = 0, faults' <= 1, NEW v \in Workflows, status'[v] = "running"
                PROVE  \E u \in Threads : Working(u, v)'
       BY DEF RunningHasThread
  <2>1. \A u \in Threads \ {th} : Working(u, v) => Working(u, v)'
        BY <1>1 DEF Working, Live
  <2>2. status[v] = "running" => \E u \in Threads : Working(u, v)
        BY <1>2 DEF EngineInv, RunningHasThread
  <2>3. CASE v # w
    <3>1. status[v] = "running" /\ ~Working(th, v)
          BY <1>2, <2>3 DEF Working, Live
    <3>. QED  BY <2>1, <2>2, <3>1
  <2>4. CASE v = w
    <3>1. ~(faults' > 1)
          BY <1>2
    <3>2. CASE status[w] # "running"
          BY <1>1, <1>3, <2>4, <3>2 DEF Working, Live, Last, At
    <3>3. CASE Working(th, w)
          BY <1>1, <1>3, <2>4, <3>1, <3>3 DEF Working, Live, Last, At
    <3>4. CASE status[w] = "running" /\ ~Working(th, w)
          BY <2>1, <2>2, <2>4, <3>4
    <3>. QED  BY <3>2, <3>3, <3>4
  <2>. QED  BY <2>3, <2>4
<1>. QED  BY <1>6, <1>7, <1>8, <1>9 DEF EngineInv

LEMMA ThreadKeeps ==
    ASSUME EngineInv, NEW th \in Threads, ThreadStep(th) \/ ThreadFault(th)
    PROVE  EngineInv'
<1>1. TypeOK
      BY DEF EngineInv
<1>2. CASE Ends(th)
  <2>1. thread' \in [Threads -> Busy \cup {Free}] /\ status' = status
        BY <1>1, <1>2 DEF Ends, TypeOK, Busy
  <2>2. TypeOK'
        BY <1>1, <2>1, ThreadTouches DEF TypeOK, Busy
  <2>. QED  BY <1>1, <1>2, <2>2, EndKeeps, ThreadTouches
<1>3. CASE GoesOn(th)
  <2>1. thread' \in [Threads -> Busy \cup {Free}] /\ status' \in [Workflows -> Statuses]
        BY <1>3 DEF GoesOn, Moved, RowKept
  <2>2. TypeOK'
        BY <1>1, <2>1, ThreadTouches DEF TypeOK, Busy
  <2>. QED  BY <1>1, <1>3, <2>2, GoingOnKeeps, ThreadTouches
<1>. QED  BY <1>2, <1>3, ThreadMoves

(* A row that appears, stops or goes takes no thread away.                 *)
LEMMA RowKeeps ==
    ASSUME EngineInv, NEW w \in Workflows, NEW s \in Statuses \ {"none", "running"},
           status' = [status EXCEPT ![w] = s],
           status[w] = "deleted" => s = "deleted",
           thread' = thread, flag' = flag, handler' \in {handler, Idle},
           UNCHANGED <<late, faults, restarts>>
    PROVE  EngineInv'
<1>1. \A v \in Workflows : status'[v] = IF v = w THEN s ELSE status[v]
      BY DEF EngineInv, TypeOK
<1>2. TypeOK'
      BY DEF EngineInv, TypeOK
<1>3. \A th \in Threads : ~At(th, "free") => thread[th].wf \in Workflows
      BY ThreadIs DEF EngineInv, Busy
<1>4. StepsLeft'
      BY DEF EngineInv, StepsLeft
<1>5. CrashCause'
  <2>1. \A th \in Threads : At(th, "crash") => thread[th].wf \in Workflows
        BY <1>3 DEF At
  <2>. QED  BY <1>1, <2>1 DEF EngineInv, CrashCause, At
<1>6. OfRows'
  <2>1. handler # Idle => handler.wf \in Workflows
        BY DEF EngineInv, TypeOK
  <2>. QED  BY <1>1, <1>3, <2>1 DEF EngineInv, OfRows, At
<1>7. RunningHasThread'
      BY <1>1 DEF EngineInv, RunningHasThread, Working, Live
<1>. QED  BY <1>2, <1>4, <1>5, <1>6, <1>7 DEF EngineInv

(* A request is taken up, or dropped.                                      *)
LEMMA RequestKeeps ==
    ASSUME EngineInv, UNCHANGED <<status, thread, restarts>>, TypeOK',
           faults' >= faults,
           \/ handler' = Idle \/ handler' = handler
           \/ \E w \in Workflows, op \in {"start", "stop_flag", "stop_row", "delete"} :
                handler' = [op |-> op, wf |-> w] /\ status[w] # "none"
    PROVE  EngineInv'
<1>1. faults \in Nat /\ faults' \in Nat
      BY BoundsAssumption DEF EngineInv, TypeOK
<1>2. StepsLeft' /\ CrashCause' /\ RunningHasThread'
      BY <1>1 DEF EngineInv, StepsLeft, CrashCause, RunningHasThread, Working, Live, At
<1>3. OfRows'
      BY DEF EngineInv, OfRows, At
<1>. QED  BY <1>2, <1>3 DEF EngineInv

LEMMA StartKeeps ==
    ASSUME EngineInv, NEW w \in Workflows, Start(w)
    PROVE  EngineInv'
<1>1. PICK th \in Threads :
        /\ At(th, "free")
        /\ thread' = [thread EXCEPT ![th] = [pc |-> "raise_flag", wf |-> w, idx |-> 0]]
      BY DEF Start
<1>2. status[w] # "none" /\ handler.wf = w /\ handler' = Idle
      /\ UNCHANGED <<flag, late, faults, restarts>>
  <2>1. handler = [op |-> "start", wf |-> w] /\ handler # Idle
        BY DEF Start, Serving, Idle
  <2>. QED  BY <2>1 DEF EngineInv, OfRows, Start
<1>3. /\ status' \in [Workflows -> Statuses]
      /\ \A v \in Workflows \ {w} : status'[v] = status[v]
      /\ status'[w] # "none" /\ (status[w] = "deleted" => status'[w] = "deleted")
  <2>1. status \in [Workflows -> Statuses] /\ SetStatus(w, "running")
        BY DEF EngineInv, TypeOK, Start
  <2>. QED  BY <1>2, <2>1 DEF SetStatus, Exists, Statuses
<1>4. [pc |-> "raise_flag", wf |-> w, idx |-> 0] \in Busy
      BY StepsAssumption, PlacesAre DEF Busy
<1>5. /\ thread' \in [Threads -> Busy \cup {Free}]
      /\ thread'[th] = [pc |-> "raise_flag", wf |-> w, idx |-> 0]
      /\ \A u \in Threads \ {th} : thread'[u] = thread[u]
      BY <1>1, <1>4 DEF EngineInv, TypeOK, Busy
<1>6. TypeOK'
      BY <1>2, <1>3, <1>5 DEF EngineInv, TypeOK, Busy
<1>7. \A u \in Threads : ~At(u, "free") => thread[u].wf \in Workflows
      BY ThreadIs DEF EngineInv, Busy
<1>8. StepsLeft'
      BY <1>5 DEF EngineInv, StepsLeft, InStep
<1>9. CrashCause'
  <2>1. \A u \in Threads : At(u, "crash") => thread[u].wf \in Workflows
        BY <1>7 DEF At
  <2>. QED  BY <1>2, <1>3, <1>5, <2>1 DEF EngineInv, CrashCause, At
<1>10. OfRows'
       BY <1>2, <1>3, <1>5, <1>7 DEF EngineInv, OfRows, At
<1>11. RunningHasThread'
  <2>. SUFFICES ASSUME restarts' = 0, faults' <= 1, NEW v \in Workflows, status'[v] = "running"
                PROVE  \E u \in Threads : Working(u, v)'
       BY DEF RunningHasThread
  <2>1. Working(th, w)'
        BY <1>5 DEF Working, Live
  <2>2. CASE v # w
    <3>1. PICK u \in Threads : Working(u, v)
          BY <1>2, <1>3, <2>2 DEF EngineInv, RunningHasThread
    <3>2. u # th
          BY <1>1, <3>1 DEF Working, Live, At
    <3>. QED  BY <1>5, <3>1, <3>2 DEF Working, Live
  <2>. QED  BY <2>1, <2>2
<1>. QED  BY <1>6, <1>8, <1>9, <1>10, <1>11 DEF EngineInv

LEMMA HandlerKeeps ==
    ASSUME EngineInv, NEW w \in Workflows,
           \/ Create(w) \/ StartGuard(w) \/ StopGuard(w) \/ DeleteGuard(w) \/ HandlerStep(w)
    PROVE  EngineInv'
<1>0. TypeOK
      BY DEF EngineInv
<1>1. CASE Create(w)
      BY <1>1, RowKeeps DEF Create, Statuses
<1>2. CASE StartGuard(w) \/ StopGuard(w) \/ DeleteGuard(w)
  <2>1. PICK op \in {"start", "stop_flag", "stop_row", "delete"} :
          Begin(op, w) /\ status[w] # "none"
        BY <1>2 DEF StartGuard, StopGuard, DeleteGuard, Exists
  <2>2. UNCHANGED <<status, flag, thread, late, faults, restarts>>
        BY <1>2 DEF StartGuard, StopGuard, DeleteGuard
  <2>3. TypeOK'
        BY <1>0, <2>1, <2>2 DEF Begin, TypeOK
  <2>4. faults' >= faults
        BY <1>0, <2>2, BoundsAssumption DEF TypeOK
  <2>. QED  BY <2>1, <2>2, <2>3, <2>4, RequestKeeps DEF Begin
<1>3. CASE StopFlag(w)
  <2>1. /\ UNCHANGED <<status, thread, late, faults, restarts>> /\ handler' = Idle
        /\ flag' \in [Workflows -> {"absent", "go", "halt"}]
        BY <1>0, <1>3 DEF StopFlag, TypeOK
  <2>2. TypeOK' /\ faults' >= faults
        BY <1>0, <2>1, BoundsAssumption DEF TypeOK
  <2>. QED  BY <2>1, <2>2, RequestKeeps
<1>4. CASE StopRow(w)
  <2>1. CASE status[w] = "running"
        BY <1>4, <2>1, RowKeeps DEF StopRow, Statuses
  <2>2. CASE status[w] # "running"
    <3>1. UNCHANGED <<status, flag, thread, late, faults, restarts>> /\ handler' = Idle
          BY <1>4, <2>2 DEF StopRow
    <3>2. TypeOK' /\ faults' >= faults
          BY <1>0, <3>1, BoundsAssumption DEF TypeOK
    <3>. QED  BY <3>1, <3>2, RequestKeeps
  <2>. QED  BY <2>1, <2>2
<1>5. CASE Delete(w)
      BY <1>5, RowKeeps DEF Delete, Statuses
<1>. QED  BY <1>1, <1>2, <1>3, <1>4, <1>5, StartKeeps DEF HandlerStep

LEMMA RestartKeeps == ASSUME EngineInv, Restart PROVE EngineInv'
<1>1. restarts \in Nat /\ restarts' = restarts + 1 /\ restarts < MaxRestarts
      /\ status' = status /\ faults' = faults /\ handler' = Idle
      /\ \A th \in Threads : thread'[th] = Free
      BY BoundsAssumption DEF EngineInv, TypeOK, Restart
<1>2. TypeOK'
  <2>1. restarts' \in 0..MaxRestarts
        BY <1>1, BoundsAssumption
  <2>. QED  BY <2>1 DEF EngineInv, TypeOK, Restart
<1>3. StepsLeft' /\ CrashCause' /\ OfRows'
      BY <1>1 DEF StepsLeft, InStep, CrashCause, OfRows, At, Free
<1>4. RunningHasThread'
      BY <1>1 DEF RunningHasThread
<1>. QED  BY <1>2, <1>3, <1>4 DEF EngineInv

LEMMA InvKept == EngineInv /\ [Next]_vars => EngineInv'
<1>. SUFFICES ASSUME EngineInv, [Next]_vars PROVE EngineInv'
     OBVIOUS
<1>1. CASE HandlerFault
  <2>1. /\ UNCHANGED <<status, flag, thread, late, restarts>> /\ handler' = Idle
        /\ faults' = faults + 1 /\ faults < MaxFaults /\ faults \in Nat
        BY <1>1, BoundsAssumption DEF HandlerFault, EngineInv, TypeOK
  <2>2. faults' \in 0..MaxFaults /\ faults' >= faults
        BY <2>1, BoundsAssumption
  <2>3. TypeOK'
        BY <2>1, <2>2 DEF EngineInv, TypeOK
  <2>. QED  BY <2>1, <2>2, <2>3, RequestKeeps
<1>2. CASE UNCHANGED vars
  <2>1. TypeOK' /\ faults' >= faults
        BY <1>2, BoundsAssumption DEF vars, EngineInv, TypeOK
  <2>. QED  BY <1>2, <2>1, RequestKeeps DEF vars
<1>. QED  BY <1>1, <1>2, HandlerKeeps, ThreadKeeps, RestartKeeps DEF Next

LEMMA EngineInvariant == Spec => []EngineInv
BY InitialInv, InvKept, PTL DEF Spec

-----------------------------------------------------------------------------
(* Threads of a deleted workflow                                           *)

Leaving == {"log_ok", "log_error", "crash", "log_crash", "drop_flag"}

LateIsLeaving ==
    \A th \in Threads : late[th] # 0 =>
        /\ late[th] = 1 /\ thread[th].pc \in Leaving
        /\ status[thread[th].wf] = "deleted"

(* The log refuses what such a thread writes, so it comes to no other step.*)
LEMMA LateThread ==
    ASSUME EngineInv, LateIsLeaving, NEW th \in Threads, ThreadStep(th) \/ ThreadFault(th),
           late'[th] # 0
    PROVE  /\ late'[th] = 1 /\ thread'[th].pc \in Leaving
           /\ status[thread[th].wf] = "deleted"
<1>0. late \in [Threads -> Nat] /\ TypeOK
      BY DEF EngineInv, TypeOK
<1>1. CASE late[th] # 0
  <2>1. /\ late[th] = 1 /\ thread[th].pc \in Leaving
        /\ status[thread[th].wf] = "deleted"
        BY <1>1 DEF LateIsLeaving
  <2>2. AddLog(th) \/ RecordCrash(th) \/ DropFlag(th) \/ ThreadFault(th)
        BY <2>1 DEF Leaving, ThreadStep, RaiseFlag, Load, Check, MarkStep, Execute, Advance,
              Stop, Fail, Complete, Write, At
  <2>3. ~DropFlag(th)
        BY <1>0 DEF DropFlag
  <2>4. late' = late
        BY <2>1, <2>2, <2>3
        DEF AddLog, RecordCrash, Write, ThreadFault, CountLate, At, Leaving
  <2>5. \E pc \in {"crash", "log_crash", "drop_flag"} : Goto(th, pc)
        BY <2>1, <2>2, <2>3
        DEF AddLog, RecordCrash, Write, ThreadFault, AfterLog, LogRefused, At, Leaving
  <2>6. PICK pc \in {"crash", "log_crash", "drop_flag"} : Goto(th, pc)
        BY <2>5
  <2>7. ~At(th, "free") /\ pc \in Places
        BY <2>1, PlacesAre DEF At, Leaving, Places, AfterLog
  <2>8. thread'[th].pc = pc
        BY <1>0, <2>6, <2>7, GotoMoves DEF Moved
  <2>. QED  BY <2>1, <2>4, <2>8 DEF Leaving
<1>2. CASE late[th] = 0
  <2>1. Execute(th) \/ ThreadFault(th)
        BY <1>0, <1>2 DEF ThreadStep, RaiseFlag, Load, AddLog, Check, MarkStep, Advance, Stop,
              Fail, Complete, RecordCrash, DropFlag, Write
  <2>2. /\ At(th, "execute") /\ ~Exists(thread[th].wf)
        /\ late' = [late EXCEPT ![th] = late[th] + 1]
        BY <1>2, <2>1 DEF Execute, ThreadFault, CountLate
  <2>3. late'[th] = 1
        BY <1>0, <1>2, <2>2
  <2>4. status[thread[th].wf] = "deleted"
        BY <2>2 DEF EngineInv, OfRows, Exists, At
  <2>5. \E pc \in {"log_ok", "log_error", "crash"} : Goto(th, pc)
        BY <2>1, <2>2 DEF Execute, ThreadFault, At
  <2>6. PICK pc \in {"log_ok", "log_error", "crash"} : Goto(th, pc)
        BY <2>5
  <2>7. ~At(th, "free") /\ pc \in Places
        BY <2>2, PlacesAre DEF At, Places, AfterLog
  <2>8. thread'[th].pc = pc
        BY <1>0, <2>6, <2>7, GotoMoves DEF Moved
  <2>. QED  BY <2>3, <2>4, <2>8 DEF Leaving
<1>. QED  BY <1>1, <1>2

(* A deleted row stays deleted, and threads keep their workflow.           *)
LEMMA LateKept == EngineInv /\ LateIsLeaving /\ [Next]_vars => LateIsLeaving'
<1>. SUFFICES ASSUME EngineInv, LateIsLeaving, [Next]_vars,
                     NEW th \in Threads, late'[th] # 0
              PROVE  /\ late'[th] = 1 /\ thread'[th].pc \in Leaving
                     /\ status'[thread'[th].wf] = "deleted"
     BY DEF LateIsLeaving
<1>0. TypeOK /\ late \in [Threads -> Nat] /\ status \in [Workflows -> Statuses]
      BY DEF EngineInv, TypeOK
<1>1. late[th] # 0 => /\ late[th] = 1 /\ thread[th].pc \in Leaving
                      /\ status[thread[th].wf] = "deleted"
                      /\ thread[th].wf \in Workflows
      BY <1>0, ThreadIs DEF LateIsLeaving, Leaving, At, Busy
<1>2. ASSUME late' = late, thread'[th] = thread[th],
             \A w \in Workflows : status[w] = "deleted" => status'[w] = "deleted"
      PROVE  /\ late'[th] = 1 /\ thread'[th].pc \in Leaving
             /\ status'[thread'[th].wf] = "deleted"
      BY <1>1, <1>2
<1>3. ASSUME NEW u \in Threads, ThreadStep(u) \/ ThreadFault(u)
      PROVE  /\ late'[th] = 1 /\ thread'[th].pc \in Leaving
             /\ status'[thread'[th].wf] = "deleted"
  <2>1. CASE Ends(u)
    <3>1. status' = status /\ \A v \in Threads \ {u} : thread'[v] = thread[v]
          BY <1>0, <2>1 DEF Ends, TypeOK
    <3>2. CASE u = th
      <4>1. thread'[th].pc = "free" /\ thread'[th].pc \in Leaving
            BY <1>0, <1>3, <2>1, <3>2, LateThread DEF Ends, Free, TypeOK
      <4>. QED  BY <4>1 DEF Leaving
    <3>3. CASE u # th
      <4>1. late'[th] = late[th]
            BY <1>0, <1>3, <3>3, ThreadTouches
      <4>. QED  BY <1>1, <3>1, <3>3, <4>1
    <3>. QED  BY <3>2, <3>3
  <2>2. CASE GoesOn(u)
    <3>1. /\ thread'[u].wf = thread[u].wf /\ thread[u].wf \in Workflows
          /\ \A v \in Threads \ {u} : thread'[v] = thread[v]
          BY <2>2 DEF GoesOn, Moved
    <3>2. \A w \in Workflows : status[w] = "deleted" => status'[w] = "deleted"
          BY <2>2 DEF GoesOn, RowKept
    <3>3. CASE u = th
          BY <1>3, <3>1, <3>2, <3>3, LateThread
    <3>4. CASE u # th
      <4>1. late'[th] = late[th]
            BY <1>0, <1>3, <3>4, ThreadTouches
      <4>. QED  BY <1>1, <3>1, <3>2, <3>4, <4>1
    <3>. QED  BY <3>3, <3>4
  <2>. QED  BY <1>3, <2>1, <2>2, ThreadMoves
<1>4. ASSUME NEW w \in Workflows, Start(w)
      PROVE  /\ late'[th] = 1 /\ thread'[th].pc \in Leaving
             /\ status'[thread'[th].wf] = "deleted"
  <2>1. PICK u \in Threads :
          /\ At(u, "free")
          /\ thread' = [thread EXCEPT ![u] = [pc |-> "raise_flag", wf |-> w, idx |-> 0]]
        BY <1>4 DEF Start
  <2>2. late' = late /\ u # th
        BY <1>1, <1>4, <2>1 DEF Start, Leaving, At
  <2>3. thread'[th] = thread[th]
        BY <2>1, <2>2, <1>0 DEF TypeOK
  <2>4. \A v \in Workflows : status[v] = "deleted" => status'[v] = "deleted"
        BY <1>0, <1>4 DEF Start, SetStatus, Exists
  <2>. QED  BY <1>2, <2>2, <2>3, <2>4
<1>5. ASSUME NEW w \in Workflows,
             \/ Create(w) \/ StartGuard(w) \/ StopGuard(w) \/ DeleteGuard(w)
             \/ StopFlag(w) \/ StopRow(w) \/ Delete(w)
      PROVE  /\ late'[th] = 1 /\ thread'[th].pc \in Leaving
             /\ status'[thread'[th].wf] = "deleted"
  <2>1. late' = late /\ thread' = thread
        BY <1>5 DEF Create, StartGuard, StopGuard, DeleteGuard, StopFlag, StopRow, Delete
  <2>2. \A v \in Workflows : status[v] = "deleted" => status'[v] = "deleted"
        BY <1>0, <1>5
        DEF Create, StartGuard, StopGuard, DeleteGuard, StopFlag, StopRow, Delete
  <2>. QED  BY <1>2, <2>1, <2>2
<1>6. CASE HandlerFault \/ UNCHANGED vars
      BY <1>2, <1>6 DEF HandlerFault, vars
<1>7. ASSUME Restart PROVE FALSE
      BY <1>7 DEF Restart
<1>. QED  BY <1>3, <1>4, <1>5, <1>6, <1>7 DEF Next, HandlerStep

-----------------------------------------------------------------------------
(* The theorems                                                            *)

(* Rows, flags, threads and requests keep their types, and no thread       *)
(* counts past the last step of its workflow.                              *)
THEOREM WorkflowTypeCorrect == Spec => []TypeOK
<1>1. EngineInv => TypeOK
      BY DEF EngineInv
<1>. QED  BY <1>1, EngineInvariant, PTL

(* For any number of threads and workflows: while the process lives and at *)
(* most one statement or step has failed, a row that says running has a    *)
(* thread that will write how it ended.                                    *)
THEOREM WorkflowRunningHasThread == Spec => []RunningHasThread
<1>1. EngineInv => RunningHasThread
      BY DEF EngineInv
<1>. QED  BY <1>1, EngineInvariant, PTL

(* For any number of threads and steps: a delete leaves every thread of    *)
(* its workflow at most the step it had logged, whatever requests, faults  *)
(* and restarts come before and after.                                     *)
THEOREM WorkflowDeletedEndsWithStep == Spec => []DeletedEndsWithStep
<1>1. Init => LateIsLeaving
      BY DEF Init, LateIsLeaving
<1>2. EngineInv /\ LateIsLeaving => DeletedEndsWithStep
  <2>. SUFFICES ASSUME EngineInv, LateIsLeaving, NEW th \in Threads
                PROVE  late[th] <= 1
       BY DEF DeletedEndsWithStep
  <2>1. late[th] = 0 \/ late[th] = 1
        BY DEF LateIsLeaving
  <2>. QED  BY <2>1
<1>. QED  BY <1>1, <1>2, EngineInvariant, LateKept, PTL DEF Spec
=============================================================================
