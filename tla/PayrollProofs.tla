--------------------------- MODULE PayrollProofs ---------------------------
(***************************************************************************)
(* Theorems about PayrollRuns, for any number of handlers, runs, periods,  *)
(* keys and aborted requests, and, at the end, about requests served one   *)
(* after the other, which implement PayrollLifecycle.                      *)
(***************************************************************************)
EXTENDS PayrollSerial, TLAPS

-----------------------------------------------------------------------------
(* Type correctness                                                        *)

LEMMA InitType == Init => TypeOK
<1> SUFFICES ASSUME Init PROVE TypeOK
    OBVIOUS
<1>1. \A p \in Periods : Fresh(p) \in Row
      BY DEF Fresh, Row, Statuses, Keys
<1>2. runs \in [RunIds -> Row]
      BY <1>1 DEF Init
<1>3. handler \in [Handlers -> Request \cup {NoRequest}]
      BY DEF Init
<1>. QED  BY <1>2, <1>3, MaxAbortsAssumption DEF Init, TypeOK

LEMMA UpdatedType ==
    ASSUME NEW row \in Row, NEW action \in Actions, NEW key \in Keys
    PROVE  Updated(row, action, key) \in Row
<1>1. Target[action] \in Statuses
      BY DEF Target, Actions, Stages, Statuses, Active
<1>2. row.signed \cup ({action} \cap Stages) \in SUBSET Stages
      BY DEF Row
<1>. QED  BY <1>1, <1>2 DEF Row, Updated

(* Each step of a request leaves that handler with a request or with none. *)
LEMMA StepType == TypeOK /\ [Next]_vars => TypeOK'
<1> SUFFICES ASSUME TypeOK, [Next]_vars PROVE TypeOK'
    OBVIOUS
<1> USE DEF TypeOK
<1>1. CASE UNCHANGED vars
      BY <1>1 DEF vars
<1>2. ASSUME NEW h \in Handlers, NEW p \in Periods, CreateGuard(h, p)
      PROVE  TypeOK'
      BY <1>2 DEF CreateGuard, Create, Request
<1>3. ASSUME NEW h \in Handlers, InsertRun(h)
      PROVE  TypeOK'
  <2>1. handler[h].period \in Periods
        BY <1>3 DEF InsertRun, Request, NoRequest
  <2>2. Draft(handler[h].period) \in Row
        BY <2>1 DEF Draft, Fresh, Row, Statuses, Active, Keys
  <2>3. runs' \in [RunIds -> Row]
        BY <1>3, <2>2 DEF InsertRun
  <2>4. approvalLog' \subseteq RunIds \X (Actions \cup {"created"})
        BY <1>3 DEF InsertRun
  <2>. QED  BY <1>3, <2>3, <2>4 DEF InsertRun, Finish
<1>4. ASSUME NEW h \in Handlers, NEW r \in RunIds, NEW a \in Actions \ {"pay"},
             BeginTransition(h, a, r)
      PROVE  TypeOK'
  <2>1. runs[r].period \in Periods
        BY DEF Row
  <2>. QED  BY <1>4, <2>1 DEF BeginTransition, Serve, Request, Keys
<1>5. ASSUME NEW h \in Handlers, NEW r \in RunIds, NEW k \in Keys, PayGuard(h, r, k)
      PROVE  TypeOK'
  <2>1. runs[r].period \in Periods
        BY DEF Row
  <2>. QED  BY <1>5, <2>1 DEF PayGuard, Serve, Request, Actions, Stages
<1>6. ASSUME NEW h \in Handlers, NEW r \in RunIds, CorrectGuard(h, r)
      PROVE  TypeOK'
  <2>1. runs[r].period \in Periods
        BY DEF Row
  <2>. QED  BY <1>6, <2>1 DEF CorrectGuard, Serve, Request, Keys
<1>7. ASSUME NEW h \in Handlers, ReadRun(h)
      PROVE  TypeOK'
  <2>1. [handler[h] EXCEPT !.pc = "update"] \in Request
        BY <1>7 DEF ReadRun, Request, NoRequest
  <2>. QED  BY <1>7, <2>1 DEF ReadRun, Goto, Finish
<1>8. ASSUME NEW h \in Handlers, UpdateRun(h)
      PROVE  TypeOK'
  <2>1. /\ [handler[h] EXCEPT !.pc = "log"] \in Request
        /\ handler[h].run \in RunIds
        /\ handler[h].key \in Keys
        /\ ActionOf(handler[h]) \in Actions
        BY <1>8 DEF UpdateRun, Request, NoRequest, ActionOf, Actions
  <2>2. Updated(runs[handler[h].run], ActionOf(handler[h]), handler[h].key) \in Row
        BY <2>1, UpdatedType
  <2>. QED  BY <1>8, <2>1, <2>2 DEF UpdateRun, Goto, Finish
<1>9. ASSUME NEW h \in Handlers, AppendLog(h)
      PROVE  TypeOK'
  <2>1. /\ [handler[h] EXCEPT !.pc = "recreate"] \in Request
        /\ handler[h].run \in RunIds
        /\ ActionOf(handler[h]) \in Actions
        BY <1>9 DEF AppendLog, Request, NoRequest, ActionOf, Actions
  <2>. QED  BY <1>9, <2>1 DEF AppendLog, Goto, Finish
<1>10. ASSUME NEW h \in Handlers, RecreateGuard(h)
       PROVE  TypeOK'
  <2>1. handler[h].period \in Periods
        BY <1>10 DEF RecreateGuard, Request, NoRequest
  <2>. QED  BY <1>10, <2>1 DEF RecreateGuard, Create, Finish, Request
<1>11. ASSUME NEW h \in Handlers, Abort(h)
       PROVE  TypeOK'
       BY <1>11, MaxAbortsAssumption DEF Abort, Finish
<1>. QED
     BY <1>1, <1>2, <1>3, <1>4, <1>5, <1>6, <1>7, <1>8, <1>9, <1>10, <1>11 DEF Next

(* Every value the engine stores has the shape the code gives it.          *)
THEOREM PayrollTypeCorrect == Spec => []TypeOK
BY InitType, StepType, PTL DEF Spec

-----------------------------------------------------------------------------
(* The two unique indexes                                                  *)

UniqueInv == TypeOK /\ OneActiveRunPerPeriod /\ OneRunPerPayoutKey

LEMMA UniqueStep == UniqueInv /\ [Next]_vars => UniqueInv'
<1> SUFFICES ASSUME UniqueInv, [Next]_vars PROVE UniqueInv'
    OBVIOUS
<1> USE DEF UniqueInv
<1>1. TypeOK'
      BY StepType
<1>2. CASE UNCHANGED runs
      BY <1>1, <1>2 DEF OneActiveRunPerPeriod, OneRunPerPayoutKey
<1>3. ASSUME NEW h \in Handlers, InsertRun(h)
      PROVE  OneActiveRunPerPeriod' /\ OneRunPerPayoutKey'
  <2>1. CASE UNCHANGED runs
        BY <2>1 DEF OneActiveRunPerPeriod, OneRunPerPayoutKey
  <2>2. CASE ~UNCHANGED runs
    <3> DEFINE new == Draft(handler[h].period)
    <3>1. PICK id \in RunIds : runs' = [runs EXCEPT ![id] = new]
          BY <1>3, <2>2 DEF InsertRun
    <3>2. new.key = NoKey /\ new.period = handler[h].period
          BY DEF Draft, Fresh
    <3>3. \A r \in RunIds \ {id} : /\ runs'[r] = runs[r]
                                   /\ runs'[id] = new
          BY <3>1 DEF TypeOK
    <3>4. \A r \in RunIds : runs[r].period = handler[h].period
                              => runs[r].status \notin Active
          BY <1>3, <2>2 DEF InsertRun, HasActiveRun
    <3>5. OneActiveRunPerPeriod'
          BY <3>2, <3>3, <3>4 DEF OneActiveRunPerPeriod
    <3>6. OneRunPerPayoutKey'
          BY <3>2, <3>3 DEF OneRunPerPayoutKey
    <3>. QED  BY <3>5, <3>6
  <2>. QED  BY <2>1, <2>2
<1>4. ASSUME NEW h \in Handlers, UpdateRun(h)
      PROVE  OneActiveRunPerPeriod' /\ OneRunPerPayoutKey'
  <2>1. CASE UNCHANGED runs
        BY <2>1 DEF OneActiveRunPerPeriod, OneRunPerPayoutKey
  <2>2. CASE ~UNCHANGED runs
    <3> DEFINE id == handler[h].run
               row == Updated(runs[id], ActionOf(handler[h]), handler[h].key)
    <3>1. /\ ~ViolatesActiveIndex(id, row)
          /\ ~ViolatesKeyIndex(id, row)
          /\ runs' = [runs EXCEPT ![id] = row]
          BY <1>4, <2>2 DEF UpdateRun
    <3>2. \A r \in RunIds \ {id} : runs'[r] = runs[r]
          BY <3>1 DEF TypeOK
    <3>3. id \in RunIds => runs'[id] = row
          BY <3>1 DEF TypeOK
    <3> HIDE DEF id, row
    <3>4. OneActiveRunPerPeriod'
          BY <3>1, <3>2, <3>3 DEF OneActiveRunPerPeriod, ViolatesActiveIndex
    <3>5. OneRunPerPayoutKey'
          BY <3>1, <3>2, <3>3 DEF OneRunPerPayoutKey, ViolatesKeyIndex
    <3>. QED  BY <3>4, <3>5
  <2>. QED  BY <2>1, <2>2
<1>. QED
     BY <1>1, <1>2, <1>3, <1>4
     DEF Next, vars, CreateGuard, BeginTransition, PayGuard, CorrectGuard,
         ReadRun, AppendLog, RecreateGuard, Abort

(* However requests interleave and die, a period has at most one run that  *)
(* is not cancelled: the guards cannot see to it, the index does.          *)
THEOREM PayrollOneActiveRun == Spec => []OneActiveRunPerPeriod
<1>1. Init => UniqueInv
      BY InitType DEF UniqueInv, Init, Fresh, Active, OneActiveRunPerPeriod,
                      OneRunPerPayoutKey
<1>2. UniqueInv => OneActiveRunPerPeriod
      BY DEF UniqueInv
<1>. QED  BY <1>1, <1>2, UniqueStep, PTL DEF Spec

(* ... and a payout idempotency key is stored on at most one run.          *)
THEOREM PayrollOneRunPerKey == Spec => []OneRunPerPayoutKey
<1>1. Init => UniqueInv
      BY InitType DEF UniqueInv, Init, Fresh, Active, OneActiveRunPerPeriod,
                      OneRunPerPayoutKey
<1>2. UniqueInv => OneRunPerPayoutKey
      BY DEF UniqueInv
<1>. QED  BY <1>1, <1>2, UniqueStep, PTL DEF Spec

-----------------------------------------------------------------------------
(* Signatures                                                              *)

(* A row nobody inserted yet carries no signature.                         *)
UnusedRunsUnsigned ==
    \A r \in RunIds : runs[r].status = "absent" => runs[r].signed = {}

(* What a handler holds of an earlier read still says something.  About to *)
(* overwrite a run: the run exists and has every signature the new status  *)
(* needs but the action's own.  About to log: the run has that one too.    *)
HandlersServeSignedRuns ==
    \A h \in Handlers :
        LET action == ActionOf(handler[h])
            row == runs[handler[h].run]
        IN
        /\ handler[h].pc = "update" =>
              /\ row.status # "absent"
              /\ SignaturesOf[Target[action]] \subseteq row.signed \cup {action}
        /\ handler[h].pc = "log" => {action} \cap Stages \subseteq row.signed

SignatureInv ==
    /\ TypeOK
    /\ EveryStageSigned
    /\ LogTellsTruth
    /\ UnusedRunsUnsigned
    /\ HandlersServeSignedRuns

(* The state machine asks for every signature but the one it adds.         *)
LEMMA StageSigns ==
    ASSUME NEW action \in Actions, NEW status \in Statuses,
           Permitted(action, status)
    PROVE  /\ status # "absent"
           /\ SignaturesOf[Target[action]] \subseteq SignaturesOf[status] \cup {action}
BY DEF Actions, Stages, Permitted, Required, Target, SignaturesOf

LEMMA TargetSigned ==
    ASSUME NEW action \in Actions
    PROVE  /\ Target[action] \in Statuses \ {"absent"}
           /\ SignaturesOf[Target[action]] \subseteq Stages
BY DEF Actions, Stages, Target, SignaturesOf, Statuses, Active

LEMMA ActionOfType ==
    ASSUME TypeOK, NEW h \in Handlers, handler[h].pc \in {"read", "update", "log"}
    PROVE  ActionOf(handler[h]) \in Actions /\ handler[h].run \in RunIds
BY DEF TypeOK, Request, NoRequest, ActionOf, Actions

(* No step takes a signature off a run or a run out of the table.          *)
LEMMA SignaturesOnlyGrow ==
    ASSUME SignatureInv, [Next]_vars, NEW r \in RunIds
    PROVE  /\ runs[r].signed \subseteq runs'[r].signed
           /\ runs[r].status # "absent" => runs'[r].status # "absent"
<1> USE DEF SignatureInv
<1>1. CASE UNCHANGED runs
      BY <1>1
<1>2. ASSUME NEW h \in Handlers, InsertRun(h), ~UNCHANGED runs
      PROVE  /\ runs[r].signed \subseteq runs'[r].signed
             /\ runs[r].status # "absent" => runs'[r].status # "absent"
  <2>1. PICK id \in RunIds :
            IsUnused(id) /\ runs' = [runs EXCEPT ![id] = Draft(handler[h].period)]
        BY <1>2 DEF InsertRun
  <2>2. CASE r = id
        BY <2>1, <2>2 DEF IsUnused, UnusedRunsUnsigned
  <2>3. CASE r # id
        BY <2>1, <2>3
  <2>. QED  BY <2>2, <2>3
<1>3. ASSUME NEW h \in Handlers, UpdateRun(h), ~UNCHANGED runs
      PROVE  /\ runs[r].signed \subseteq runs'[r].signed
             /\ runs[r].status # "absent" => runs'[r].status # "absent"
  <2> DEFINE id == handler[h].run
             action == ActionOf(handler[h])
  <2>1. runs' = [runs EXCEPT ![id] = Updated(runs[id], action, handler[h].key)]
        BY <1>3 DEF UpdateRun
  <2>2. action \in Actions
        BY <1>3, ActionOfType DEF UpdateRun
  <2>3. CASE r = id
    <3>1. runs'[r] = Updated(runs[r], action, handler[h].key)
          BY <2>1, <2>3 DEF TypeOK
    <3>2. runs[r] \in Row
          BY DEF TypeOK
    <3>. QED  BY <2>2, <3>1, <3>2, TargetSigned DEF Updated, Row
  <2>4. CASE r # id
        BY <2>1, <2>4 DEF TypeOK
  <2>. QED  BY <2>3, <2>4
<1>. QED
     BY <1>1, <1>2, <1>3
     DEF Next, vars, CreateGuard, BeginTransition, PayGuard, CorrectGuard,
         ReadRun, AppendLog, RecreateGuard, Abort

(* A step that leaves runs and approvalLog alone keeps what they say; what *)
(* is left to show is about the handlers.                                  *)
LEMMA HandlerStep ==
    ASSUME SignatureInv, TypeOK', UNCHANGED <<runs, approvalLog>>,
           NEW h \in Handlers,
           \A other \in Handlers \ {h} : handler'[other] = handler[other],
           \/ handler'[h].pc \notin {"update", "log"}
           \/ /\ handler'[h].pc = "update"
              /\ runs[handler'[h].run].status # "absent"
              /\ SignaturesOf[Target[ActionOf(handler'[h])]]
                   \subseteq runs[handler'[h].run].signed \cup {ActionOf(handler'[h])}
    PROVE  SignatureInv'
<1>1. EveryStageSigned' /\ LogTellsTruth' /\ UnusedRunsUnsigned'
      BY DEF SignatureInv, EveryStageSigned, LogTellsTruth, UnusedRunsUnsigned
<1>2. HandlersServeSignedRuns'
      BY DEF SignatureInv, HandlersServeSignedRuns, ActionOf
<1>. QED  BY <1>1, <1>2 DEF SignatureInv

LEMMA SignatureStep == SignatureInv /\ [Next]_vars => SignatureInv'
<1> SUFFICES ASSUME SignatureInv, [Next]_vars PROVE SignatureInv'
    OBVIOUS
<1>1. TypeOK /\ TypeOK'
      BY StepType DEF SignatureInv
<1>2. CASE UNCHANGED vars
      BY <1>1, <1>2
      DEF vars, SignatureInv, EveryStageSigned, LogTellsTruth, UnusedRunsUnsigned,
          HandlersServeSignedRuns, ActionOf
<1>3. ASSUME NEW h \in Handlers,
             \/ \E p \in Periods : CreateGuard(h, p)
             \/ RecreateGuard(h)
             \/ Abort(h)
             \/ \E r \in RunIds, k \in Keys : PayGuard(h, r, k)
             \/ \E r \in RunIds : CorrectGuard(h, r)
      PROVE  SignatureInv'
  <2>1. handler'[h].pc \notin {"update", "log"}
        BY <1>1, <1>3 DEF TypeOK, CreateGuard, RecreateGuard, Abort, PayGuard,
                         CorrectGuard, Create, Serve, Finish, NoRequest
  <2>2. UNCHANGED <<runs, approvalLog>>
        BY <1>3 DEF CreateGuard, RecreateGuard, Abort, PayGuard, CorrectGuard
  <2>3. \A other \in Handlers \ {h} : handler'[other] = handler[other]
        BY <1>1, <1>3 DEF TypeOK, CreateGuard, RecreateGuard, Abort, PayGuard,
                         CorrectGuard, Create, Serve, Finish
  <2>. QED  BY <1>1, <2>1, <2>2, <2>3, HandlerStep
<1>4. ASSUME NEW h \in Handlers, NEW r \in RunIds, NEW a \in Actions \ {"pay"},
             BeginTransition(h, a, r)
      PROVE  SignatureInv'
  <2>1. /\ handler'[h].pc = "update"
        /\ handler'[h].run = r
        /\ ActionOf(handler'[h]) = a
        BY <1>1, <1>4 DEF TypeOK, BeginTransition, Serve, ActionOf, Actions, Stages
  <2>2. /\ runs[r].status # "absent"
        /\ SignaturesOf[Target[a]] \subseteq SignaturesOf[runs[r].status] \cup {a}
        BY <1>1, <1>4, StageSigns DEF BeginTransition, TypeOK, Row
  <2>3. SignaturesOf[runs[r].status] \subseteq runs[r].signed
        BY DEF SignatureInv, EveryStageSigned
  <2>4. \A other \in Handlers \ {h} : handler'[other] = handler[other]
        BY <1>1, <1>4 DEF TypeOK, BeginTransition, Serve
  <2>. QED  BY <1>1, <1>4, <2>1, <2>2, <2>3, <2>4, HandlerStep DEF BeginTransition
<1>5. ASSUME NEW h \in Handlers, ReadRun(h)
      PROVE  SignatureInv'
  <2> DEFINE r == handler[h].run
             a == ActionOf(handler[h])
  <2>1. \A other \in Handlers \ {h} : handler'[other] = handler[other]
        BY <1>1, <1>5 DEF TypeOK, ReadRun, Goto, Finish
  <2>2. a \in Actions /\ r \in RunIds
        BY <1>1, <1>5, ActionOfType DEF ReadRun
  <2>3. CASE Permitted(a, runs[r].status)
    <3>1. /\ handler'[h].pc = "update"
          /\ handler'[h].run = r
          /\ ActionOf(handler'[h]) = a
          BY <1>1, <1>5, <2>3 DEF TypeOK, ReadRun, Goto, ActionOf, Request, NoRequest
    <3>2. /\ runs[r].status # "absent"
          /\ SignaturesOf[Target[a]] \subseteq SignaturesOf[runs[r].status] \cup {a}
          BY <1>1, <2>2, <2>3, StageSigns DEF TypeOK, Row
    <3>3. SignaturesOf[runs[r].status] \subseteq runs[r].signed
          BY <2>2 DEF SignatureInv, EveryStageSigned
    <3> HIDE DEF r, a
    <3>. QED  BY <1>1, <1>5, <2>1, <3>1, <3>2, <3>3, HandlerStep DEF ReadRun
  <2>4. CASE ~Permitted(a, runs[r].status)
    <3>1. handler'[h].pc \notin {"update", "log"}
          BY <1>1, <1>5, <2>4 DEF TypeOK, ReadRun, Finish, NoRequest
    <3>. QED  BY <1>1, <1>5, <2>1, <3>1, HandlerStep DEF ReadRun
  <2>. QED  BY <2>3, <2>4
<1>6. ASSUME NEW h \in Handlers, InsertRun(h)
      PROVE  SignatureInv'
  <2>1. /\ handler'[h].pc = "idle"
        /\ \A other \in Handlers \ {h} : handler'[other] = handler[other]
        BY <1>1, <1>6 DEF TypeOK, InsertRun, Finish, NoRequest
  <2>2. CASE UNCHANGED <<runs, approvalLog>>
        BY <1>1, <2>1, <2>2, HandlerStep
  <2>3. CASE ~UNCHANGED <<runs, approvalLog>>
    <3>1. PICK id \in RunIds :
              /\ runs[id].status = "absent"
              /\ runs' = [runs EXCEPT ![id] = Draft(handler[h].period)]
              /\ approvalLog' = approvalLog \cup {<<id, "created">>}
          BY <1>6, <2>3 DEF InsertRun, IsUnused
    <3>2. /\ runs'[id].status = "draft"
          /\ runs'[id].signed = {}
          /\ \A r \in RunIds \ {id} : runs'[r] = runs[r]
          BY <1>1, <3>1 DEF TypeOK, Draft, Fresh
    <3>3. runs[id].signed = {}
          BY <3>1 DEF SignatureInv, UnusedRunsUnsigned
    <3>4. EveryStageSigned' /\ UnusedRunsUnsigned'
      <4>1. SignaturesOf["draft"] = {}
            BY DEF SignaturesOf
      <4>. QED  BY <3>2, <4>1
                DEF SignatureInv, EveryStageSigned, UnusedRunsUnsigned
    <3>5. LogTellsTruth'
      <4>1. \A stage \in Stages : stage # "created"
            BY DEF Stages
      <4>. QED  BY <3>1, <3>2, <3>3, <4>1 DEF SignatureInv, LogTellsTruth
    <3>6. HandlersServeSignedRuns'
          BY <1>1, <2>1, <3>2, <3>3, <3>1, ActionOfType
          DEF SignatureInv, HandlersServeSignedRuns, ActionOf
    <3>. QED  BY <1>1, <3>4, <3>5, <3>6 DEF SignatureInv
  <2>. QED  BY <2>2, <2>3
<1>7. ASSUME NEW h \in Handlers, AppendLog(h)
      PROVE  SignatureInv'
  <2> DEFINE id == handler[h].run
             a == ActionOf(handler[h])
  <2>1. a \in Actions /\ id \in RunIds
        BY <1>1, <1>7, ActionOfType DEF AppendLog
  <2>2. {a} \cap Stages \subseteq runs[id].signed
        BY <1>7 DEF AppendLog, SignatureInv, HandlersServeSignedRuns
  <2>3. /\ handler'[h].pc \notin {"update", "log"}
        /\ \A other \in Handlers \ {h} : handler'[other] = handler[other]
        BY <1>1, <1>7 DEF TypeOK, AppendLog, Goto, Finish, NoRequest, Request
  <2>4. runs' = runs /\ approvalLog' = approvalLog \cup {<<id, a>>}
        BY <1>7 DEF AppendLog
  <2>5. LogTellsTruth'
    <3>1. a # "created"
          BY <2>1 DEF Actions, Stages
    <3> HIDE DEF id, a
    <3>. QED  BY <2>1, <2>2, <2>4, <3>1 DEF SignatureInv, LogTellsTruth
  <2>6. EveryStageSigned' /\ UnusedRunsUnsigned'
        BY <2>4 DEF SignatureInv, EveryStageSigned, UnusedRunsUnsigned
  <2>7. HandlersServeSignedRuns'
        BY <2>3, <2>4 DEF SignatureInv, HandlersServeSignedRuns, ActionOf
  <2>. QED  BY <1>1, <2>5, <2>6, <2>7 DEF SignatureInv
<1>8. ASSUME NEW h \in Handlers, UpdateRun(h)
      PROVE  SignatureInv'
  <2> DEFINE id == handler[h].run
             a == ActionOf(handler[h])
             row == Updated(runs[id], a, handler[h].key)
  <2>1. a \in Actions /\ id \in RunIds
        BY <1>1, <1>8, ActionOfType DEF UpdateRun
  <2>2. \A other \in Handlers \ {h} : handler'[other] = handler[other]
        BY <1>1, <1>8 DEF TypeOK, UpdateRun, Goto, Finish
  <2>3. CASE UNCHANGED runs /\ Finish(h)
    <3>1. handler'[h].pc \notin {"update", "log"}
          BY <1>1, <2>3 DEF TypeOK, Finish, NoRequest
    <3>. QED  BY <1>1, <1>8, <2>2, <2>3, <3>1, HandlerStep DEF UpdateRun
  <2>4. CASE runs' = [runs EXCEPT ![id] = row] /\ Goto(h, "log")
    <3>1. /\ runs[id].status # "absent"
          /\ SignaturesOf[Target[a]] \subseteq runs[id].signed \cup {a}
          BY <1>8 DEF UpdateRun, SignatureInv, HandlersServeSignedRuns
    <3>2. /\ Target[a] # "absent"
          /\ SignaturesOf[Target[a]] \subseteq Stages
          BY <2>1, TargetSigned
    <3>3. runs[id] \in Row
          BY <1>1, <2>1 DEF TypeOK
    <3>4. /\ runs'[id].status = Target[a]
          /\ runs'[id].signed = runs[id].signed \cup ({a} \cap Stages)
          /\ \A r \in RunIds \ {id} : runs'[r] = runs[r]
          BY <1>1, <2>1, <2>4, <3>3 DEF TypeOK, Updated, Row
    <3>5. /\ handler'[h].pc = "log"
          /\ handler'[h].run = id
          /\ ActionOf(handler'[h]) = a
          BY <1>1, <1>8, <2>4 DEF TypeOK, UpdateRun, Goto, ActionOf, Request, NoRequest
    <3> HIDE DEF id, a, row
    <3>6. EveryStageSigned' /\ UnusedRunsUnsigned'
      <4>1. SignaturesOf[Target[a]] \subseteq runs[id].signed \cup ({a} \cap Stages)
            BY <3>1, <3>2
      <4>2. SignaturesOf[runs'[id].status] \subseteq runs'[id].signed
            BY <3>4, <4>1
      <4>. QED  BY <2>1, <3>2, <3>4, <4>2
                DEF SignatureInv, EveryStageSigned, UnusedRunsUnsigned
    <3>7. LogTellsTruth'
          BY <1>8, <2>1, <3>1, <3>2, <3>4 DEF UpdateRun, SignatureInv, LogTellsTruth
    <3>8. HandlersServeSignedRuns'
      <4>1. ASSUME NEW other \in Handlers \ {h}
            PROVE  LET b == ActionOf(handler[other])
                       new == runs'[handler[other].run]
                   IN /\ handler[other].pc = "update" =>
                            /\ new.status # "absent"
                            /\ SignaturesOf[Target[b]] \subseteq new.signed \cup {b}
                      /\ handler[other].pc = "log" => {b} \cap Stages \subseteq new.signed
            BY <1>1, ActionOfType, SignaturesOnlyGrow
            DEF SignatureInv, HandlersServeSignedRuns
      <4>. QED  BY <2>2, <3>4, <3>5, <4>1 DEF HandlersServeSignedRuns, ActionOf
    <3>. QED  BY <1>1, <3>6, <3>7, <3>8 DEF SignatureInv
  <2>. QED  BY <1>8, <2>3, <2>4 DEF UpdateRun
<1>. QED
     BY <1>2, <1>3, <1>4, <1>5, <1>6, <1>7, <1>8 DEF Next

LEMMA InitSignature == Init => SignatureInv
<1> SUFFICES ASSUME Init PROVE SignatureInv
    OBVIOUS
<1>1. TypeOK
      BY InitType
<1>2. /\ \A r \in RunIds : runs[r].status = "absent" /\ runs[r].signed = {}
      /\ approvalLog = {}
      /\ \A h \in Handlers : handler[h].pc = "idle"
      BY DEF Init, Fresh, NoRequest
<1>. QED  BY <1>1, <1>2 DEF SignatureInv, EveryStageSigned, LogTellsTruth,
                            UnusedRunsUnsigned, HandlersServeSignedRuns, SignaturesOf

(* No run reaches a status without the signature of every stage before it, *)
(* although update_row never looks at the status it overwrites: what a     *)
(* handler read may be stale, but signatures only grow.                    *)
THEOREM PayrollEveryStageSigned == Spec => []EveryStageSigned
<1>1. SignatureInv => EveryStageSigned
      BY DEF SignatureInv
<1>. QED  BY <1>1, InitSignature, SignatureStep, PTL DEF Spec

(* The approval log never tells of a stage the run did not go through.     *)
THEOREM PayrollLogTellsTruth == Spec => []LogTellsTruth
<1>1. SignatureInv => LogTellsTruth
      BY DEF SignatureInv
<1>. QED  BY <1>1, InitSignature, SignatureStep, PTL DEF Spec

-----------------------------------------------------------------------------
(* One request at a time                                                   *)

(* The signature of the pay stage is on the paid runs and on no other: no  *)
(* request takes a paid run anywhere.                                      *)
PaidIsSigned ==
    \A r \in RunIds : runs[r].status = "paid" <=> "pay" \in runs[r].signed

OnlyPaidRunsHaveKeys ==
    \A r \in RunIds : runs[r].status # "paid" => runs[r].key = NoKey

(* What the request of h read and checked still holds when it writes.      *)
IsCurrent(h) ==
    LET request == handler[h]
        row == runs[request.run]
    IN
    /\ request.pc \in {"read", "update"} =>
          /\ request.period = row.period
          /\ request.op = "pay" => request.key = NoKey \/ ~KeyIsUsed(request.key)
          /\ request.op = "correct" => row.status \notin {"absent", "locked", "paid"}
    /\ request.pc = "update" => Permitted(ActionOf(request), row.status)

SerialInv ==
    /\ UniqueInv
    /\ UnusedRunsUnsigned
    /\ PaidIsSigned
    /\ OnlyPaidRunsHaveKeys
    /\ \A h \in Handlers : IsCurrent(h)

LEMMA InitSerial == Init => SerialInv
<1> SUFFICES ASSUME Init PROVE SerialInv
    OBVIOUS
<1>1. \A r \in RunIds : runs[r].status = "absent" /\ runs[r].signed = {}
                          /\ runs[r].key = NoKey
      BY DEF Init, Fresh
<1>2. UniqueInv
      BY InitType, <1>1
      DEF UniqueInv, OneActiveRunPerPeriod, OneRunPerPayoutKey, Active
<1>3. \A h \in Handlers : IsCurrent(h)
      BY DEF Init, NoRequest, IsCurrent
<1>. QED  BY <1>1, <1>2, <1>3
          DEF SerialInv, UnusedRunsUnsigned, PaidIsSigned, OnlyPaidRunsHaveKeys

(* An insert that changes a run brings an unused row to life.              *)
LEMMA TheInsert ==
    ASSUME TypeOK, NEW h \in Handlers, InsertRun(h), ~UNCHANGED runs
    PROVE  \E id \in RunIds :
              /\ runs[id].status = "absent"
              /\ handler[h].period \in Periods
              /\ ~HasActiveRun(handler[h].period)
              /\ runs' = [runs EXCEPT ![id] = Draft(handler[h].period)]
              /\ runs'[id] = Draft(handler[h].period)
              /\ \A r \in RunIds \ {id} : runs'[r] = runs[r]
<1>1. PICK id \in RunIds :
          /\ runs[id].status = "absent"
          /\ runs' = [runs EXCEPT ![id] = Draft(handler[h].period)]
      BY DEF InsertRun, IsUnused
<1>2. ~HasActiveRun(handler[h].period)
      BY DEF InsertRun
<1>3. handler[h].period \in Periods
      BY DEF InsertRun, TypeOK, Request, NoRequest
<1>. QED  BY <1>1, <1>2, <1>3 DEF TypeOK

(* An update that changes a run finds it as the request last read it.      *)
LEMMA TheUpdate ==
    ASSUME SerialInv, NEW h \in Handlers, UpdateRun(h), ~UNCHANGED runs
    PROVE  LET id == handler[h].run
               action == ActionOf(handler[h])
           IN
           /\ id \in RunIds /\ action \in Actions
           /\ handler[h].period = runs[id].period
           /\ handler[h].key \in Keys
           /\ action = "pay" => handler[h].key = NoKey \/ ~KeyIsUsed(handler[h].key)
           /\ Permitted(action, runs[id].status)
           /\ runs[id] \in Row
           /\ runs' = [runs EXCEPT ![id] = Updated(runs[id], action, handler[h].key)]
           /\ runs'[id] = Updated(runs[id], action, handler[h].key)
           /\ \A r \in RunIds \ {id} : runs'[r] = runs[r]
<1> DEFINE id == handler[h].run
           action == ActionOf(handler[h])
<1>1. TypeOK /\ handler[h].pc = "update" /\ IsCurrent(h)
      BY DEF SerialInv, UniqueInv, UpdateRun
<1>2. id \in RunIds /\ action \in Actions
      BY <1>1, ActionOfType
<1>3. handler[h].key \in Keys
      BY <1>1 DEF TypeOK, Request, NoRequest
<1>4. /\ handler[h].period = runs[id].period
      /\ Permitted(action, runs[id].status)
      /\ handler[h].op = "pay" => handler[h].key = NoKey \/ ~KeyIsUsed(handler[h].key)
      BY <1>1 DEF IsCurrent
<1>5. action = "pay" => handler[h].op = "pay"
      BY DEF ActionOf
<1>6. runs' = [runs EXCEPT ![id] = Updated(runs[id], action, handler[h].key)]
      BY DEF UpdateRun
<1>7. /\ runs[id] \in Row
      /\ runs'[id] = Updated(runs[id], action, handler[h].key)
      /\ \A r \in RunIds \ {id} : runs'[r] = runs[r]
      BY <1>1, <1>2, <1>6 DEF TypeOK
<1>. QED  BY <1>2, <1>3, <1>4, <1>5, <1>6, <1>7

(* Inserts and updates are the only steps that touch the runs.             *)
LEMMA WhoWrites ==
    ASSUME [Next]_vars, ~UNCHANGED runs
    PROVE  \E h \in Handlers : InsertRun(h) \/ UpdateRun(h)
BY DEF Next, vars, CreateGuard, BeginTransition, PayGuard, CorrectGuard,
       ReadRun, AppendLog, RecreateGuard, Abort

LEMMA RowsStep ==
    ASSUME SerialInv, [Next]_vars
    PROVE  (UnusedRunsUnsigned /\ PaidIsSigned /\ OnlyPaidRunsHaveKeys)'
<1> USE DEF UnusedRunsUnsigned, PaidIsSigned, OnlyPaidRunsHaveKeys
<1>1. CASE UNCHANGED runs
      BY <1>1 DEF SerialInv
<1>2. ASSUME NEW h \in Handlers, InsertRun(h), ~UNCHANGED runs
      PROVE  (UnusedRunsUnsigned /\ PaidIsSigned /\ OnlyPaidRunsHaveKeys)'
  <2>1. PICK id \in RunIds :
            /\ runs'[id] = Draft(handler[h].period)
            /\ \A r \in RunIds \ {id} : runs'[r] = runs[r]
        BY <1>2, TheInsert DEF SerialInv, UniqueInv
  <2>2. /\ runs'[id].status = "draft"
        /\ runs'[id].signed = {}
        /\ runs'[id].key = NoKey
        BY <2>1 DEF Draft, Fresh
  <2>. QED  BY <2>1, <2>2 DEF SerialInv
<1>3. ASSUME NEW h \in Handlers, UpdateRun(h), ~UNCHANGED runs
      PROVE  (UnusedRunsUnsigned /\ PaidIsSigned /\ OnlyPaidRunsHaveKeys)'
  <2> DEFINE id == handler[h].run
             action == ActionOf(handler[h])
  <2>1. /\ id \in RunIds /\ action \in Actions
        /\ Permitted(action, runs[id].status)
        /\ runs[id] \in Row
        /\ runs'[id] = Updated(runs[id], action, handler[h].key)
        /\ \A r \in RunIds \ {id} : runs'[r] = runs[r]
        BY <1>3, TheUpdate
  <2>2. /\ runs'[id].status = Target[action]
        /\ runs'[id].signed = runs[id].signed \cup ({action} \cap Stages)
        /\ action # "pay" => runs'[id].key = runs[id].key
        BY <2>1 DEF Updated, Row
  <2> HIDE DEF id, action
  <2>3. /\ runs[id].status # "paid"
        /\ Target[action] # "absent"
        /\ Target[action] = "paid" <=> action = "pay"
        BY <2>1 DEF Permitted, Required, Target, Actions, Stages
  <2>4. "pay" \notin runs[id].signed /\ runs[id].key = NoKey
        BY <2>1, <2>3 DEF SerialInv
  <2>5. "pay" \in runs'[id].signed <=> action = "pay"
        BY <2>2, <2>4 DEF Stages
  <2>. QED  BY <2>1, <2>2, <2>3, <2>4, <2>5 DEF SerialInv
<1>. QED  BY <1>1, <1>2, <1>3, WhoWrites

(* The request that steps is the only one, so nothing but itself can make  *)
(* what it read stale, and it reads anew before it writes again.           *)
LEMMA CurrentStep ==
    ASSUME OneHandler, SerialInv, [Next]_vars
    PROVE  \A h \in Handlers : IsCurrent(h)'
<1>1. TypeOK /\ \A h \in Handlers : IsCurrent(h)
      BY DEF SerialInv, UniqueInv
<1>2. CASE UNCHANGED vars
      BY <1>1, <1>2 DEF vars, IsCurrent, KeyIsUsed
<1>3. ASSUME NEW h \in Handlers, IsCurrent(h)'
      PROVE  \A other \in Handlers : IsCurrent(other)'
      BY <1>3 DEF OneHandler
<1>4. ASSUME NEW h \in Handlers, handler'[h].pc \notin {"read", "update"}
      PROVE  IsCurrent(h)'
      BY <1>4 DEF IsCurrent
<1>5. ASSUME NEW h \in Handlers,
             \/ \E p \in Periods : CreateGuard(h, p)
             \/ InsertRun(h)
             \/ UpdateRun(h)
             \/ AppendLog(h)
             \/ RecreateGuard(h)
             \/ Abort(h)
      PROVE  handler'[h].pc \notin {"read", "update"}
      BY <1>1, <1>5 DEF TypeOK, CreateGuard, InsertRun, UpdateRun, AppendLog,
                        RecreateGuard, Abort, Create, Goto, Finish, NoRequest, Request
<1>6. ASSUME NEW h \in Handlers, NEW r \in RunIds, NEW a \in Actions \ {"pay"},
             BeginTransition(h, a, r)
      PROVE  IsCurrent(h)'
  <2>1. handler'[h] = [pc |-> "update", op |-> a, run |-> r,
                       period |-> runs[r].period, key |-> NoKey]
        BY <1>1, <1>6 DEF TypeOK, BeginTransition, Serve
  <2>2. Permitted(a, runs[r].status) /\ runs' = runs
        BY <1>6 DEF BeginTransition
  <2>. QED  BY <2>1, <2>2 DEF IsCurrent, ActionOf, Actions, Stages
<1>7. ASSUME NEW h \in Handlers, NEW r \in RunIds, NEW k \in Keys, PayGuard(h, r, k)
      PROVE  IsCurrent(h)'
  <2>1. handler'[h] = [pc |-> "read", op |-> "pay", run |-> r,
                       period |-> runs[r].period, key |-> k]
        BY <1>1, <1>7 DEF TypeOK, PayGuard, Serve
  <2>2. (k = NoKey \/ ~KeyIsUsed(k)) /\ runs' = runs
        BY <1>7 DEF PayGuard
  <2>. QED  BY <2>1, <2>2 DEF IsCurrent, KeyIsUsed
<1>8. ASSUME NEW h \in Handlers, NEW r \in RunIds, CorrectGuard(h, r)
      PROVE  IsCurrent(h)'
  <2>1. handler'[h] = [pc |-> "read", op |-> "correct", run |-> r,
                       period |-> runs[r].period, key |-> NoKey]
        BY <1>1, <1>8 DEF TypeOK, CorrectGuard, Serve
  <2>2. runs[r].status \notin {"absent", "locked", "paid"} /\ runs' = runs
        BY <1>8 DEF CorrectGuard
  <2>. QED  BY <2>1, <2>2 DEF IsCurrent
<1>9. ASSUME NEW h \in Handlers, ReadRun(h)
      PROVE  IsCurrent(h)'
  <2>1. runs' = runs
        BY <1>9 DEF ReadRun
  <2>2. CASE Permitted(ActionOf(handler[h]), runs[handler[h].run].status)
    <3>1. /\ handler[h].pc = "read"
          /\ handler'[h] = [handler[h] EXCEPT !.pc = "update"]
          BY <1>1, <1>9, <2>2 DEF TypeOK, ReadRun, Goto
    <3>2. /\ handler'[h].op = handler[h].op
          /\ handler'[h].run = handler[h].run
          /\ handler'[h].period = handler[h].period
          /\ handler'[h].key = handler[h].key
          BY <1>1, <3>1 DEF TypeOK, Request, NoRequest
    <3>. QED  BY <1>1, <2>1, <2>2, <3>1, <3>2 DEF IsCurrent, ActionOf, KeyIsUsed
  <2>3. CASE ~Permitted(ActionOf(handler[h]), runs[handler[h].run].status)
    <3>1. handler'[h].pc = "idle"
          BY <1>1, <1>9, <2>3 DEF TypeOK, ReadRun, Finish, NoRequest
    <3>. QED  BY <1>4, <3>1
  <2>. QED  BY <2>2, <2>3
<1>. QED
     BY <1>2, <1>3, <1>4, <1>5, <1>6, <1>7, <1>8, <1>9 DEF Next

LEMMA SerialStep ==
    ASSUME OneHandler
    PROVE  SerialInv /\ [Next]_vars => SerialInv'
BY UniqueStep, RowsStep, CurrentStep DEF SerialInv

LEMMA SerialAlways ==
    ASSUME OneHandler
    PROVE  Spec => []SerialInv
BY InitSerial, SerialStep, PTL DEF Spec

(* What a paid run is cannot be changed any more: cancellation, correction *)
(* and every stage look at the row, and nothing changes it before they     *)
(* write.                                                                  *)
THEOREM PayrollPaidRunIsFinal ==
    ASSUME OneHandler
    PROVE  Spec => PaidRunIsFinal
<1>1. ASSUME SerialInv, [Next]_vars
      PROVE  [\A r \in RunIds : runs[r].status = "paid" => runs'[r] = runs[r]]_vars
  <2>1. ASSUME NEW h \in Handlers, InsertRun(h), ~UNCHANGED runs,
               NEW r \in RunIds, runs[r].status = "paid"
        PROVE  runs'[r] = runs[r]
        BY <1>1, <2>1, TheInsert DEF SerialInv, UniqueInv
  <2>2. ASSUME NEW h \in Handlers, UpdateRun(h), ~UNCHANGED runs,
               NEW r \in RunIds, runs[r].status = "paid"
        PROVE  runs'[r] = runs[r]
    <3>1. ~Permitted(ActionOf(handler[h]), "paid")
          BY <1>1, <2>2, TheUpdate DEF Permitted, Required, Actions, Stages
    <3>. QED  BY <1>1, <2>2, <3>1, TheUpdate
  <2>. QED  BY <1>1, <2>1, <2>2, WhoWrites
<1>. QED  BY <1>1, SerialAlways, PTL DEF Spec, PaidRunIsFinal

(* A period is paid out once over all the runs it ever had: the signature  *)
(* of a payout stays on a run that stays paid, and that run keeps the      *)
(* period from having another that could reach the pay stage.              *)
THEOREM PayrollPeriodPaidOnce ==
    ASSUME OneHandler
    PROVE  Spec => PeriodPaidOnce
<1>1. ASSUME SerialInv, NEW h \in Handlers, PaysOut(h), NEW r \in RunIds,
             runs[r].period = handler[h].period
      PROVE  "pay" \notin runs[r].signed
  <2>1. /\ handler[h].run \in RunIds
        /\ handler[h].period = runs[handler[h].run].period
        /\ runs[handler[h].run].status = "locked"
    <3>1. TypeOK /\ IsCurrent(h) /\ handler[h].pc = "update" /\ handler[h].op = "pay"
          BY <1>1 DEF SerialInv, UniqueInv, PaysOut
    <3>. QED  BY <3>1, ActionOfType DEF IsCurrent, ActionOf, Permitted, Required
  <2>2. SUFFICES ASSUME runs[r].status = "paid" PROVE FALSE
        BY <1>1 DEF SerialInv, PaidIsSigned
  <2>3. r = handler[h].run
        BY <1>1, <2>1, <2>2 DEF SerialInv, UniqueInv, OneActiveRunPerPeriod, Active
  <2>. QED  BY <2>1, <2>2, <2>3
<1>2. SerialInv /\ [Next]_vars =>
        [\A h \in Handlers :
            PaysOut(h) => \A r \in RunIds :
                runs[r].period = handler[h].period => "pay" \notin runs[r].signed]_vars
      BY <1>1
<1>. QED  BY <1>2, SerialAlways, PTL DEF Spec, PeriodPaidOnce

-----------------------------------------------------------------------------
(* Requests one at a time implement PayrollLifecycle                       *)

LEMMA LifecycleBegins == Init => Lifecycle!LifecycleInit
<1> SUFFICES ASSUME Init PROVE Lifecycle!LifecycleInit
    OBVIOUS
<1>1. \A r \in RunIds : /\ runs[r].status = "absent"
                        /\ runs[r].key = NoKey
                        /\ runs[r].period \in Periods
      BY DEF Init, Fresh
<1>. QED  BY <1>1 DEF Lifecycle!LifecycleInit

LEMMA InsertOpens ==
    ASSUME SerialInv, NEW h \in Handlers, InsertRun(h), ~UNCHANGED runs
    PROVE  \E r \in RunIds, p \in Periods : Lifecycle!Open(r, p)
<1>1. TypeOK
      BY DEF SerialInv, UniqueInv
<1>2. PICK id \in RunIds, p \in Periods :
          /\ runs[id].status = "absent"
          /\ ~HasActiveRun(p)
          /\ runs'[id] = Draft(p)
          /\ \A r \in RunIds \ {id} : runs'[r] = runs[r]
      BY <1>1, TheInsert
<1>3. /\ runs'[id].status = "draft" /\ runs'[id].period = p /\ runs'[id].key = NoKey
      BY <1>2 DEF Draft, Fresh
<1>4. runs[id].key = NoKey
      BY <1>2 DEF SerialInv, OnlyPaidRunsHaveKeys
<1>5. \A other \in RunIds :
          runs[other].period = p => runs[other].status \in {"absent", "cancelled"}
      BY <1>1, <1>2 DEF HasActiveRun, TypeOK, Row, Statuses
<1>6. [r \in RunIds |-> runs[r].status]'
        = [[r \in RunIds |-> runs[r].status] EXCEPT ![id] = "draft"]
      BY <1>2, <1>3
<1>7. [r \in RunIds |-> runs[r].period]'
        = [[r \in RunIds |-> runs[r].period] EXCEPT ![id] = p]
      BY <1>2, <1>3
<1>8. [r \in RunIds |-> runs[r].key]' = [r \in RunIds |-> runs[r].key]
      BY <1>2, <1>3, <1>4
<1>9. Lifecycle!Open(id, p)
      BY <1>2, <1>5, <1>6, <1>7, <1>8 DEF Lifecycle!Open
<1>. QED  BY <1>9

LEMMA UpdateAdvancesPaysOrCancels ==
    ASSUME SerialInv, NEW h \in Handlers, UpdateRun(h), ~UNCHANGED runs
    PROVE  [Lifecycle!LifecycleNext]_(Lifecycle!lifecycleVars)
<1>1. PICK id \in RunIds, action \in Actions, k \in Keys :
          /\ action = "pay" => k = NoKey \/ ~KeyIsUsed(k)
          /\ Permitted(action, runs[id].status)
          /\ runs[id] \in Row
          /\ runs'[id] = Updated(runs[id], action, k)
          /\ \A r \in RunIds \ {id} : runs'[r] = runs[r]
      BY TheUpdate
<1>2. /\ runs'[id].status = Target[action]
      /\ runs'[id].period = runs[id].period
      /\ runs'[id].key = IF action = "pay" /\ k # NoKey THEN k ELSE runs[id].key
      BY <1>1 DEF Updated, Row
<1>3. [r \in RunIds |-> runs[r].status]'
        = [[r \in RunIds |-> runs[r].status] EXCEPT ![id] = Target[action]]
      BY <1>1, <1>2
<1>4. [r \in RunIds |-> runs[r].period]' = [r \in RunIds |-> runs[r].period]
      BY <1>1, <1>2
<1>5. action # "pay" => [r \in RunIds |-> runs[r].key]' = [r \in RunIds |-> runs[r].key]
      BY <1>1, <1>2
<1>6. CASE action \in {"submit", "approve", "lock"}
  <2>1. /\ runs[id].status \in DOMAIN Lifecycle!NextStage
        /\ Target[action] = Lifecycle!NextStage[runs[id].status]
        BY <1>1, <1>6 DEF Permitted, Required, Target, Lifecycle!NextStage
  <2>2. Lifecycle!Advance(id)
        BY <1>3, <1>4, <1>5, <1>6, <2>1 DEF Lifecycle!Advance
  <2>. QED  BY <2>2 DEF Lifecycle!LifecycleNext
<1>7. CASE action = "pay"
  <2>1. runs[id].status = "locked" /\ Target[action] = "paid"
        BY <1>1, <1>7 DEF Permitted, Required, Target
  <2>2. runs'[id].key = k
        BY <1>2, <1>7, <2>1 DEF SerialInv, OnlyPaidRunsHaveKeys
  <2>3. [r \in RunIds |-> runs[r].key]'
          = [[r \in RunIds |-> runs[r].key] EXCEPT ![id] = k]
        BY <1>1, <2>2
  <2>4. k = NoKey \/ \A other \in RunIds : runs[other].key # k
        BY <1>1, <1>7 DEF KeyIsUsed
  <2>5. Lifecycle!Pay(id, k)
        BY <1>3, <1>4, <2>1, <2>3, <2>4 DEF Lifecycle!Pay
  <2>. QED  BY <2>5 DEF Lifecycle!LifecycleNext, Keys
<1>8. CASE action = "cancel"
  <2>1. runs[id].status \in Lifecycle!Unpaid \/ runs[id].status = "cancelled"
        BY <1>1, <1>8 DEF Permitted, Row, Statuses, Active, Lifecycle!Unpaid
  <2>2. Target[action] = "cancelled"
        BY <1>8 DEF Target
  <2>3. CASE runs[id].status \in Lifecycle!Unpaid
    <3>1. Lifecycle!Cancel(id)
          BY <1>3, <1>4, <1>5, <1>8, <2>2, <2>3 DEF Lifecycle!Cancel
    <3>. QED  BY <3>1 DEF Lifecycle!LifecycleNext
  <2>4. CASE runs[id].status = "cancelled"
    <3>1. [r \in RunIds |-> runs[r].status]' = [r \in RunIds |-> runs[r].status]
          BY <1>1, <1>2, <2>2, <2>4
    <3>. QED  BY <1>4, <1>5, <1>8, <3>1 DEF Lifecycle!lifecycleVars
  <2>. QED  BY <2>1, <2>3, <2>4
<1>. QED  BY <1>1, <1>6, <1>7, <1>8 DEF Actions, Stages

(* Served one after the other, requests that take several transactions and *)
(* may die between any two of them are, to whoever looks at the runs, the  *)
(* atomic operations of PayrollLifecycle.                                  *)
THEOREM PayrollImplementsLifecycle ==
    ASSUME OneHandler
    PROVE  Spec => ImplementsLifecycle
<1>1. ASSUME SerialInv, [Next]_vars
      PROVE  [Lifecycle!LifecycleNext]_(Lifecycle!lifecycleVars)
  <2>1. CASE UNCHANGED runs
        BY <2>1 DEF Lifecycle!lifecycleVars
  <2>2. ASSUME NEW h \in Handlers, InsertRun(h), ~UNCHANGED runs
        PROVE  Lifecycle!LifecycleNext
        BY <1>1, <2>2, InsertOpens DEF Lifecycle!LifecycleNext
  <2>3. ASSUME NEW h \in Handlers, UpdateRun(h), ~UNCHANGED runs
        PROVE  [Lifecycle!LifecycleNext]_(Lifecycle!lifecycleVars)
        BY <1>1, <2>3, UpdateAdvancesPaysOrCancels
  <2>. QED  BY <1>1, <2>1, <2>2, <2>3, WhoWrites
<1>. QED
     BY <1>1, LifecycleBegins, SerialAlways, PTL
     DEF Spec, ImplementsLifecycle, Lifecycle!LifecycleSpec
=============================================================================
