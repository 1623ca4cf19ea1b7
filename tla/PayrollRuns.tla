---------------------------- MODULE PayrollRuns ----------------------------
(***************************************************************************)
(* The payroll run engine of WBOM: services/payroll_engine.py behind       *)
(* routes/payroll.py.                                                      *)
(*                                                                         *)
(* The routes are plain `def` functions, so FastAPI serves each request on *)
(* a thread of its pool: a handler.  Every database helper takes its own   *)
(* connection and commits its own transaction (database.py), so a handler  *)
(* is a sequence of atomic database steps and the steps of several         *)
(* handlers interleave.  No step locks a row: what a handler read may be   *)
(* stale when it writes.  Any step may raise (pool exhausted, connection   *)
(* lost, process killed), which ends the request where it stands: Abort.   *)
(***************************************************************************)
EXTENDS Naturals

CONSTANTS
    Handlers,    \* threads, each serving one request at a time
    RunIds,      \* the primary keys the table may hold (a bound)
    Periods,     \* (employee_id, period_year, period_month) tuples
    PayoutKeys,  \* values of payout_idempotency_key
    NoKey,       \* a NULL payout_idempotency_key
    MaxAborts    \* requests that may die half-way (a bound)

ASSUME NoKeyAssumption == NoKey \notin PayoutKeys
ASSUME MaxAbortsAssumption == MaxAborts \in Nat

VARIABLES
    runs,        \* wbom_payroll_runs: RunIds -> row, "absent" while unused
    approvalLog, \* wbom_payroll_approval_log, as a set of <<run, action>>
    handler,     \* Handlers -> the request being served and where it stands
    aborts       \* requests that died half-way so far

vars == <<runs, approvalLog, handler, aborts>>

Stages == {"submit", "approve", "lock", "pay"}
Actions == Stages \cup {"cancel"}
Active == {"draft", "reviewed", "approved", "locked", "paid"}
Statuses == Active \cup {"absent", "cancelled"}
Keys == PayoutKeys \cup {NoKey}

(* signed: the stages whose actor column (submitted_by, approved_by,       *)
(* locked_by, paid_by) is set.                                             *)
Row == [status: Statuses, period: Periods, signed: SUBSET Stages, key: Keys]

(* A create has a period, every other request a run and its period.        *)
NoRequest == [pc |-> "idle"]

Request ==
    [pc: {"insert"}, period: Periods]
      \cup [pc: {"read", "update", "log", "recreate"},
            op: Actions \cup {"correct"},
            run: RunIds, period: Periods, key: Keys]

-----------------------------------------------------------------------------
(* The state machine of transition_run                                     *)

(* Mistake: a run can be locked without an approval.                       *)
RequiredSkipsApproval == [submit |-> "draft", approve |-> "reviewed",
                          lock |-> "reviewed", pay |-> "locked"]

Required == [submit |-> "draft", approve |-> "reviewed",
             lock |-> "approved", pay |-> "locked"]

(* Mistake: a status the table does not have.                              *)
TargetMisspelt == [submit |-> "reviewed", approve |-> "approved", lock |-> "lock",
                   pay |-> "paid", cancel |-> "cancelled"]

Target == [submit |-> "reviewed", approve |-> "approved", lock |-> "locked",
           pay |-> "paid", cancel |-> "cancelled"]

(* Mistake: a paid run can be cancelled.                                   *)
PermittedCancelsPaid(action, status) ==
    \/ action # "cancel" /\ status = Required[action]
    \/ action = "cancel" /\ status # "absent"

Permitted(action, status) ==
    \/ action # "cancel" /\ status = Required[action]
    \/ action = "cancel" /\ status \notin {"absent", "paid"}

ActionOf(request) == IF request.op = "correct" THEN "cancel" ELSE request.op

(* Mistake: the actor column is not written.                               *)
UpdatedDropsActors(row, action, key) ==
    [row EXCEPT !.status = Target[action],
                !.key = IF action = "pay" /\ key # NoKey THEN key ELSE @]

(* The columns update_row writes: status, the actor column of the action   *)
(* and, for a pay that carries one, the key.  Nothing clears a column.     *)
Updated(row, action, key) ==
    [row EXCEPT !.status = Target[action],
                !.signed = @ \cup ({action} \cap Stages),
                !.key = IF action = "pay" /\ key # NoKey THEN key ELSE @]

-----------------------------------------------------------------------------
(* The two unique indexes of migration 019                                 *)

(* Mistake: a paid run does not count.                                     *)
HasUnpaidRun(period) ==
    \E r \in RunIds : runs[r].period = period /\ runs[r].status \in Active \ {"paid"}

HasActiveRun(period) ==
    \E r \in RunIds : runs[r].period = period /\ runs[r].status \in Active

KeyIsUsed(key) == \E r \in RunIds : runs[r].key = key

ViolatesActiveIndex(id, row) ==
    /\ row.status \in Active
    /\ \E r \in RunIds \ {id} : /\ runs[r].period = row.period
                                /\ runs[r].status \in Active

(* Mistake: there is no such index.                                        *)
NoKeyIndex(id, row) == FALSE

ViolatesKeyIndex(id, row) ==
    row.key # NoKey /\ \E r \in RunIds \ {id} : runs[r].key = row.key

-----------------------------------------------------------------------------

Fresh(period) ==
    [status |-> "absent", period |-> period, signed |-> {}, key |-> NoKey]

Draft(period) == [Fresh(period) EXCEPT !.status = "draft"]

IsUnused(id) == runs[id].status = "absent"

Init ==
    /\ runs \in [RunIds -> {Fresh(p) : p \in Periods}]
    /\ approvalLog = {}
    /\ handler = [h \in Handlers |-> NoRequest]
    /\ aborts = 0

Idle(h) == handler[h] = NoRequest

Serve(h, pc, op, run, key) ==
    handler' = [handler EXCEPT ![h] = [pc |-> pc, op |-> op, run |-> run,
                                       period |-> runs[run].period, key |-> key]]

Create(h, period) ==
    handler' = [handler EXCEPT ![h] = [pc |-> "insert", period |-> period]]

Goto(h, pc) == handler' = [handler EXCEPT ![h].pc = pc]

Finish(h) == handler' = [handler EXCEPT ![h] = NoRequest]

(* POST /runs: the P0-03 guard reads; a period with an active run gets 409 *)
(* and changes nothing.                                                    *)
CreateGuard(h, period) ==
    /\ Idle(h)
    /\ ~HasActiveRun(period)
    /\ Create(h, period)
    /\ UNCHANGED <<runs, approvalLog, aborts>>

(* The INSERT of the run, its items and the 'created' log entry, in one    *)
(* transaction.  A unique violation rolls all of it back.  The first       *)
(* disjunct also ends a request that finds every id of RunIds in use,      *)
(* which is the bound and not the code.                                    *)
InsertRun(h) ==
    /\ handler[h].pc = "insert"
    /\ Finish(h)
    /\ \/ /\ HasActiveRun(handler[h].period) \/ \A id \in RunIds : ~IsUnused(id)
          /\ UNCHANGED <<runs, approvalLog>>
       \/ /\ ~HasActiveRun(handler[h].period)
          /\ \E id \in RunIds :
                /\ IsUnused(id)
                /\ runs' = [runs EXCEPT ![id] = Draft(handler[h].period)]
                /\ approvalLog' = approvalLog \cup {<<id, "created">>}
    /\ UNCHANGED aborts

(* submit, approve, lock, cancel: transition_run reads the row and checks. *)
BeginTransition(h, action, run) ==
    /\ Idle(h)
    /\ Permitted(action, runs[run].status)
    /\ Serve(h, "update", action, run, NoKey)
    /\ UNCHANGED <<runs, approvalLog, aborts>>

(* POST /runs/{id}/pay: the idempotency pre-check, before transition_run.  *)
(* A key some run already holds is answered as a duplicate.                *)
PayGuard(h, run, key) ==
    /\ Idle(h)
    /\ key = NoKey \/ ~KeyIsUsed(key)
    /\ Serve(h, "read", "pay", run, key)
    /\ UNCHANGED <<runs, approvalLog, aborts>>

(* POST /runs/{id}/correct: the first read of correct_payroll_run.         *)
CorrectGuard(h, run) ==
    /\ Idle(h)
    /\ runs[run].status \notin {"absent", "locked", "paid"}
    /\ Serve(h, "read", "correct", run, NoKey)
    /\ UNCHANGED <<runs, approvalLog, aborts>>

(* transition_run's own read and checks, for the two routes that ran a     *)
(* check of their own first.                                               *)
ReadRun(h) ==
    /\ handler[h].pc = "read"
    /\ IF Permitted(ActionOf(handler[h]), runs[handler[h].run].status)
       THEN Goto(h, "update")
       ELSE Finish(h)
    /\ UNCHANGED <<runs, approvalLog, aborts>>

(* update_row: UPDATE ... WHERE run_id = ..., whatever the row's status is *)
(* by now.  A unique violation fails the request.                          *)
UpdateRun(h) ==
    LET id == handler[h].run
        action == ActionOf(handler[h])
        row == Updated(runs[id], action, handler[h].key)
    IN
    /\ handler[h].pc = "update"
    /\ IF ViolatesActiveIndex(id, row) \/ ViolatesKeyIndex(id, row)
       THEN Finish(h) /\ UNCHANGED runs
       ELSE /\ Goto(h, "log")
            /\ runs' = [runs EXCEPT ![id] = row]
    /\ UNCHANGED <<approvalLog, aborts>>

(* The approval log entry, in a transaction of its own.  A correction goes *)
(* on to create the fresh draft; every other request is done.              *)
AppendLog(h) ==
    /\ handler[h].pc = "log"
    /\ approvalLog' = approvalLog
                        \cup {<<handler[h].run, ActionOf(handler[h])>>}
    /\ IF handler[h].op = "correct" THEN Goto(h, "recreate") ELSE Finish(h)
    /\ UNCHANGED <<runs, aborts>>

(* create_payroll_run called by correct_payroll_run: the P0-03 guard.      *)
RecreateGuard(h) ==
    /\ handler[h].pc = "recreate"
    /\ IF HasActiveRun(handler[h].period)
       THEN Finish(h)
       ELSE Create(h, handler[h].period)
    /\ UNCHANGED <<runs, approvalLog, aborts>>

(* An exception, or the end of the process, between two database steps.    *)
Abort(h) ==
    /\ ~Idle(h)
    /\ aborts < MaxAborts
    /\ aborts' = aborts + 1
    /\ Finish(h)
    /\ UNCHANGED <<runs, approvalLog>>

Next ==
    \E h \in Handlers :
        \/ \E p \in Periods : CreateGuard(h, p)
        \/ InsertRun(h)
        \/ \E r \in RunIds, a \in Actions \ {"pay"} : BeginTransition(h, a, r)
        \/ \E r \in RunIds, k \in Keys : PayGuard(h, r, k)
        \/ \E r \in RunIds : CorrectGuard(h, r)
        \/ ReadRun(h)
        \/ UpdateRun(h)
        \/ AppendLog(h)
        \/ RecreateGuard(h)
        \/ Abort(h)

Spec == Init /\ [][Next]_vars

-----------------------------------------------------------------------------
(* Properties                                                              *)

TypeOK ==
    /\ runs \in [RunIds -> Row]
    /\ approvalLog \subseteq RunIds \X (Actions \cup {"created"})
    /\ handler \in [Handlers -> Request \cup {NoRequest}]
    /\ aborts \in 0..MaxAborts

(* P0-03: however creates, corrections and stale transitions interleave,   *)
(* an employee has at most one run that is not cancelled for a period.     *)
(* The guard reads before it inserts, and a stale transition can bring a   *)
(* cancelled run back, so the two indexes have to carry this.              *)
OneActiveRunPerPeriod ==
    \A r1, r2 \in RunIds :
        /\ runs[r1].status \in Active /\ runs[r2].status \in Active
        /\ runs[r1].period = runs[r2].period
        => r1 = r2

(* P0-03: a payout idempotency key is stored on at most one run.           *)
OneRunPerPayoutKey ==
    \A r1, r2 \in RunIds :
        runs[r1].key # NoKey /\ runs[r1].key = runs[r2].key => r1 = r2

(* P0-02: no run reaches a status without the signature of every stage     *)
(* before it, although update_row never looks at the status it overwrites. *)
SignaturesOf ==
    [absent |-> {}, cancelled |-> {}, draft |-> {},
     reviewed |-> {"submit"}, approved |-> {"submit", "approve"},
     locked |-> {"submit", "approve", "lock"}, paid |-> Stages]

EveryStageSigned ==
    \A r \in RunIds : SignaturesOf[runs[r].status] \subseteq runs[r].signed

(* The approval log never runs ahead of the table: an entry is there only  *)
(* for a step the run really took, whatever request wrote it.              *)
LogTellsTruth ==
    \A r \in RunIds :
        /\ <<r, "created">> \in approvalLog <=> runs[r].status # "absent"
        /\ \A stage \in Stages :
              <<r, stage>> \in approvalLog => stage \in runs[r].signed

(* P0-02: "'paid' runs reject all further mutations (the run is final)".   *)
PaidRunIsFinal ==
    [][\A r \in RunIds : runs[r].status = "paid" => runs'[r] = runs[r]]_vars

(* The step of h that writes a payout, answered with status "paid".        *)
PaysOut(h) == /\ handler[h].pc = "update" /\ handler[h].op = "pay"
              /\ handler'[h].pc = "log"

(* An employee's period is paid out at most once, over all of its runs,    *)
(* cancelled and corrected ones included, with or without a key.           *)
PeriodPaidOnce ==
    [][\A h \in Handlers :
          PaysOut(h) => \A r \in RunIds :
              runs[r].period = handler[h].period
                  => "pay" \notin runs[r].signed]_vars
=============================================================================
