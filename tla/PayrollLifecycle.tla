-------------------------- MODULE PayrollLifecycle --------------------------
(***************************************************************************)
(* What the payroll engine promises its callers, with every operation one  *)
(* atomic step: a run climbs draft, reviewed, approved, locked, paid one   *)
(* stage at a time, anything not yet paid may be cancelled, a period has   *)
(* one run that is not cancelled, and a payout key pays one run.           *)
(***************************************************************************)
CONSTANTS RunIds, Periods, PayoutKeys, NoKey

VARIABLES status, period, key

lifecycleVars == <<status, period, key>>

Unpaid == {"draft", "reviewed", "approved", "locked"}

NextStage == [draft |-> "reviewed", reviewed |-> "approved", approved |-> "locked"]

LifecycleInit ==
    /\ status = [r \in RunIds |-> "absent"]
    /\ period \in [RunIds -> Periods]
    /\ key = [r \in RunIds |-> NoKey]

Open(r, p) ==
    /\ status[r] = "absent"
    /\ \A other \in RunIds :
          period[other] = p => status[other] \in {"absent", "cancelled"}
    /\ status' = [status EXCEPT ![r] = "draft"]
    /\ period' = [period EXCEPT ![r] = p]
    /\ UNCHANGED key

Advance(r) ==
    /\ status[r] \in DOMAIN NextStage
    /\ status' = [status EXCEPT ![r] = NextStage[@]]
    /\ UNCHANGED <<period, key>>

Pay(r, k) ==
    /\ status[r] = "locked"
    /\ k = NoKey \/ \A other \in RunIds : key[other] # k
    /\ status' = [status EXCEPT ![r] = "paid"]
    /\ key' = [key EXCEPT ![r] = k]
    /\ UNCHANGED period

Cancel(r) ==
    /\ status[r] \in Unpaid
    /\ status' = [status EXCEPT ![r] = "cancelled"]
    /\ UNCHANGED <<period, key>>

LifecycleNext ==
    \E r \in RunIds :
        \/ \E p \in Periods : Open(r, p)
        \/ Advance(r)
        \/ \E k \in PayoutKeys \cup {NoKey} : Pay(r, k)
        \/ Cancel(r)

LifecycleSpec == LifecycleInit /\ [][LifecycleNext]_lifecycleVars
=============================================================================
