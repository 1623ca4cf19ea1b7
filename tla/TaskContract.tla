---------------------------- MODULE TaskContract ----------------------------
(***************************************************************************)
(* What the LLM queue promises of a task that is delivered once: while it  *)
(* is open, the gateway is called for it at most 1 + MaxRetries times and  *)
(* a client may read a result that is taken back, if the worker never      *)
(* heard that its report had arrived; once it is over, no call is made for *)
(* it any more and its result stays as it is until it expires.             *)
(***************************************************************************)
EXTENDS Naturals

CONSTANTS Tasks, MaxRetries

VARIABLES
    phase,  \* "new", "open" or "over"
    result, \* what a client reads: "none", "completed" or "failed"
    calls   \* gateway calls made

contractVars == <<phase, result, calls>>

Results == {"none", "completed", "failed"}

ContractInit ==
    /\ phase = [t \in Tasks |-> "new"]
    /\ result = [t \in Tasks |-> "none"]
    /\ calls = [t \in Tasks |-> 0]

Submit(t) ==
    /\ phase[t] = "new"
    /\ phase' = [phase EXCEPT ![t] = "open"]
    /\ UNCHANGED <<result, calls>>

Call(t) ==
    /\ phase[t] = "open" /\ calls[t] < 1 + MaxRetries
    /\ calls' = [calls EXCEPT ![t] = @ + 1]
    /\ UNCHANGED <<phase, result>>

(* A result is given or taken back, and may be the last word.              *)
Answer(t, r, next) ==
    /\ phase[t] = "open"
    /\ phase' = [phase EXCEPT ![t] = next]
    /\ result' = [result EXCEPT ![t] = r]
    /\ UNCHANGED calls

(* Nobody will serve these any more: cut off the stream, or expired before *)
(* a worker came to them.                                                  *)
Close(tasks) ==
    /\ \A t \in tasks : phase[t] = "open"
    /\ phase' = [t \in Tasks |-> IF t \in tasks THEN "over" ELSE phase[t]]
    /\ UNCHANGED <<result, calls>>

Expire(t) ==
    /\ result' = [result EXCEPT ![t] = "none"]
    /\ UNCHANGED <<phase, calls>>

ContractNext ==
    \/ \E t \in Tasks : Submit(t) \/ Call(t) \/ Expire(t)
    \/ \E t \in Tasks, r \in Results, next \in {"open", "over"} : Answer(t, r, next)
    \/ \E tasks \in SUBSET Tasks : Close(tasks)
=============================================================================
