--------------------------- MODULE PayrollSerial ---------------------------
(***************************************************************************)
(* PayrollRuns when requests are served one after the other, any of which  *)
(* may die half-way: the engine then keeps all it promises.  What it loses *)
(* with two requests at a time is in the runs that end in a violation.     *)
(***************************************************************************)
EXTENDS PayrollRuns

OneHandler == \A h1, h2 \in Handlers : h1 = h2

Lifecycle == INSTANCE PayrollLifecycle
    WITH status <- [r \in RunIds |-> runs[r].status],
         period <- [r \in RunIds |-> runs[r].period],
         key <- [r \in RunIds |-> runs[r].key]

(* Every step of a request is one operation of the lifecycle or changes    *)
(* nothing a caller can see, also when the request dies before its log     *)
(* entry or between the two halves of a correction.                        *)
ImplementsLifecycle == Lifecycle!LifecycleSpec
=============================================================================
