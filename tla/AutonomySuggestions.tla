------------------------ MODULE AutonomySuggestions ------------------------
(***************************************************************************)
(* The decision engine of autonomy-engine/main.py: monitoring cycles that  *)
(* turn conversations into suggestions and either carry one out at once or *)
(* put it to the owner, by the execution level of its type; and the        *)
(* owner's endpoints, which approve, reject and review sandboxes, and move *)
(* the levels.                                                             *)
(*                                                                         *)
(* Everything is a coroutine of one event loop with synchronous Redis      *)
(* calls: an action below is what runs between two awaits, which are the   *)
(* calls to the LLM, the memory and the brain.  The background loop and    *)
(* POST /autonomy/monitor/trigger run cycles side by side.                 *)
(***************************************************************************)
EXTENDS Naturals, FiniteSets

CONSTANTS
    Suggestions,    \* what the LLM may suggest, each at most once
    Type, User,     \* of each suggestion
    HasAction,      \* the suggestions with a proposed_action
    Callable,       \* those of them whose type _auto_execute_action has a call for
    Cycles,         \* monitoring cycles that run at the same time (a bound)
    Clerks,         \* approvals and sandbox reviews at the same time (a bound)
    FollowUp,       \* SuggestionType.follow_up
    DefaultLevel,   \* _execution_rules
    FollowupLimit,  \* max_followups_per_user_per_day
    MaxRuleChanges, \* times the owner moves a level (a bound)
    MaxCalls,       \* owner calls about one suggestion that carry it out (a bound)
    MaxCalled,      \* suggestions the owner has carried out (a bound)
    MaxMisheard     \* suggestions misheard of at a time (a bound)

Types == {Type[s] : s \in Suggestions} \cup {FollowUp}
Users == {User[s] : s \in Suggestions}
Levels == {"low", "medium", "high"}

ASSUME InputsAssumption ==
    /\ HasAction \subseteq Suggestions /\ Callable \subseteq HasAction
    /\ DefaultLevel \in [Types -> Levels]
ASSUME BoundsAssumption ==
    /\ {FollowupLimit, MaxRuleChanges, MaxCalls, MaxCalled, MaxMisheard} \subseteq Nat
    /\ IsFiniteSet(Cycles) /\ Cycles # {}

VARIABLES
    level,         \* Redis: the execution level of each type
    approvedTypes, \* Redis: medium_approved_types
    offered,       \* Redis: the pending_suggestion keys
    cooldown,      \* Redis: the users with a cooldown key
    followups,     \* Redis: automatic follow-ups of each user today
    status,        \* memory: each suggestion, "none" before it exists
    sandbox,       \* memory: the sandbox change of each suggestion
    cycle, clerk,
    changes,       \* levels moved so far
    auto, owned,   \* for the properties: how often each suggestion was carried
                   \* out by a cycle and by the owner
    misheard,      \* for the properties: the suggestions of which the process
                   \* took a refusal for a success, or lost the answer to a
                   \* call that was carried out
    everLow        \* for the properties: types whose level has been low

rules == <<level, approvedTypes, changes, everLow>>
memory == <<status, sandbox>>
done == <<auto, owned, misheard>>
vars == <<rules, offered, cooldown, followups, memory, cycle, clerk, done>>

Idle == [pc |-> "idle", found |-> {}, s |-> {}]
Free == [op |-> "none", s |-> {}]

Init ==
    /\ level = DefaultLevel
    /\ approvedTypes = {} /\ changes = 0
    /\ offered = {} /\ cooldown = {}
    /\ followups = [u \in Users |-> 0]
    /\ status = [s \in Suggestions |-> "none"]
    /\ sandbox = [s \in Suggestions |-> "none"]
    /\ cycle = [c \in Cycles |-> Idle]
    /\ clerk = [k \in Clerks |-> Free]
    /\ auto = [s \in Suggestions |-> 0] /\ owned = [s \in Suggestions |-> 0]
    /\ misheard = {}
    /\ everLow = {t \in Types : DefaultLevel[t] = "low"}

-----------------------------------------------------------------------------
(* A monitoring cycle                                                      *)

At(c, pc) == cycle[c].pc = pc
Serves(c, s) == cycle[c].s = {s}
Found(s) == \E c \in Cycles : s \in cycle[c].found

(* The conversations of users without a cooldown are analyzed first; what  *)
(* they yield is kept for the second half.                                 *)
Scan(c) ==
    /\ At(c, "idle")
    /\ \E some \in SUBSET {s \in Suggestions : status[s] = "none" /\ ~Found(s)
                                                 /\ User[s] \notin cooldown} :
        /\ some # {}
        /\ cycle' = [cycle EXCEPT ![c] = [pc |-> "next", found |-> some, s |-> {}]]
    /\ UNCHANGED <<rules, offered, cooldown, followups, memory, clerk, done>>

Proceed(c, pc, s) ==
    cycle' = [cycle EXCEPT ![c] = [pc |-> pc, found |-> @.found \ {s}, s |-> {s}]]

(* Mistake: an empty list is walked once more.                             *)
OnwardOfNone(c, s) ==
    cycle' = [cycle EXCEPT ![c] =
        [pc |-> "next", found |-> cycle[c].found \ {s}, s |-> {}]]

(* On to the next suggestion, or the end of the cycle.                     *)
Onward(c, s) ==
    LET rest == cycle[c].found \ {s}
    IN cycle' = [cycle EXCEPT ![c] =
            IF rest = {} THEN Idle ELSE [pc |-> "next", found |-> rest, s |-> {}]]

(* Mistake: the limit is left to whoever sends the follow-up.              *)
NoFollowupLimit(s) == TRUE

FollowupAllowed(s) == Type[s] = FollowUp => followups[User[s]] < FollowupLimit

Take(c, s) ==
    /\ At(c, "next") /\ s \in cycle[c].found
    /\ cooldown' = cooldown \cup {User[s]}

(* The daily limit of follow-ups, or a confidence below the threshold.     *)
Skip(c, s) ==
    /\ Take(c, s)
    /\ status' = [status EXCEPT ![s] = "skipped"]
    /\ Onward(c, s)
    /\ UNCHANGED <<rules, offered, followups, sandbox, clerk, done>>

(* Mistake: a medium type needs no approval.                               *)
MayAutoUnasked(s) == level[Type[s]] \in {"low", "medium"}

(* Ask once: a medium type is free after its first approval.               *)
MayAuto(s) ==
    \/ level[Type[s]] = "low"
    \/ level[Type[s]] = "medium" /\ Type[s] \in approvedTypes

(* High confidence: a backup, then the drift check.  A suggestion without  *)
(* an action is left as it is.                                             *)
AutoExecute(c, s) ==
    /\ Take(c, s)
    /\ FollowupAllowed(s) /\ MayAuto(s)
    /\ status' = [status EXCEPT ![s] = "pending"]
    /\ IF s \in HasAction THEN Proceed(c, "drift", s) ELSE Onward(c, s)
    /\ UNCHANGED <<rules, offered, followups, sandbox, clerk, done>>

(* Put to the owner: what may not run by itself, or lacks the confidence.  *)
(* Whatever is not medium gets a sandbox.                                  *)
Offer(c, s) ==
    /\ Take(c, s)
    /\ FollowupAllowed(s)
    /\ status' = [status EXCEPT ![s] = "pending"]
    /\ offered' = offered \cup {s}
    /\ sandbox' = IF level[Type[s]] = "medium" THEN sandbox
                  ELSE [sandbox EXCEPT ![s] = "pending"]
    /\ Proceed(c, "notify", s)
    /\ UNCHANGED <<rules, followups, clerk, done>>

(* The owner's message: a failure leaves the offer without its status.     *)
Notified(c, s) ==
    /\ At(c, "notify") /\ Serves(c, s)
    /\ status' \in {status, [status EXCEPT ![s] = "sent_to_owner"]}
    /\ Onward(c, s)
    /\ UNCHANGED <<rules, offered, cooldown, followups, sandbox, clerk, done>>

DriftBlocks(c, s) ==
    /\ At(c, "drift") /\ Serves(c, s)
    /\ status' = [status EXCEPT ![s] = "blocked_drift"]
    /\ Onward(c, s)
    /\ UNCHANGED <<rules, offered, cooldown, followups, sandbox, clerk, done>>

(* A drift check that fails counts as passed.  Nothing is asked again.     *)
DriftPasses(c, s) ==
    /\ At(c, "drift") /\ Serves(c, s)
    /\ sandbox' = [sandbox EXCEPT ![s] = "applied"]
    /\ followups' = IF Type[s] = FollowUp THEN [followups EXCEPT ![User[s]] = @ + 1]
                    ELSE followups
    /\ cycle' = [cycle EXCEPT ![c].pc = "execute"]
    /\ UNCHANGED <<rules, offered, cooldown, status, clerk, done>>

(* What a service made of a call counts, whatever the caller heard of it.  *)
Tally(count, s, taken) == IF taken THEN [count EXCEPT ![s] = @ + 1] ELSE count
Misheard(s, wrong) ==
    /\ misheard' = IF wrong THEN misheard \cup {s} ELSE misheard
    /\ Cardinality(misheard') <= MaxMisheard

(* An answer came, or there was nothing to call: nobody looks at its HTTP  *)
(* status, so a refusal reads like a success.                              *)
Executed(c, s) ==
    /\ At(c, "execute") /\ Serves(c, s)
    /\ status' = [status EXCEPT ![s] = "auto_executed"]
    /\ \E taken \in BOOLEAN :
        /\ taken => s \in Callable
        /\ auto' = Tally(auto, s, taken)
        /\ Misheard(s, s \in Callable /\ ~taken)
    /\ Onward(c, s)
    /\ UNCHANGED <<rules, offered, cooldown, followups, sandbox, clerk, owned>>

(* Mistake: the sandbox keeps saying applied.                              *)
ExecutionFailsSilently(c, s) ==
    /\ At(c, "execute") /\ Serves(c, s)
    /\ Onward(c, s)
    /\ UNCHANGED <<rules, offered, cooldown, followups, memory, clerk, done>>

(* No answer came; the service may have taken the call all the same.       *)
ExecutionFails(c, s) ==
    /\ At(c, "execute") /\ Serves(c, s)
    /\ sandbox' = [sandbox EXCEPT ![s] = "failed"]
    /\ \E taken \in BOOLEAN :
        /\ taken => s \in Callable
        /\ auto' = Tally(auto, s, taken)
        /\ Misheard(s, taken)
    /\ Onward(c, s)
    /\ UNCHANGED <<rules, offered, cooldown, followups, status, clerk, owned>>

-----------------------------------------------------------------------------
(* The owner's endpoints                                                   *)

Busy(k, op, s) == clerk[k] = [op |-> op, s |-> {s}]
Leaves(k) == clerk' = [clerk EXCEPT ![k] = Free]
CarryOut(s, taken, wrong) == owned' = Tally(owned, s, taken) /\ Misheard(s, wrong)
Calls(s) == owned[s] + Cardinality({k \in Clerks : clerk[k].s = {s}})

(* The bounds on what the owner has carried out.                           *)
MayCall(s) ==
    /\ Calls(s) < MaxCalls
    /\ Cardinality({s} \cup {x \in Suggestions : Calls(x) > 0}) <= MaxCalled

(* The offer is read now and deleted when the work is done.                *)
Approve(k, s) ==
    /\ clerk[k] = Free /\ s \in offered /\ MayCall(s)
    /\ clerk' = [clerk EXCEPT ![k] = [op |-> "approve", s |-> {s}]]
    /\ UNCHANGED <<rules, offered, cooldown, followups, memory, cycle, done>>

(* The memory answered, and the brain when it is a follow-up, which counts *)
(* as taken when either took its call.  The level is the one that holds    *)
(* now, and the limit does not count this follow-up.                       *)
Approved(k, s) ==
    /\ Busy(k, "approve", s) /\ Leaves(k)
    /\ \E taken \in BOOLEAN :
        (taken => s \in HasAction) /\ CarryOut(s, taken, s \in HasAction /\ ~taken)
    /\ approvedTypes' = IF level[Type[s]] = "medium" THEN approvedTypes \cup {Type[s]}
                        ELSE approvedTypes
    /\ sandbox' = [sandbox EXCEPT ![s] = IF @ = "pending" THEN "applied" ELSE @]
    /\ status' = [status EXCEPT ![s] = IF @ = "forgotten" THEN @ ELSE "approved"]
    /\ offered' = offered \ {s}
    /\ UNCHANGED <<level, changes, everLow, cooldown, followups, cycle, auto>>

(* The memory does not answer, or the brain behind its answer, and either  *)
(* may have taken its call: the offer stays and may be approved again.     *)
ApprovalFails(k, s) ==
    /\ Busy(k, "approve", s) /\ Leaves(k)
    /\ \E taken \in BOOLEAN : (taken => s \in HasAction) /\ CarryOut(s, taken, taken)
    /\ UNCHANGED <<rules, offered, cooldown, followups, memory, cycle, auto>>

Reject(s) ==
    /\ s \in offered
    /\ offered' = offered \ {s}
    /\ status' = [status EXCEPT ![s] = IF @ = "forgotten" THEN @ ELSE "rejected"]
    /\ UNCHANGED <<rules, cooldown, followups, sandbox, cycle, clerk, done>>

ApplySandbox(k, s) ==
    /\ clerk[k] = Free /\ sandbox[s] = "pending" /\ MayCall(s)
    /\ clerk' = [clerk EXCEPT ![k] = [op |-> "apply", s |-> {s}]]
    /\ UNCHANGED <<rules, offered, cooldown, followups, memory, cycle, done>>

SandboxApplied(k, s) ==
    /\ Busy(k, "apply", s) /\ Leaves(k)
    /\ \E taken \in BOOLEAN :
        \/ sandbox' = [sandbox EXCEPT ![s] = "applied"] /\ CarryOut(s, taken, ~taken)
        \/ sandbox' = [sandbox EXCEPT ![s] = "failed"] /\ CarryOut(s, taken, taken)
    /\ UNCHANGED <<rules, offered, cooldown, followups, status, cycle, auto>>

(* Whatever the change says already.                                       *)
RejectSandbox(s) ==
    /\ sandbox[s] # "none"
    /\ sandbox' = [sandbox EXCEPT ![s] = "rejected"]
    /\ UNCHANGED <<rules, offered, cooldown, followups, status, cycle, clerk, done>>

(* PUT execution-rules, or the approval of an adaptive proposal, whose     *)
(* level may be long out of date: any level, either way.                   *)
UpdateRule(t, l) ==
    /\ changes < MaxRuleChanges /\ l # level[t]
    /\ changes' = changes + 1
    /\ level' = [level EXCEPT ![t] = l]
    /\ everLow' = IF l = "low" THEN everLow \cup {t} ELSE everLow
    /\ UNCHANGED <<approvedTypes, offered, cooldown, followups, memory, cycle, clerk, done>>

-----------------------------------------------------------------------------
(* The one-hour offer and the cooldown expire.                             *)
Expire(s) ==
    /\ s \in offered
    /\ offered' = offered \ {s}
    /\ UNCHANGED <<rules, cooldown, followups, memory, cycle, clerk, done>>

CooldownEnds(u) ==
    /\ u \in cooldown
    /\ cooldown' = cooldown \ {u}
    /\ UNCHANGED <<rules, offered, followups, memory, cycle, clerk, done>>

(* The process dies: suggestions and sandboxes are only in its memory.     *)
Restart ==
    /\ status' = [s \in Suggestions |-> IF status[s] = "none" THEN "none" ELSE "forgotten"]
    /\ sandbox' = [s \in Suggestions |-> "none"]
    /\ cycle' = [c \in Cycles |-> Idle] /\ clerk' = [k \in Clerks |-> Free]
    /\ misheard' = {}
    /\ UNCHANGED <<rules, offered, cooldown, followups, auto, owned>>

Monitor(c) ==
    \/ Scan(c)
    \/ \E s \in Suggestions :
        \/ Skip(c, s) \/ AutoExecute(c, s) \/ Offer(c, s) \/ Notified(c, s)
        \/ DriftBlocks(c, s) \/ DriftPasses(c, s) \/ Executed(c, s) \/ ExecutionFails(c, s)

Owner(s) ==
    \/ Reject(s) \/ RejectSandbox(s)
    \/ \E k \in Clerks :
        \/ Approve(k, s) \/ Approved(k, s) \/ ApprovalFails(k, s)
        \/ ApplySandbox(k, s) \/ SandboxApplied(k, s)

Next ==
    \/ \E c \in Cycles : Monitor(c)
    \/ \E s \in Suggestions : Owner(s) \/ Expire(s)
    \/ \E u \in Users : CooldownEnds(u)
    \/ \E t \in Types, l \in Levels : UpdateRule(t, l)
    \/ Restart

Spec == Init /\ [][Next]_vars

-----------------------------------------------------------------------------
(* Properties                                                              *)

(* Every variable keeps its type; a cycle has a suggestion in hand exactly *)
(* while it waits, and something left to do while it runs.                 *)
TypeOK ==
    /\ level \in [Types -> Levels] /\ approvedTypes \subseteq Types
    /\ offered \subseteq Suggestions /\ cooldown \subseteq Users
    /\ followups \in [Users -> Nat]
    /\ status \in [Suggestions -> {"none", "pending", "skipped", "sent_to_owner", "approved",
                                   "blocked_drift", "auto_executed", "rejected", "forgotten"}]
    /\ sandbox \in [Suggestions -> {"none", "pending", "applied", "rejected", "failed"}]
    /\ \A c \in Cycles :
        /\ cycle[c].found \subseteq Suggestions
        /\ (cycle[c].s # {}) <=> cycle[c].pc \in {"notify", "drift", "execute"}
        /\ cycle[c].pc = "next" => cycle[c].found # {}
    /\ clerk \in [Clerks -> [op : {"none", "approve", "apply"},
                             s : {{}} \cup {{s} : s \in Suggestions}]]

(* Without the owner's word nothing of a risky type is carried out: what a *)
(* cycle did by itself is of a type that has been low, or of which the     *)
(* owner once approved a suggestion while it was medium.                   *)
AutoNeedsConsent ==
    \A s \in Suggestions : auto[s] > 0 => Type[s] \in everLow \cup approvedTypes

(* The limit of automatic follow-ups is asked before the drift check and   *)
(* counted after it, so cycles that run side by side overshoot it, by one  *)
(* each and no more.                                                       *)
FollowupBound ==
    \A u \in Users : followups[u] < FollowupLimit + Cardinality(Cycles)

(* A sandbox that says applied is of a change that a service took, or is   *)
(* being asked to take, or refused in an answer whose status nobody looked *)
(* at: a call without an answer, or cut off by a restart, never leaves it. *)
AppliedMeansDone ==
    \A s \in Callable :
        sandbox[s] = "applied" =>
            \/ auto[s] + owned[s] > 0
            \/ s \in misheard
            \/ \E c \in Cycles : At(c, "execute") /\ Serves(c, s)
=============================================================================
