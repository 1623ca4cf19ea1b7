---------------------- MODULE AutonomySuggestionsProofs ----------------------
(***************************************************************************)
(* What is proved of AutonomySuggestions for any number of suggestions,    *)
(* users, cycles and calls: its types, that a cycle acts alone only with   *)
(* the owner's consent, how far follow-ups overshoot their limit, and that *)
(* an applied sandbox was carried out, but for refusals taken for success. *)
(*                                                                         *)
(* The level of a type, its approvals and the count of follow-ups are read *)
(* when a cycle takes a suggestion and acted upon two awaits later.  The   *)
(* invariant therefore says of a cycle that waits what was true when it    *)
(* asked: that the consent was there, in terms of what only grows, and how *)
(* many follow-ups are admitted but not yet counted.                       *)
(***************************************************************************)
EXTENDS AutonomySuggestions, FiniteSetTheorems, TLAPS

CyclePcs == {"idle", "next", "notify", "drift", "execute"}
InHand == {{}} \cup {{s} : s \in Suggestions}

CyclesOK == cycle \in [Cycles -> [pc : CyclePcs, found : SUBSET Suggestions, s : InHand]]

Counts == auto \in [Suggestions -> Nat] /\ owned \in [Suggestions -> Nat]

(* What a cycle is doing by itself was free to be done when it began.      *)
Consents(s) == Type[s] \in everLow \cup approvedTypes
ConsentOK ==
    /\ everLow \subseteq Types
    /\ \A t \in Types : level[t] = "low" => t \in everLow
    /\ \A c \in Cycles, s \in Suggestions :
        cycle[c].pc \in {"drift", "execute"} /\ Serves(c, s) => Consents(s)
    /\ AutoNeedsConsent

(* The cycles that have asked for the limit of a user and not yet counted  *)
Admitted(u) ==
    {c \in Cycles : At(c, "drift") /\ \E s \in Suggestions :
        Serves(c, s) /\ Type[s] = FollowUp /\ User[s] = u}
LimitOK ==
    \A u \in Users :
        followups[u] + Cardinality(Admitted(u)) < FollowupLimit + Cardinality(Cycles)

EngineInv == TypeOK /\ CyclesOK /\ Counts /\ ConsentOK /\ LimitOK /\ AppliedMeansDone

-----------------------------------------------------------------------------
(* Names                                                                   *)

LEMMA Named ==
    ASSUME NEW s \in Suggestions
    PROVE  Type[s] \in Types /\ User[s] \in Users /\ {s} \in InHand
BY DEF Types, Users, InHand

LEMMA AdmittedFinite ==
    ASSUME NEW u
    PROVE  /\ IsFiniteSet(Admitted(u)) /\ Cardinality(Admitted(u)) \in Nat
           /\ Cardinality(Admitted(u)) <= Cardinality(Cycles)
           /\ Cardinality(Cycles) \in Nat
<1>1. Admitted(u) \in SUBSET Cycles
      BY DEF Admitted
<1>. QED  BY <1>1, FS_Subset, FS_CardinalityType, BoundsAssumption

-----------------------------------------------------------------------------
(* Types                                                                   *)

(* What a cycle does next is well-formed.                                  *)
LEMMA CycleMoves ==
    ASSUME TypeOK, CyclesOK, NEW c \in Cycles, NEW s \in Suggestions,
           \/ Onward(c, s)
           \/ \E pc \in {"notify", "drift", "execute"} : Proceed(c, pc, s)
           \/ cycle[c].s = {s} /\ cycle' = [cycle EXCEPT ![c].pc = "execute"]
    PROVE  /\ CyclesOK'
           /\ \A d \in Cycles :
                /\ cycle'[d].found \subseteq Suggestions
                /\ (cycle'[d].s # {}) <=> cycle'[d].pc \in {"notify", "drift", "execute"}
                /\ cycle'[d].pc = "next" => cycle'[d].found # {}
<1>1. CASE Onward(c, s)
  <2>. DEFINE rest == cycle[c].found \ {s}
  <2>1. rest \in SUBSET Suggestions
        BY DEF CyclesOK
  <2>2. CASE rest = {}
        BY <1>1, <2>2 DEF Onward, Idle, TypeOK, CyclesOK, CyclePcs, InHand
  <2>3. CASE rest # {}
    <3>1. cycle' = [cycle EXCEPT ![c] = [pc |-> "next", found |-> rest, s |-> {}]]
          BY <1>1, <2>3 DEF Onward
    <3>. QED  BY <2>1, <2>3, <3>1 DEF TypeOK, CyclesOK, CyclePcs, InHand
  <2>. QED  BY <2>2, <2>3
<1>2. ASSUME NEW pc \in {"notify", "drift", "execute"}, Proceed(c, pc, s)
      PROVE  /\ CyclesOK'
             /\ \A d \in Cycles :
                /\ cycle'[d].found \subseteq Suggestions
                /\ (cycle'[d].s # {}) <=> cycle'[d].pc \in {"notify", "drift", "execute"}
                /\ cycle'[d].pc = "next" => cycle'[d].found # {}
      BY <1>2, Named DEF Proceed, TypeOK, CyclesOK, CyclePcs
<1>3. CASE cycle[c].s = {s} /\ cycle' = [cycle EXCEPT ![c].pc = "execute"]
  <2>1. cycle' = [cycle EXCEPT ![c] = [cycle[c] EXCEPT !.pc = "execute"]]
        BY <1>3
  <2>2. [cycle[c] EXCEPT !.pc = "execute"] \in [pc : CyclePcs, found : SUBSET Suggestions, s : InHand]
        BY DEF CyclesOK, CyclePcs
  <2>3. CyclesOK' /\ \A d \in Cycles \ {c} : cycle'[d] = cycle[d]
        BY <2>1, <2>2 DEF CyclesOK
  <2>4. cycle'[c].pc = "execute" /\ cycle'[c].s = {s} /\ cycle'[c].found = cycle[c].found
        BY <1>3, <2>1 DEF CyclesOK
  <2>. QED  BY <2>3, <2>4 DEF TypeOK
<1>. QED  BY <1>1, <1>2, <1>3

LEMMA MonitorTypes ==
    ASSUME TypeOK, CyclesOK, Counts, NEW c \in Cycles, Monitor(c)
    PROVE  TypeOK' /\ CyclesOK' /\ Counts'
<1>1. CASE Scan(c)
  <2>1. PICK some \in SUBSET Suggestions :
          /\ some # {}
          /\ cycle' = [cycle EXCEPT ![c] = [pc |-> "next", found |-> some, s |-> {}]]
        BY <1>1 DEF Scan
  <2>2. [pc |-> "next", found |-> some, s |-> {}]
          \in [pc : CyclePcs, found : SUBSET Suggestions, s : InHand]
        BY DEF CyclePcs, InHand
  <2>3. CyclesOK'
        BY <2>1, <2>2 DEF CyclesOK
  <2>4. \A d \in Cycles :
          cycle'[d] = IF d = c THEN [pc |-> "next", found |-> some, s |-> {}] ELSE cycle[d]
        BY <2>1 DEF CyclesOK
  <2>5. \A d \in Cycles :
            /\ cycle'[d].found \subseteq Suggestions
            /\ (cycle'[d].s # {}) <=> cycle'[d].pc \in {"notify", "drift", "execute"}
            /\ cycle'[d].pc = "next" => cycle'[d].found # {}
        BY <2>1, <2>4 DEF TypeOK
  <2>6. UNCHANGED <<level, approvedTypes, offered, cooldown, followups, status, sandbox,
                    clerk, auto, owned>>
        BY <1>1 DEF Scan, rules, memory, done
  <2>. QED  BY <2>3, <2>5, <2>6 DEF TypeOK, Counts
<1>2. ASSUME NEW s \in Suggestions,
             \/ Skip(c, s) \/ AutoExecute(c, s) \/ Offer(c, s) \/ Notified(c, s)
             \/ DriftBlocks(c, s) \/ DriftPasses(c, s) \/ Executed(c, s) \/ ExecutionFails(c, s)
      PROVE  TypeOK' /\ CyclesOK' /\ Counts'
  <2>1. /\ CyclesOK'
        /\ \A d \in Cycles :
            /\ cycle'[d].found \subseteq Suggestions
            /\ (cycle'[d].s # {}) <=> cycle'[d].pc \in {"notify", "drift", "execute"}
            /\ cycle'[d].pc = "next" => cycle'[d].found # {}
    <3>1. \/ Onward(c, s)
          \/ \E pc \in {"notify", "drift", "execute"} : Proceed(c, pc, s)
          \/ cycle[c].s = {s} /\ cycle' = [cycle EXCEPT ![c].pc = "execute"]
          BY <1>2 DEF Skip, AutoExecute, Offer, Notified, DriftBlocks, DriftPasses, Executed,
                      ExecutionFails, Serves
    <3>. QED  BY <3>1, CycleMoves
  <2>2. User[s] \in Users
        BY Named
  <2>3. Counts'
        BY <1>2 DEF Counts, Skip, AutoExecute, Offer, Notified, DriftBlocks, DriftPasses, Executed,
                    ExecutionFails, Tally, done
  <2>4. level' = level /\ approvedTypes' = approvedTypes /\ clerk' = clerk
        BY <1>2 DEF Skip, AutoExecute, Offer, Notified, DriftBlocks, DriftPasses, Executed,
                    ExecutionFails, rules
  <2>5. offered' \subseteq Suggestions /\ cooldown' \subseteq Users
        BY <1>2, <2>2 DEF TypeOK, Skip, AutoExecute, Offer, Notified, DriftBlocks, DriftPasses,
                    Executed, ExecutionFails, Take
  <2>6. followups' \in [Users -> Nat]
        BY <1>2, <2>2 DEF TypeOK, Skip, AutoExecute, Offer, Notified, DriftBlocks, DriftPasses,
                    Executed, ExecutionFails
  <2>7. status' \in [Suggestions -> {"none", "pending", "skipped", "sent_to_owner", "approved",
                                     "blocked_drift", "auto_executed", "rejected", "forgotten"}]
        BY <1>2 DEF TypeOK, Skip, AutoExecute, Offer, Notified, DriftBlocks, DriftPasses,
                    Executed, ExecutionFails
  <2>8. sandbox' \in [Suggestions -> {"none", "pending", "applied", "rejected", "failed"}]
        BY <1>2 DEF TypeOK, Skip, AutoExecute, Offer, Notified, DriftBlocks, DriftPasses,
                    Executed, ExecutionFails, memory
  <2>. QED  BY <2>1, <2>3, <2>4, <2>5, <2>6, <2>7, <2>8 DEF TypeOK
<1>. QED  BY <1>1, <1>2 DEF Monitor

(* The owner, the clock and a restart                                      *)
Outside == (\E s \in Suggestions : Owner(s) \/ Expire(s)) \/ (\E u \in Users : CooldownEnds(u))
           \/ (\E t \in Types, l \in Levels : UpdateRule(t, l)) \/ Restart

LEMMA OutsideTypes ==
    ASSUME TypeOK, CyclesOK, Counts, Outside
    PROVE  TypeOK' /\ CyclesOK' /\ Counts'
<1>1. ASSUME NEW s \in Suggestions, NEW k \in Clerks,
             \/ Approve(k, s) \/ Approved(k, s) \/ ApprovalFails(k, s)
             \/ ApplySandbox(k, s) \/ SandboxApplied(k, s)
      PROVE  TypeOK' /\ CyclesOK' /\ Counts'
  <2>1. cycle' = cycle /\ level' = level /\ followups' = followups /\ cooldown' = cooldown
        /\ offered' \subseteq offered
        BY <1>1 DEF Approve, Approved, ApprovalFails, ApplySandbox, SandboxApplied, rules
  <2>2. Counts'
        BY <1>1 DEF Counts, Approve, Approved, ApprovalFails, ApplySandbox, SandboxApplied,
                    CarryOut, Tally, done
  <2>3. approvedTypes' \subseteq Types
    <3>1. approvedTypes' \in {approvedTypes, approvedTypes \cup {Type[s]}}
          BY <1>1 DEF Approve, Approved, ApprovalFails, ApplySandbox, SandboxApplied, rules
    <3>. QED  BY <3>1, Named DEF TypeOK
  <2>4. clerk' \in [Clerks -> [op : {"none", "approve", "apply"},
                               s : {{}} \cup {{x} : x \in Suggestions}]]
        BY <1>1 DEF TypeOK, Approve, Approved, ApprovalFails, ApplySandbox, SandboxApplied,
                    Leaves, Free
  <2>5. /\ status' \in [Suggestions -> {"none", "pending", "skipped", "sent_to_owner", "approved",
                                   "blocked_drift", "auto_executed", "rejected", "forgotten"}]
        /\ sandbox' \in [Suggestions -> {"none", "pending", "applied", "rejected", "failed"}]
        BY <1>1 DEF TypeOK, Approve, Approved, ApprovalFails, ApplySandbox, SandboxApplied, memory
  <2>. QED  BY <2>1, <2>2, <2>3, <2>4, <2>5 DEF TypeOK, CyclesOK
<1>2. ASSUME NEW s \in Suggestions, Reject(s) \/ RejectSandbox(s) \/ Expire(s)
      PROVE  TypeOK' /\ CyclesOK' /\ Counts'
      BY <1>2 DEF Reject, RejectSandbox, Expire, TypeOK, CyclesOK, Counts, rules, memory, done
<1>3. ASSUME NEW u \in Users, CooldownEnds(u)
      PROVE  TypeOK' /\ CyclesOK' /\ Counts'
      BY <1>3 DEF CooldownEnds, TypeOK, CyclesOK, Counts, rules, memory, done
<1>4. ASSUME NEW t \in Types, NEW l \in Levels, UpdateRule(t, l)
      PROVE  TypeOK' /\ CyclesOK' /\ Counts'
      BY <1>4 DEF UpdateRule, TypeOK, CyclesOK, Counts, memory, done
<1>5. CASE Restart
      BY <1>5 DEF Restart, TypeOK, CyclesOK, Counts, CyclePcs, InHand, Idle, Free, rules, done
<1>. QED  BY <1>1, <1>2, <1>3, <1>4, <1>5 DEF Outside, Owner

LEMMA NextIs == Next <=> (\E c \in Cycles : Monitor(c)) \/ Outside
BY DEF Next, Outside

LEMMA TypesStep ==
    ASSUME TypeOK, CyclesOK, Counts, [Next]_vars
    PROVE  TypeOK' /\ CyclesOK' /\ Counts'
<1>1. CASE UNCHANGED vars
      BY <1>1 DEF vars, rules, memory, done, TypeOK, CyclesOK, Counts
<1>. QED  BY <1>1, MonitorTypes, OutsideTypes, NextIs

-----------------------------------------------------------------------------
(* Consent                                                                 *)

(* A cycle that drifts or executes did so before, but for those two that   *)
(* move: what it asked for is in what only grows.                          *)
LEMMA ConsentStep ==
    ASSUME EngineInv, [Next]_vars
    PROVE  ConsentOK'
<1>. USE DEF EngineInv
<1>1. everLow \subseteq everLow' /\ approvedTypes \subseteq approvedTypes'
  <2>1. CASE UNCHANGED vars
        BY <2>1 DEF vars, rules
  <2>2. ASSUME NEW c \in Cycles, Monitor(c)
        PROVE  UNCHANGED rules
        BY <2>2 DEF Monitor, Scan, Skip, AutoExecute, Offer, Notified, DriftBlocks, DriftPasses,
                    Executed, ExecutionFails
  <2>3. CASE Outside
        BY <2>3 DEF Outside, Owner, Reject, RejectSandbox, Approve, Approved, ApprovalFails,
                    ApplySandbox, SandboxApplied, Expire, CooldownEnds, UpdateRule, Restart, rules
  <2>. QED  BY <2>1, <2>2, <2>3, NextIs DEF rules
<1>2. CASE Outside
  <2>1. everLow' \subseteq Types /\ \A t \in Types : level'[t] = "low" => t \in everLow'
        BY <1>2 DEF ConsentOK, TypeOK, Outside, Owner, Reject, RejectSandbox, Approve, Approved,
                    ApprovalFails, ApplySandbox, SandboxApplied, Expire, CooldownEnds, UpdateRule,
                    Restart, rules
  <2>2. cycle' = cycle \/ \A c \in Cycles : cycle'[c].pc = "idle"
        BY <1>2 DEF Outside, Owner, Reject, RejectSandbox, Approve, Approved, ApprovalFails,
                    ApplySandbox, SandboxApplied, Expire, CooldownEnds, UpdateRule, Restart, Idle
  <2>3. auto' = auto
        BY <1>2 DEF Outside, Owner, Reject, RejectSandbox, Approve, Approved, ApprovalFails,
                    ApplySandbox, SandboxApplied, Expire, CooldownEnds, UpdateRule, Restart, done
  <2>. QED  BY <1>1, <2>1, <2>2, <2>3 DEF ConsentOK, AutoNeedsConsent, Consents, Serves
<1>3. ASSUME NEW c \in Cycles, Monitor(c)
      PROVE  ConsentOK'
  <2>1. UNCHANGED rules
        BY <1>3 DEF Monitor, Scan, Skip, AutoExecute, Offer, Notified, DriftBlocks, DriftPasses,
                    Executed, ExecutionFails
  <2>2. CASE \E s \in Suggestions : Executed(c, s) \/ ExecutionFails(c, s)
    <3>1. PICK s \in Suggestions : Executed(c, s) \/ ExecutionFails(c, s)
          BY <2>2
    <3>2. Consents(s) /\ \A x \in Suggestions : x # s => auto'[x] = auto[x]
          BY <3>1 DEF Executed, ExecutionFails, Tally, At, ConsentOK, Counts
    <3>3. \A d \in Cycles : cycle'[d] = cycle[d] \/ cycle'[d].pc \in {"idle", "next"}
          BY <3>1 DEF Executed, ExecutionFails, Onward, Idle, CyclesOK
    <3>. QED  BY <2>1, <3>2, <3>3 DEF ConsentOK, AutoNeedsConsent, Consents, Serves, Counts, rules
  <2>3. CASE \E s \in Suggestions : AutoExecute(c, s)
    <3>1. PICK s \in Suggestions : AutoExecute(c, s)
          BY <2>3
    <3>2. Consents(s) /\ auto' = auto
          BY <3>1, Named DEF AutoExecute, MayAuto, ConsentOK, Consents, done
    <3>3. \A d \in Cycles : \/ cycle'[d] = cycle[d] \/ cycle'[d].pc \in {"idle", "next"}
                            \/ cycle'[d].s = {s}
          BY <3>1 DEF AutoExecute, Onward, Proceed, Idle, CyclesOK
    <3>. QED  BY <2>1, <3>2, <3>3 DEF ConsentOK, AutoNeedsConsent, Consents, Serves, rules
  <2>4. CASE \E s \in Suggestions : DriftPasses(c, s)
    <3>1. PICK s \in Suggestions : DriftPasses(c, s)
          BY <2>4
    <3>2. cycle[c].pc = "drift" /\ auto' = auto
          BY <3>1 DEF DriftPasses, At, done
    <3>3. \A d \in Cycles : cycle'[d].s = cycle[d].s /\ (d # c => cycle'[d] = cycle[d])
          BY <3>1 DEF DriftPasses, CyclesOK
    <3>. QED  BY <2>1, <3>2, <3>3 DEF ConsentOK, AutoNeedsConsent, Consents, Serves, rules
  <2>5. CASE \/ Scan(c)
             \/ \E s \in Suggestions : Skip(c, s) \/ Offer(c, s) \/ Notified(c, s)
                                       \/ DriftBlocks(c, s)
    <3>1. auto' = auto
          BY <2>5 DEF Scan, Skip, Offer, Notified, DriftBlocks, done
    <3>2. \A d \in Cycles : cycle'[d] = cycle[d] \/ cycle'[d].pc \notin {"drift", "execute"}
          BY <2>5 DEF Scan, Skip, Offer, Notified, DriftBlocks, Onward, Proceed, Idle, CyclesOK
    <3>. QED  BY <2>1, <3>1, <3>2 DEF ConsentOK, AutoNeedsConsent, Consents, Serves, rules
  <2>. QED  BY <1>3, <2>2, <2>3, <2>4, <2>5 DEF Monitor
<1>4. CASE UNCHANGED vars
      BY <1>4 DEF vars, rules, done, ConsentOK, AutoNeedsConsent, Consents, Serves
<1>. QED  BY <1>2, <1>3, <1>4, NextIs

-----------------------------------------------------------------------------
(* Follow-ups                                                              *)

(* Nobody is admitted and nothing is counted: the sum does not grow.       *)
LEMMA NoneAdmitted ==
    ASSUME TypeOK, LimitOK, followups' = followups,
           \A c \in Cycles : cycle'[c] = cycle[c] \/ cycle'[c].pc # "drift"
    PROVE  LimitOK'
<1>. SUFFICES ASSUME NEW u \in Users
     PROVE  followups'[u] + Cardinality(Admitted(u)') < FollowupLimit + Cardinality(Cycles)
     BY DEF LimitOK
<1>1. Admitted(u)' \in SUBSET Admitted(u)
      BY DEF Admitted, At, Serves
<1>2. Cardinality(Admitted(u)') <= Cardinality(Admitted(u)) /\ Cardinality(Admitted(u)') \in Nat
      BY <1>1, AdmittedFinite, FS_Subset, FS_CardinalityType
<1>. QED  BY <1>2, AdmittedFinite, BoundsAssumption DEF LimitOK, TypeOK

LEMMA LimitStep ==
    ASSUME EngineInv, [Next]_vars
    PROVE  LimitOK'
<1>. USE DEF EngineInv
<1>1. ASSUME NEW c \in Cycles, NEW s \in Suggestions, AutoExecute(c, s)
      PROVE  LimitOK'
  <2>. SUFFICES ASSUME NEW u \in Users
       PROVE  followups'[u] + Cardinality(Admitted(u)') < FollowupLimit + Cardinality(Cycles)
       BY DEF LimitOK
  <2>1. followups' = followups /\ followups[u] \in Nat
        BY <1>1 DEF AutoExecute, TypeOK
  <2>2. \A d \in Cycles : \/ cycle'[d] = cycle[d] \/ cycle'[d].pc # "drift"
                          \/ d = c /\ cycle'[d].s = {s}
        BY <1>1 DEF AutoExecute, Onward, Proceed, Idle, CyclesOK
  <2>3. CASE Type[s] = FollowUp /\ User[s] = u
    <3>1. followups[u] < FollowupLimit
          BY <1>1, <2>3 DEF AutoExecute, FollowupAllowed
    <3>2. Admitted(u)' \in SUBSET Cycles
          BY DEF Admitted
    <3>3. Cardinality(Admitted(u)') <= Cardinality(Cycles) /\ Cardinality(Admitted(u)') \in Nat
          BY <3>2, FS_Subset, FS_CardinalityType, BoundsAssumption
    <3>4. Cardinality(Cycles) \in Nat
          BY FS_CardinalityType, BoundsAssumption
    <3>. QED  BY <2>1, <3>1, <3>3, <3>4, BoundsAssumption
  <2>4. CASE ~(Type[s] = FollowUp /\ User[s] = u)
    <3>1. Admitted(u)' \in SUBSET Admitted(u)
          BY <2>2, <2>4 DEF Admitted, At, Serves
    <3>2. Cardinality(Admitted(u)') <= Cardinality(Admitted(u)) /\ Cardinality(Admitted(u)') \in Nat
          BY <3>1, AdmittedFinite, FS_Subset, FS_CardinalityType
    <3>. QED  BY <2>1, <3>2, AdmittedFinite, BoundsAssumption DEF LimitOK
  <2>. QED  BY <2>3, <2>4
<1>2. ASSUME NEW c \in Cycles, NEW s \in Suggestions, DriftPasses(c, s)
      PROVE  LimitOK'
  <2>1. \A d \in Cycles : cycle'[d] = cycle[d] \/ cycle'[d].pc # "drift"
        BY <1>2 DEF DriftPasses, CyclesOK
  <2>2. CASE Type[s] # FollowUp
        BY <1>2, <2>1, <2>2, NoneAdmitted DEF DriftPasses
  <2>3. CASE Type[s] = FollowUp
    <3>. SUFFICES ASSUME NEW u \in Users
         PROVE  followups'[u] + Cardinality(Admitted(u)') < FollowupLimit + Cardinality(Cycles)
         BY DEF LimitOK
    <3>1. Admitted(u)' \in SUBSET Admitted(u)
          BY <2>1 DEF Admitted, At, Serves
    <3>2. CASE User[s] = u
      <4>1. c \in Admitted(u) /\ c \notin Admitted(u)'
            BY <1>2, <2>3, <3>2 DEF DriftPasses, Admitted, At, CyclesOK
      <4>2. Admitted(u)' \in SUBSET (Admitted(u) \ {c})
            BY <3>1, <4>1
      <4>3. /\ IsFiniteSet(Admitted(u) \ {c})
            /\ Cardinality(Admitted(u) \ {c}) = Cardinality(Admitted(u)) - 1
            BY <4>1, AdmittedFinite, FS_RemoveElement
      <4>4. /\ Cardinality(Admitted(u)') <= Cardinality(Admitted(u)) - 1
            /\ Cardinality(Admitted(u)') \in Nat
            BY <4>2, <4>3, FS_Subset, FS_CardinalityType
      <4>5. followups'[u] = followups[u] + 1 /\ followups[u] \in Nat
            BY <1>2, <2>3, <3>2 DEF DriftPasses, TypeOK
      <4>. QED  BY <4>4, <4>5, AdmittedFinite, BoundsAssumption DEF LimitOK
    <3>3. CASE User[s] # u
      <4>1. followups'[u] = followups[u] /\ followups[u] \in Nat
            BY <1>2, <3>3 DEF DriftPasses, TypeOK
      <4>2. Cardinality(Admitted(u)') <= Cardinality(Admitted(u)) /\ Cardinality(Admitted(u)') \in Nat
            BY <3>1, AdmittedFinite, FS_Subset, FS_CardinalityType
      <4>. QED  BY <4>1, <4>2, AdmittedFinite, BoundsAssumption DEF LimitOK
    <3>. QED  BY <3>2, <3>3
  <2>. QED  BY <2>2, <2>3
<1>3. ASSUME NEW c \in Cycles,
             \/ Scan(c)
             \/ \E s \in Suggestions : Skip(c, s) \/ Offer(c, s) \/ Notified(c, s)
                                       \/ DriftBlocks(c, s) \/ Executed(c, s) \/ ExecutionFails(c, s)
      PROVE  LimitOK'
  <2>1. followups' = followups
        BY <1>3 DEF Scan, Skip, Offer, Notified, DriftBlocks, Executed, ExecutionFails
  <2>2. \A d \in Cycles : cycle'[d] = cycle[d] \/ cycle'[d].pc # "drift"
        BY <1>3 DEF Scan, Skip, Offer, Notified, DriftBlocks, Executed, ExecutionFails, Onward,
                    Proceed, Idle, CyclesOK
  <2>. QED  BY <2>1, <2>2, NoneAdmitted
<1>4. CASE Outside
  <2>1. followups' = followups
        BY <1>4 DEF Outside, Owner, Reject, RejectSandbox, Approve, Approved, ApprovalFails,
                    ApplySandbox, SandboxApplied, Expire, CooldownEnds, UpdateRule, Restart
  <2>2. cycle' = cycle \/ \A c \in Cycles : cycle'[c].pc = "idle"
        BY <1>4 DEF Outside, Owner, Reject, RejectSandbox, Approve, Approved, ApprovalFails,
                    ApplySandbox, SandboxApplied, Expire, CooldownEnds, UpdateRule, Restart, Idle
  <2>. QED  BY <2>1, <2>2, NoneAdmitted
<1>5. CASE UNCHANGED vars
      BY <1>5, NoneAdmitted DEF vars
<1>. QED  BY <1>1, <1>2, <1>3, <1>4, <1>5, NextIs DEF Monitor

-----------------------------------------------------------------------------
(* Sandboxes                                                               *)

LEMMA AppliedStep ==
    ASSUME EngineInv, [Next]_vars
    PROVE  AppliedMeansDone'
<1>. USE DEF EngineInv
<1>. SUFFICES ASSUME NEW x \in Callable, sandbox'[x] = "applied"
     PROVE  \/ auto'[x] + owned'[x] > 0
            \/ x \in misheard'
            \/ \E c \in Cycles : cycle'[c].pc = "execute" /\ cycle'[c].s = {x}
     BY DEF AppliedMeansDone, At, Serves
<1>. DEFINE Done  == auto[x] + owned[x] > 0 \/ x \in misheard
            Under == \E c \in Cycles : cycle[c].pc = "execute" /\ cycle[c].s = {x}
<1>0. x \in Suggestions /\ x \in HasAction /\ (sandbox[x] = "applied" => Done \/ Under)
      BY InputsAssumption DEF AppliedMeansDone, At, Serves
<1>1. auto'[x] >= auto[x] /\ owned'[x] >= owned[x]
      /\ {auto[x], owned[x], auto'[x], owned'[x]} \subseteq Nat
  <2>1. CASE \E c \in Cycles : Monitor(c)
        BY <1>0, <2>1 DEF Counts, Monitor, Scan, Skip, AutoExecute, Offer, Notified, DriftBlocks,
                    DriftPasses, Executed, ExecutionFails, Tally, done
  <2>2. CASE Outside
        BY <1>0, <2>2 DEF Counts, Outside, Owner, Reject, RejectSandbox, Approve, Approved,
                    ApprovalFails, ApplySandbox, SandboxApplied, CarryOut, Tally, Expire,
                    CooldownEnds, UpdateRule, Restart, done
  <2>3. CASE UNCHANGED vars
        BY <1>0, <2>3 DEF vars, done, Counts
  <2>. QED  BY <2>1, <2>2, <2>3, NextIs
<1>2. Done => Done'
  <2>1. misheard \subseteq misheard'
    <3>1. CASE \E c \in Cycles : Monitor(c)
          BY <3>1 DEF Monitor, Scan, Skip, AutoExecute, Offer, Notified, DriftBlocks, DriftPasses,
                      Executed, ExecutionFails, Misheard, done
    <3>2. CASE Outside
      <4>1. ~Restart
            BY <1>0 DEF Restart
      <4>. QED  BY <3>2, <4>1 DEF Outside, Owner, Reject, RejectSandbox, Approve, Approved,
                    ApprovalFails, ApplySandbox, SandboxApplied, CarryOut, Misheard, Expire,
                    CooldownEnds, UpdateRule, done
    <3>3. CASE UNCHANGED vars
          BY <3>3 DEF vars, done
    <3>. QED  BY <3>1, <3>2, <3>3, NextIs
  <2>. QED  BY <1>1, <2>1
<1>3. ASSUME NEW c \in Cycles, NEW s \in Suggestions, DriftPasses(c, s)
      PROVE  Done' \/ Under'
  <2>1. \A d \in Cycles \ {c} : cycle'[d] = cycle[d]
        BY <1>3 DEF DriftPasses, CyclesOK
  <2>2. cycle[c].pc = "drift" /\ cycle[c].s = {s}
        /\ cycle'[c].pc = "execute" /\ cycle'[c].s = {s}
        BY <1>3 DEF DriftPasses, At, Serves, CyclesOK
  <2>3. x # s => sandbox[x] = "applied"
        BY <1>0, <1>3 DEF DriftPasses, TypeOK
  <2>. QED  BY <1>0, <1>2, <2>1, <2>2, <2>3
<1>4. ASSUME NEW c \in Cycles, NEW s \in Suggestions, Executed(c, s) \/ ExecutionFails(c, s)
      PROVE  Done' \/ Under'
  <2>1. cycle[c].s = {s} /\ \A d \in Cycles \ {c} : cycle'[d] = cycle[d]
        BY <1>4 DEF Executed, ExecutionFails, Serves, Onward, CyclesOK
  <2>2. CASE x = s
        BY <1>0, <1>1, <1>4, <2>2 DEF Executed, ExecutionFails, Tally, Misheard, TypeOK, Counts
  <2>3. CASE x # s
    <3>1. sandbox[x] = "applied"
          BY <1>0, <1>4, <2>3 DEF Executed, ExecutionFails, TypeOK
    <3>. QED  BY <1>0, <1>2, <2>1, <2>3, <3>1
  <2>. QED  BY <2>2, <2>3
<1>5. ASSUME NEW c \in Cycles,
             \/ Scan(c)
             \/ \E s \in Suggestions : Skip(c, s) \/ AutoExecute(c, s) \/ Offer(c, s)
                                       \/ Notified(c, s) \/ DriftBlocks(c, s)
      PROVE  Done' \/ Under'
  <2>1. sandbox[x] = "applied"
        BY <1>0, <1>5 DEF Scan, Skip, AutoExecute, Offer, Notified, DriftBlocks, memory, TypeOK
  <2>2. cycle[c].pc # "execute" /\ \A d \in Cycles \ {c} : cycle'[d] = cycle[d]
        BY <1>5 DEF Scan, Skip, AutoExecute, Offer, Notified, DriftBlocks, Take, At, Onward,
                    Proceed, CyclesOK
  <2>. QED  BY <1>0, <1>2, <2>1, <2>2
<1>6. ASSUME NEW s \in Suggestions, NEW k \in Clerks, Approved(k, s) \/ SandboxApplied(k, s)
      PROVE  Done' \/ Under'
  <2>1. sandbox[x] = "applied" \/ owned'[x] = owned[x] + 1 \/ x \in misheard'
        BY <1>0, <1>6 DEF Approved, SandboxApplied, CarryOut, Tally, Misheard, Counts, TypeOK
  <2>2. cycle' = cycle
        BY <1>6 DEF Approved, SandboxApplied
  <2>. QED  BY <1>0, <1>1, <1>2, <2>1, <2>2
<1>7. CASE Outside /\ \A s \in Suggestions, k \in Clerks : ~Approved(k, s) /\ ~SandboxApplied(k, s)
  <2>1. ~Restart
        BY <1>0 DEF Restart
  <2>2. cycle' = cycle /\ sandbox[x] = "applied"
        BY <1>0, <1>7, <2>1 DEF Outside, Owner, Reject, RejectSandbox, Approve, ApprovalFails,
                    ApplySandbox, Expire, CooldownEnds, UpdateRule, memory, TypeOK
  <2>. QED  BY <1>0, <1>2, <2>2
<1>8. CASE UNCHANGED vars
      BY <1>0, <1>2, <1>8 DEF vars, memory
<1>. QED  BY <1>3, <1>4, <1>5, <1>6, <1>7, <1>8, NextIs DEF Monitor

-----------------------------------------------------------------------------
LEMMA EngineInit == Init => EngineInv
<1>. SUFFICES ASSUME Init PROVE EngineInv
     OBVIOUS
<1>1. TypeOK /\ CyclesOK /\ Counts /\ AppliedMeansDone
      BY InputsAssumption DEF Init, TypeOK, CyclesOK, Counts, CyclePcs, InHand, Idle, Free,
                              AppliedMeansDone
<1>2. ConsentOK
      BY DEF Init, Idle, Free, ConsentOK, AutoNeedsConsent
<1>3. LimitOK
  <2>1. \A u \in Users : followups[u] = 0 /\ Admitted(u) = {}
        BY DEF Init, Idle, Admitted, At
  <2>2. Cardinality({}) = 0 /\ Cardinality(Cycles) \in Nat /\ Cardinality(Cycles) # 0
        BY FS_EmptySet, FS_CardinalityType, BoundsAssumption
  <2>. QED  BY <2>1, <2>2, BoundsAssumption DEF LimitOK
<1>. QED  BY <1>1, <1>2, <1>3 DEF EngineInv

LEMMA EngineInvariant == Spec => []EngineInv
<1>1. EngineInv /\ [Next]_vars => EngineInv'
      BY TypesStep, ConsentStep, LimitStep, AppliedStep DEF EngineInv
<1>. QED  BY <1>1, EngineInit, PTL DEF Spec

(* Every value of the decision engine keeps its type, and a cycle has a    *)
(* suggestion in hand exactly while it waits.                              *)
THEOREM EngineTypeCorrect == Spec => []TypeOK
<1>1. EngineInv => TypeOK
      BY DEF EngineInv
<1>. QED  BY <1>1, EngineInvariant, PTL

(* However cycles, approvals and changed levels interleave, a cycle acts   *)
(* by itself only where the owner has consented.                           *)
THEOREM EngineAutoNeedsConsent == Spec => []AutoNeedsConsent
<1>1. EngineInv => AutoNeedsConsent
      BY DEF EngineInv, ConsentOK
<1>. QED  BY <1>1, EngineInvariant, PTL

(* For any number of cycles the limit of follow-ups is overshot by less    *)
(* than their number.                                                      *)
THEOREM EngineFollowupBound == Spec => []FollowupBound
<1>1. ASSUME EngineInv PROVE FollowupBound
  <2>. SUFFICES ASSUME NEW u \in Users
       PROVE  followups[u] < FollowupLimit + Cardinality(Cycles)
       BY DEF FollowupBound
  <2>1. followups[u] + Cardinality(Admitted(u)) < FollowupLimit + Cardinality(Cycles)
        /\ followups[u] \in Nat
        BY <1>1 DEF EngineInv, LimitOK, TypeOK
  <2>. QED  BY <2>1, AdmittedFinite, BoundsAssumption
<1>. QED  BY <1>1, EngineInvariant, PTL

(* However cycles, approvals, lost answers and restarts interleave, only a *)
(* refusal that was taken for a success leaves a sandbox that says applied *)
(* of a change that no service took or is being asked to take.             *)
THEOREM EngineAppliedMeansDone == Spec => []AppliedMeansDone
<1>1. EngineInv => AppliedMeansDone
      BY DEF EngineInv
<1>. QED  BY <1>1, EngineInvariant, PTL
=============================================================================
