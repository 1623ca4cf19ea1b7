-------------------------- MODULE LLMGatewayProofs --------------------------
(***************************************************************************)
(* Theorems about LLMGateway, for any requests, limits and batch size.     *)
(***************************************************************************)
EXTENDS LLMGateway, FiniteSetTheorems, TLAPS

-----------------------------------------------------------------------------
(* The inductive invariant                                                 *)

(* The timer handle is set exactly while entries wait, which is what keeps *)
(* a stale handle from passing for a coming flush.                         *)
TimerMeansPending == timer # NoTimer <=> pending # {}

(* What the cache holds under a key came from the model of that key, or    *)
(* from the fallback to a chat, for a request that allows the cache.       *)
KeptInKind(k, a) ==
    /\ a.status \in {"ok", "empty"} /\ CacheKey(a.to) = k /\ Ask[a.to].cache
    /\ a.model = Ask[a.to].model \/ (a.model = Fallback /\ AllowFallback(a.to))

CachedInKind == \A k \in Keys : \A a \in cache[k] : KeptInKind(k, a)

(* The fallback is only waited for in a chat.                              *)
OnlyChatsFallBack == \A r \in Requests : pc[r] = "falling_back" => AllowFallback(r)

GatewayInv ==
    /\ TypeOK /\ IsFiniteSet(pending)
    /\ NoneStranded /\ TimerMeansPending
    /\ AnsweredInKind /\ CachedInKind /\ OnlyChatsFallBack

(* What a batch that is taken, a timer that is armed and a flush leave.    *)
BatcherOK ==
    /\ pending \subseteq Requests /\ IsFiniteSet(pending)
    /\ Cardinality(pending) < BatchMax
    /\ timer \in Requests \cup {NoTimer}
    /\ armed \subseteq Requests /\ flushing \subseteq Requests
    /\ NoneStranded /\ TimerMeansPending

(* What the window, the cache and the replies are between them.            *)
RepliesOK ==
    /\ window \in [Meters -> Nat]
    /\ cache \in [Keys -> SUBSET Replies]
    /\ reply \in [Requests -> Replies]
    /\ AnsweredInKind /\ CachedInKind

PcOK ==
    /\ pc \in [Requests -> {"new", "waiting", "calling", "falling_back", "done"}]
    /\ OnlyChatsFallBack

LEMMA InvParts == GatewayInv <=> BatcherOK /\ RepliesOK /\ PcOK
BY DEF GatewayInv, BatcherOK, RepliesOK, PcOK, TypeOK

-----------------------------------------------------------------------------
(* Names                                                                   *)

LEMMA MetersOf ==
    ASSUME NEW r \in Requests
    PROVE  CallerMeter(r) \in Meters /\ UserMeter(r) \in Meters
BY DEF Meters

LEMMA KeyOf == ASSUME NEW r \in Requests PROVE CacheKey(r) \in Keys
BY DEF Keys

LEMMA RepliesOf ==
    ASSUME NEW r \in Requests
    PROVE  /\ \A s \in {"none", "ok", "limited", "blocked", "unavailable", "error"} :
                Says(r, s) \in Replies
           /\ \A m \in {Ask[r].model, Fallback} :
                From(r, m) \in Replies /\ Empty(r, m) \in Replies
BY DEF Says, From, Empty, Replies, Models

LEMMA WindowType ==
    ASSUME NEW r \in Requests, window \in [Meters -> Nat]
    PROVE  /\ WindowAfter(r) \in [Meters -> Nat]
           /\ Recorded(window, CallerMeter(r)) \in [Meters -> Nat]
<1>1. ASSUME NEW w \in [Meters -> Nat], NEW m \in Meters
      PROVE  Recorded(w, m) \in [Meters -> Nat]
      BY DEF Recorded
<1>. QED  BY <1>1, MetersOf DEF WindowAfter

-----------------------------------------------------------------------------
(* The batcher                                                             *)

LEMMA NothingPends ==
    ASSUME pending' = {}, \A r \in Requests : pc'[r] # "waiting",
           timer' = NoTimer, armed' \subseteq Requests, flushing' \subseteq Requests
    PROVE  BatcherOK'
<1>1. IsFiniteSet({}) /\ Cardinality({}) = 0
      BY FS_EmptySet
<1>. QED  BY <1>1, BoundsAssumption DEF BatcherOK, NoneStranded, TimerMeansPending

LEMMA SubmitKeeps ==
    ASSUME BatcherOK, PcOK, NEW r \in Requests, pc[r] = "new", Submit(r)
    PROVE  BatcherOK' /\ PcOK'
<1>. USE DEF BatcherOK, PcOK
<1>1. CASE Cardinality(pending \cup {r}) >= BatchMax
  <2>1. TakeFull(pending \cup {r})
        BY <1>1 DEF Submit
  <2>2. \A q \in Requests : pc'[q] # "waiting"
        BY <2>1 DEF TakeFull, NoneStranded
  <2>. QED  BY <2>1, <2>2, NothingPends DEF TakeFull, OnlyChatsFallBack
<1>2. CASE ~(Cardinality(pending \cup {r}) >= BatchMax)
  <2>1. /\ pending' = pending \cup {r}
        /\ pc' = [pc EXCEPT ![r] = "waiting"]
        /\ timer' = IF timer = NoTimer THEN r ELSE timer
        /\ armed' = IF timer = NoTimer THEN armed \cup {r} ELSE armed
        /\ UNCHANGED flushing
        BY <1>2 DEF Submit
  <2>2. IsFiniteSet(pending') /\ Cardinality(pending') < BatchMax
        BY <1>2, <2>1, FS_AddElement, FS_CardinalityType, BoundsAssumption
  <2>3. NoneStranded'
        BY <2>1 DEF NoneStranded, TimerMeansPending
  <2>4. TimerMeansPending'
        BY <2>1, NamesAssumption DEF TimerMeansPending
  <2>5. OnlyChatsFallBack'
        BY <2>1 DEF OnlyChatsFallBack
  <2>. QED  BY <2>1, <2>2, <2>3, <2>4, <2>5
<1>. QED  BY <1>1, <1>2

(* A step that answers a request, or passes it on to the fallback, takes   *)
(* nobody from the batcher and puts nobody into it.                        *)
LEMMA BatcherUntouched ==
    ASSUME BatcherOK, PcOK, NEW r \in Requests, pc[r] # "waiting", UNCHANGED batcher,
           NEW to \in {"calling", "falling_back", "done"}, pc' = [pc EXCEPT ![r] = to],
           to = "falling_back" => AllowFallback(r)
    PROVE  BatcherOK' /\ PcOK'
BY DEF BatcherOK, PcOK, OnlyChatsFallBack, NoneStranded, TimerMeansPending, batcher

-----------------------------------------------------------------------------
(* The replies                                                             *)

(* An answer that is its request's own, or of the cache.                   *)
Fits(r, a) ==
    a.status = "ok" \/ a.to # r =>
        /\ a.status = "ok"
        /\ Ask[a.to].messages = Ask[r].messages /\ Ask[a.to].model = Ask[r].model
        /\ a.model = Ask[r].model \/ (a.model = Fallback /\ AllowFallback(a.to))
        /\ a.to # r => Ask[a.to].cache /\ Ask[r].cache

LEMMA AnswerFits ==
    ASSUME reply \in [Requests -> Replies], AnsweredInKind,
           NEW r \in Requests, NEW a \in Replies, Answer(r, a), Fits(r, a)
    PROVE  reply' \in [Requests -> Replies] /\ AnsweredInKind'
<1>1. \A q \in Requests : reply'[q] = IF q = r THEN a ELSE reply[q]
      BY DEF Answer
<1>2. \A q \in Requests : Fits(q, reply'[q])
      BY <1>1 DEF AnsweredInKind, Fits
<1>3. AnsweredInKind'
      BY <1>2 DEF AnsweredInKind, Fits
<1>. QED  BY <1>3 DEF Answer

LEMMA AnswerKeeps ==
    ASSUME RepliesOK, NEW r \in Requests, NEW a \in Replies, Answer(r, a), Fits(r, a),
           UNCHANGED cache, window' \in [Meters -> Nat]
    PROVE  RepliesOK'
<1>1. reply' \in [Requests -> Replies] /\ AnsweredInKind'
      BY AnswerFits DEF RepliesOK
<1>. QED  BY <1>1 DEF RepliesOK, CachedInKind

LEMMA SaysFits ==
    ASSUME NEW r \in Requests, NEW s, s # "ok"
    PROVE  Fits(r, Says(r, s))
BY DEF Fits, Says

LEMMA StoreKeeps ==
    ASSUME cache \in [Keys -> SUBSET Replies], CachedInKind, NEW r \in Requests,
           NEW m \in {Ask[r].model, Fallback}, m = Ask[r].model \/ AllowFallback(r),
           NEW a \in {From(r, m), Empty(r, m)}, Store(r, a)
    PROVE  cache' \in [Keys -> SUBSET Replies] /\ CachedInKind'
<1>1. CASE cache' = cache
      BY <1>1 DEF CachedInKind
<1>2. CASE cache' = [cache EXCEPT ![CacheKey(r)] = {a}] /\ Ask[r].cache
  <2>1. a \in Replies /\ KeptInKind(CacheKey(r), a)
    <3>1. a \in Replies
          BY RepliesOf
    <3>2. a.to = r /\ a.model = m /\ a.status \in {"ok", "empty"}
          BY DEF From, Empty
    <3>. QED  BY <1>2, <3>1, <3>2 DEF KeptInKind
  <2>. QED  BY <1>2, <2>1, KeyOf DEF CachedInKind
<1>. QED  BY <1>1, <1>2 DEF Store

LEMMA SucceedKeeps ==
    ASSUME RepliesOK, NEW r \in Requests, NEW m \in {Ask[r].model, Fallback},
           m = Ask[r].model \/ AllowFallback(r), Succeed(r, m), UNCHANGED window
    PROVE  RepliesOK'
<1>1. cache' \in [Keys -> SUBSET Replies] /\ CachedInKind'
      BY StoreKeeps DEF Succeed, RepliesOK
<1>2. \E a \in Replies : Answer(r, a) /\ Fits(r, a)
  <2>1. Fits(r, From(r, m))
        BY DEF Fits, From
  <2>2. Fits(r, Says(r, "error"))
        BY SaysFits
  <2>. QED  BY <2>1, <2>2, RepliesOf DEF Succeed
<1>3. reply' \in [Requests -> Replies] /\ AnsweredInKind'
      BY <1>2, AnswerFits DEF RepliesOK
<1>. QED  BY <1>1, <1>3 DEF RepliesOK

-----------------------------------------------------------------------------
(* Every step preserves the invariant                                      *)

LEMMA GatewayInit == Init => GatewayInv
<1>. SUFFICES ASSUME Init PROVE GatewayInv
     OBVIOUS
<1>1. IsFiniteSet({}) /\ Cardinality({}) = 0
      BY FS_EmptySet
<1>2. BatcherOK
      BY <1>1, BoundsAssumption DEF Init, BatcherOK, NoneStranded, TimerMeansPending
<1>3. window \in [Meters -> Nat] /\ cache \in [Keys -> SUBSET Replies] /\ CachedInKind
      BY DEF Init, CachedInKind
<1>4. reply \in [Requests -> Replies] /\ AnsweredInKind
      BY RepliesOf DEF Init, AnsweredInKind, Says
<1>. QED  BY <1>2, <1>3, <1>4, InvParts DEF Init, PcOK, RepliesOK, OnlyChatsFallBack

LEMMA GatewayStep == GatewayInv /\ [Next]_vars => GatewayInv'
<1>. SUFFICES ASSUME BatcherOK, RepliesOK, PcOK, [Next]_vars
              PROVE  BatcherOK' /\ RepliesOK' /\ PcOK'
     BY DEF GatewayInv, BatcherOK, RepliesOK, PcOK, TypeOK
<1>1. CASE UNCHANGED vars
      BY <1>1 DEF vars, batcher, BatcherOK, RepliesOK, PcOK, NoneStranded,
                  TimerMeansPending, AnsweredInKind, CachedInKind, OnlyChatsFallBack
<1>2. ASSUME NEW r \in Requests, GenerateFails(r) \/ Limited(r) \/ Stream(r)
      PROVE  BatcherOK' /\ RepliesOK' /\ PcOK'
  <2>1. /\ pc[r] = "new" /\ UNCHANGED <<cache, batcher>>
        /\ window' \in [Meters -> Nat]
        BY <1>2, WindowType DEF GenerateFails, Limited, Stream, RepliesOK
  <2>2. \E a \in Replies : Answer(r, a) /\ Fits(r, a)
    <3>1. Fits(r, From(r, Ask[r].model)) /\ Fits(r, Says(r, "error"))
          /\ Fits(r, Says(r, "limited"))
          BY SaysFits DEF Fits, From
    <3>. QED  BY <1>2, <3>1, RepliesOf DEF GenerateFails, Limited, Stream
  <2>. QED  BY <2>1, <2>2, AnswerKeeps, BatcherUntouched DEF Answer, PcOK
<1>3. ASSUME NEW r \in Requests, Hit(r)
      PROVE  BatcherOK' /\ RepliesOK' /\ PcOK'
  <2>1. PICK a \in cache[CacheKey(r)] : a.status # "empty" /\ Answer(r, a) /\ Ask[r].cache
        BY <1>3 DEF Hit
  <2>2. a \in Replies /\ KeptInKind(CacheKey(r), a)
        BY KeyOf DEF RepliesOK, CachedInKind
  <2>3. Ask[a.to].messages = Ask[r].messages /\ Ask[a.to].model = Ask[r].model
        BY <2>2 DEF KeptInKind, CacheKey
  <2>4. Fits(r, a)
        BY <2>1, <2>2, <2>3 DEF Fits, KeptInKind
  <2>5. /\ pc[r] = "new" /\ window' \in [Meters -> Nat]
        /\ UNCHANGED cache /\ UNCHANGED batcher
        BY <1>3, WindowType DEF Hit, RepliesOK
  <2>6. RepliesOK'
        BY <2>1, <2>2, <2>4, <2>5, AnswerKeeps
  <2>7. BatcherOK' /\ PcOK'
        BY <2>1, <2>5, BatcherUntouched DEF Answer
  <2>. QED  BY <2>6, <2>7
<1>4. ASSUME NEW r \in Requests, Miss(r)
      PROVE  BatcherOK' /\ RepliesOK' /\ PcOK'
  <2>1. BatcherOK' /\ PcOK'
        BY <1>4, SubmitKeeps DEF Miss
  <2>2. window' \in [Meters -> Nat] /\ UNCHANGED <<cache, reply>>
        BY <1>4, WindowType DEF Miss, RepliesOK
  <2>3. RepliesOK'
        BY <2>2 DEF RepliesOK, AnsweredInKind, CachedInKind
  <2>. QED  BY <2>1, <2>3
<1>5. ASSUME NEW t \in Requests, Fire(t)
      PROVE  BatcherOK' /\ RepliesOK' /\ PcOK'
      BY <1>5 DEF Fire, BatcherOK, RepliesOK, PcOK, NoneStranded, TimerMeansPending,
                  AnsweredInKind, CachedInKind, OnlyChatsFallBack
<1>6. ASSUME NEW t \in Requests, Flush(t)
      PROVE  BatcherOK' /\ RepliesOK' /\ PcOK'
  <2>1. \A q \in Requests : pc'[q] # "waiting"
        BY <1>6 DEF Flush, PcOK, BatcherOK, NoneStranded
  <2>2. timer' = NoTimer
        BY <1>6 DEF Flush, BatcherOK, TimerMeansPending
  <2>3. BatcherOK'
        BY <1>6, <2>1, <2>2, NothingPends DEF Flush, BatcherOK
  <2>4. RepliesOK'
        BY <1>6 DEF Flush, RepliesOK, AnsweredInKind, CachedInKind
  <2>5. PcOK'
        BY <1>6 DEF Flush, PcOK, OnlyChatsFallBack
  <2>. QED  BY <2>3, <2>4, <2>5
<1>7. ASSUME NEW r \in Requests, CallOne(r)
      PROVE  BatcherOK' /\ RepliesOK' /\ PcOK'
  <2>1. CASE Returned(r)
    <3>1. /\ pc[r] = "calling" /\ Succeed(r, Ask[r].model)
          /\ UNCHANGED window /\ UNCHANGED batcher
          BY <2>1 DEF Returned
    <3>2. pc' = [pc EXCEPT ![r] = "done"]
          BY <3>1 DEF Succeed, Answer
    <3>3. RepliesOK'
          BY <3>1, SucceedKeeps
    <3>4. BatcherOK' /\ PcOK'
          BY <3>1, <3>2, BatcherUntouched
    <3>. QED  BY <3>3, <3>4
  <2>2. CASE FallBack(r)
    <3>1. BatcherOK' /\ PcOK'
          BY <2>2, BatcherUntouched DEF FallBack
    <3>2. RepliesOK'
          BY <2>2 DEF FallBack, RepliesOK, AnsweredInKind, CachedInKind
    <3>. QED  BY <3>1, <3>2
  <2>3. CASE NoFallback(r)
    <3>. DEFINE a == Says(r, IF Ask[r].model = Fallback THEN "unavailable" ELSE "blocked")
    <3>1. a \in Replies /\ Fits(r, a)
          BY RepliesOf, SaysFits
    <3>2. /\ pc[r] = "calling" /\ Answer(r, a)
          /\ UNCHANGED window /\ UNCHANGED cache /\ UNCHANGED batcher
          BY <2>3 DEF NoFallback
    <3>. HIDE DEF a
    <3>3. RepliesOK'
          BY <3>1, <3>2, AnswerKeeps DEF RepliesOK
    <3>4. BatcherOK' /\ PcOK'
          BY <3>2, BatcherUntouched DEF Answer
    <3>. QED  BY <3>3, <3>4
  <2>. QED  BY <1>7, <2>1, <2>2, <2>3 DEF CallOne
<1>8. ASSUME NEW r \in Requests, CallFallback(r)
      PROVE  BatcherOK' /\ RepliesOK' /\ PcOK'
  <2>1. CASE FallbackReturns(r)
    <3>1. /\ pc[r] = "falling_back" /\ Succeed(r, Fallback)
          /\ UNCHANGED window /\ UNCHANGED batcher
          BY <2>1 DEF FallbackReturns
    <3>2. pc' = [pc EXCEPT ![r] = "done"] /\ AllowFallback(r)
          BY <3>1 DEF Succeed, Answer, PcOK, OnlyChatsFallBack
    <3>3. RepliesOK'
          BY <3>1, <3>2, SucceedKeeps
    <3>4. BatcherOK' /\ PcOK'
          BY <3>1, <3>2, BatcherUntouched
    <3>. QED  BY <3>3, <3>4
  <2>2. CASE FallbackFails(r)
    <3>1. /\ pc[r] = "falling_back" /\ Answer(r, Says(r, "unavailable"))
          /\ UNCHANGED window /\ UNCHANGED cache /\ UNCHANGED batcher
          BY <2>2 DEF FallbackFails
    <3>2. Says(r, "unavailable") \in Replies /\ Fits(r, Says(r, "unavailable"))
          BY RepliesOf, SaysFits
    <3>3. RepliesOK'
          BY <3>1, <3>2, AnswerKeeps DEF RepliesOK
    <3>4. BatcherOK' /\ PcOK'
          BY <3>1, BatcherUntouched DEF Answer
    <3>. QED  BY <3>3, <3>4
  <2>. QED  BY <1>8, <2>1, <2>2 DEF CallFallback
<1>9. ASSUME NEW m \in Meters, Forget(m)
      PROVE  BatcherOK' /\ RepliesOK' /\ PcOK'
      BY <1>9 DEF Forget, batcher, BatcherOK, RepliesOK, PcOK, NoneStranded,
                  TimerMeansPending, AnsweredInKind, CachedInKind, OnlyChatsFallBack
<1>10. ASSUME NEW k \in Keys, Expire(k)
       PROVE  BatcherOK' /\ RepliesOK' /\ PcOK'
       BY <1>10 DEF Expire, batcher, BatcherOK, RepliesOK, PcOK, NoneStranded,
                    TimerMeansPending, AnsweredInKind, CachedInKind, OnlyChatsFallBack
<1>11. CASE Restart
  <2>1. \A q \in Requests : pc'[q] # "waiting"
        BY <1>11 DEF Restart, InFlight, PcOK
  <2>2. BatcherOK'
        BY <1>11, <2>1, NothingPends DEF Restart
  <2>3. cache' \in [Keys -> SUBSET Replies] /\ CachedInKind'
    <3>1. CASE UNCHANGED cache
          BY <3>1 DEF RepliesOK, CachedInKind
    <3>2. CASE \E r \in Requests :
                  /\ pc[r] \in {"calling", "falling_back"}
                  /\ \E a \in {From(r, Awaited(r)), Empty(r, Awaited(r))} : Store(r, a)
      <4>1. PICK r \in Requests :
               /\ pc[r] \in {"calling", "falling_back"}
               /\ \E a \in {From(r, Awaited(r)), Empty(r, Awaited(r))} : Store(r, a)
            BY <3>2
      <4>2. PICK m \in {Ask[r].model, Fallback} :
               m = Awaited(r) /\ (m = Ask[r].model \/ AllowFallback(r))
            BY <4>1 DEF Awaited, PcOK, OnlyChatsFallBack
      <4>3. PICK a \in {From(r, m), Empty(r, m)} : Store(r, a)
            BY <4>1, <4>2
      <4>. QED  BY <4>2, <4>3, StoreKeeps DEF RepliesOK
    <3>. QED  BY <1>11, <3>1, <3>2 DEF Restart
  <2>4. reply' \in [Requests -> Replies] /\ AnsweredInKind'
    <3>1. reply' \in [Requests -> Replies]
          BY <1>11, RepliesOf DEF Restart, RepliesOK
    <3>2. \A q \in Requests : Fits(q, reply'[q])
      <4>1. \A q \in Requests : Fits(q, reply[q]) /\ Fits(q, Says(q, "error"))
            BY SaysFits DEF RepliesOK, AnsweredInKind, Fits
      <4>2. \A q \in Requests : reply'[q] = reply[q] \/ reply'[q] = Says(q, "error")
            BY <1>11 DEF Restart
      <4>. QED  BY <4>1, <4>2
    <3>. QED  BY <3>1, <3>2 DEF AnsweredInKind, Fits
  <2>5. RepliesOK'
        BY <1>11, <2>3, <2>4 DEF Restart, RepliesOK
  <2>6. PcOK'
        BY <1>11 DEF Restart, PcOK, OnlyChatsFallBack, InFlight
  <2>. QED  BY <2>2, <2>5, <2>6
<1>. QED
     BY <1>1, <1>2, <1>3, <1>4, <1>5, <1>6, <1>7, <1>8, <1>9, <1>10, <1>11 DEF Next

LEMMA GatewayInvariant == Spec => []GatewayInv
BY GatewayInit, GatewayStep, PTL DEF Spec

-----------------------------------------------------------------------------

(* Every value of the gateway has its type and no waiting batch is full,   *)
(* whatever the limits and the size of a batch.                            *)
THEOREM GatewayTypeCorrect == Spec => []TypeOK
<1>1. GatewayInv => TypeOK
      BY DEF GatewayInv
<1>. QED  BY <1>1, GatewayInvariant, PTL

(* Whoever waits for the batcher has a timer armed or a flush scheduled.   *)
THEOREM GatewayNoneStranded == Spec => []NoneStranded
<1>1. GatewayInv => NoneStranded
      BY DEF GatewayInv
<1>. QED  BY <1>1, GatewayInvariant, PTL

(* For any requests, keys and limits: an answer out of the cache is what a *)
(* model said to the same prompt and model, or the fallback to a chat of   *)
(* it, through every fallback, empty reply, expiry and restart.            *)
THEOREM GatewayAnsweredInKind == Spec => []AnsweredInKind
<1>1. GatewayInv => AnsweredInKind
      BY DEF GatewayInv
<1>. QED  BY <1>1, GatewayInvariant, PTL
=============================================================================
