----------------------------- MODULE LLMGateway -----------------------------
(***************************************************************************)
(* The LLM gateway, llm-gateway/main.py: POST /generate with its two       *)
(* sliding-window rate limits and its reply cache in Redis, the batcher    *)
(* that collects requests of a short window before it calls the models,    *)
(* and the conditional fallback to a second model.                         *)
(*                                                                         *)
(* The handler is a coroutine whose only awaits are the batcher's future   *)
(* and the fallback call; Redis is called synchronously and the batcher's  *)
(* lock is never held across an await.  So all of it up to submit is one   *)
(* step of the event loop; a timer, a flush and a model's answer, with the *)
(* handler that it resumes, are others.                                    *)
(***************************************************************************)
EXTENDS Naturals, FiniteSets

CONSTANTS
    Requests,
    Ask,         \* what each request says
    Fallback,    \* settings.fallback_provider / fallback_model
    Limits,      \* rate_limit_rpm under "caller", rate_limit_per_user_rps under "user"
    BatchMax,    \* batch_max_size
    NoTimer, NoModel

ASSUME AskAssumption ==
    \A r \in Requests :
        /\ {"caller", "user", "messages", "model"} \subseteq DOMAIN Ask[r]
        /\ {Ask[r].chat, Ask[r].cache, Ask[r].stream} \subseteq BOOLEAN
        /\ Ask[r].model # NoModel
ASSUME NamesAssumption == NoTimer \notin Requests /\ Fallback # NoModel
ASSUME BoundsAssumption ==
    /\ BatchMax \in Nat \ {0}
    /\ Limits \in [{"caller", "user"} -> Nat \ {0}]

VARIABLES
    window,   \* Redis: the sizes of the rate limits' sorted sets
    cache,    \* Redis: the cached replies
    pc,       \* how far the handler of each request is
    reply,    \* what each request was answered
    pending,  \* the batcher's entries
    timer,    \* the batcher's timer handle, named after the request that armed it
    armed,    \* timers of the event loop that have not fired
    flushing  \* timers that fired and whose flush has not run

batcher == <<pending, timer, armed, flushing>>
vars == <<window, cache, pc, reply, batcher>>

Models == {Ask[r].model : r \in Requests} \cup {Fallback}

(* Mistake: the key leaves out the model.                                  *)
PromptKey(r) == <<Ask[r].messages>>

CacheKey(r) == <<Ask[r].messages, Ask[r].model>>
Keys == {CacheKey(r) : r \in Requests}

(* A reply names the model that gave it and the request it was given to;   *)
(* "empty" is a model's reply whose content is null.                       *)
Replies == [status : {"none", "ok", "empty", "limited", "blocked", "unavailable", "error"},
            model : Models \cup {NoModel}, to : Requests]
Says(r, status) == [status |-> status, model |-> NoModel, to |-> r]
From(r, m) == [status |-> "ok", model |-> m, to |-> r]
Empty(r, m) == [status |-> "empty", model |-> m, to |-> r]

CallerMeter(r) == <<"caller", Ask[r].caller>>
UserMeter(r) == <<"user", Ask[r].user>>
Meters == {CallerMeter(r) : r \in Requests} \cup {UserMeter(r) : r \in Requests}

Init ==
    /\ window = [m \in Meters |-> 0]
    /\ cache = [k \in Keys |-> {}]
    /\ pc = [r \in Requests |-> "new"]
    /\ reply = [r \in Requests |-> Says(r, "none")]
    /\ pending = {} /\ timer = NoTimer /\ armed = {} /\ flushing = {}

Answer(r, a) ==
    /\ pc' = [pc EXCEPT ![r] = "done"]
    /\ reply' = [reply EXCEPT ![r] = a]

-----------------------------------------------------------------------------
(* Rate limits                                                             *)

(* The count is taken with the request itself in the set.                  *)
Passes(w, m) == w[m] < Limits[m[1]]

(* A refused request is recorded as well.                                  *)
Recorded(w, m) == [w EXCEPT ![m] = @ + 1]

(* The second limit is asked only when the first one passes.               *)
WindowAfter(r) ==
    LET asked == Recorded(window, CallerMeter(r))
    IN IF Passes(window, CallerMeter(r)) THEN Recorded(asked, UserMeter(r)) ELSE asked

WithinLimits(r) == Passes(window, CallerMeter(r)) /\ Passes(window, UserMeter(r))

(* Time passes: the oldest record leaves the window.  The caller's minute  *)
(* and the user's second pass independently.                               *)
Forget(m) ==
    /\ window[m] > 0
    /\ window' = [window EXCEPT ![m] = @ - 1]
    /\ UNCHANGED <<cache, pc, reply, batcher>>

-----------------------------------------------------------------------------
(* The batcher                                                             *)

(* Mistake: a full batch is taken without resetting the timer.             *)
TakeFullKeepingTimer(batch) ==
    /\ pc' = [r \in Requests |-> IF r \in batch THEN "calling" ELSE pc[r]]
    /\ pending' = {}
    /\ armed' = armed \ {timer}
    /\ UNCHANGED <<timer, flushing>>

(* cancel() does nothing to a timer that has fired.                        *)
TakeFull(batch) ==
    /\ pc' = [r \in Requests |-> IF r \in batch THEN "calling" ELSE pc[r]]
    /\ pending' = {}
    /\ armed' = armed \ {timer}
    /\ timer' = NoTimer
    /\ UNCHANGED flushing

(* Mistake: a batch may grow past its size.                                *)
SubmitTooLate(r) ==
    IF Cardinality(pending) >= BatchMax
    THEN TakeFull(pending \cup {r})
    ELSE /\ pending' = pending \cup {r}
         /\ pc' = [pc EXCEPT ![r] = "waiting"]
         /\ timer' = IF timer = NoTimer THEN r ELSE timer
         /\ armed' = IF timer = NoTimer THEN armed \cup {r} ELSE armed
         /\ UNCHANGED flushing

Submit(r) ==
    IF Cardinality(pending \cup {r}) >= BatchMax
    THEN TakeFull(pending \cup {r})
    ELSE /\ pending' = pending \cup {r}
         /\ pc' = [pc EXCEPT ![r] = "waiting"]
         /\ timer' = IF timer = NoTimer THEN r ELSE timer
         /\ armed' = IF timer = NoTimer THEN armed \cup {r} ELSE armed
         /\ UNCHANGED flushing

Fire(t) ==
    /\ t \in armed
    /\ armed' = armed \ {t}
    /\ flushing' = flushing \cup {t}
    /\ UNCHANGED <<window, cache, pc, reply, pending, timer>>

(* Mistake: the entries stay in the list.                                  *)
FlushWithoutClearing(t) ==
    /\ t \in flushing
    /\ flushing' = flushing \ {t}
    /\ pc' = [r \in Requests |-> IF r \in pending THEN "calling" ELSE pc[r]]
    /\ timer' = NoTimer
    /\ UNCHANGED <<window, cache, reply, pending, armed>>

(* The flush of an old timer may take the entries of a newer one, and does *)
(* not cancel it.                                                          *)
Flush(t) ==
    /\ t \in flushing
    /\ flushing' = flushing \ {t}
    /\ pc' = [r \in Requests |-> IF r \in pending THEN "calling" ELSE pc[r]]
    /\ pending' = {}
    /\ timer' = IF pending = {} THEN timer ELSE NoTimer
    /\ UNCHANGED <<window, cache, reply, armed>>

-----------------------------------------------------------------------------
(* POST /generate                                                          *)

(* Redis is unreachable for one of the limits: nobody catches it.          *)
GenerateFails(r) ==
    /\ pc[r] = "new"
    /\ \/ UNCHANGED window
       \/ /\ Passes(window, CallerMeter(r))
          /\ window' = Recorded(window, CallerMeter(r))
    /\ Answer(r, Says(r, "error"))
    /\ UNCHANGED <<cache, batcher>>

Limited(r) ==
    /\ pc[r] = "new" /\ ~WithinLimits(r)
    /\ window' = WindowAfter(r)
    /\ Answer(r, Says(r, "limited"))
    /\ UNCHANGED <<cache, batcher>>

(* A stream passes by the cache, the batcher and the fallback.             *)
Stream(r) ==
    /\ pc[r] = "new" /\ WithinLimits(r) /\ Ask[r].stream
    /\ window' = WindowAfter(r)
    /\ \/ Answer(r, From(r, Ask[r].model))
       \/ Answer(r, Says(r, "error"))
    /\ UNCHANGED <<cache, batcher>>

Hit(r) ==
    /\ pc[r] = "new" /\ WithinLimits(r) /\ ~Ask[r].stream /\ Ask[r].cache
    /\ window' = WindowAfter(r)
    /\ \E a \in cache[CacheKey(r)] : a.status # "empty" /\ Answer(r, a)
    /\ UNCHANGED <<cache, batcher>>

(* A cache that cannot be read counts as a miss, and so does a reply that  *)
(* has no content.                                                         *)
Miss(r) ==
    /\ pc[r] = "new" /\ WithinLimits(r) /\ ~Ask[r].stream
    /\ window' = WindowAfter(r)
    /\ Submit(r)
    /\ UNCHANGED <<cache, reply>>

(* The cache is written under the key of the model that was asked, also    *)
(* when the fallback answered.  A write that fails is ignored.             *)
Store(r, a) ==
    IF Ask[r].cache
    THEN cache' \in {cache, [cache EXCEPT ![CacheKey(r)] = {a}]}
    ELSE UNCHANGED cache

(* First the cache, then the usage and the length of the content, which    *)
(* raises when there is none: the client gets a 500, the cache keeps it.   *)
Succeed(r, m) ==
    \/ Store(r, From(r, m)) /\ Answer(r, From(r, m))
    \/ Store(r, Empty(r, m)) /\ Answer(r, Says(r, "error"))

(* The model's answer resolves the future, which resumes the handler.      *)
Returned(r) ==
    /\ pc[r] = "calling"
    /\ Succeed(r, Ask[r].model)
    /\ UNCHANGED <<window, batcher>>

AllowFallback(r) == Ask[r].chat /\ Ask[r].model # Fallback

FallBack(r) ==
    /\ pc[r] = "calling" /\ AllowFallback(r)
    /\ pc' = [pc EXCEPT ![r] = "falling_back"]
    /\ UNCHANGED <<window, cache, reply, batcher>>

(* 502 when the model asked is the fallback, an apology otherwise.         *)
NoFallback(r) ==
    /\ pc[r] = "calling" /\ ~AllowFallback(r)
    /\ Answer(r, Says(r, IF Ask[r].model = Fallback THEN "unavailable" ELSE "blocked"))
    /\ UNCHANGED <<window, cache, batcher>>

FallbackReturns(r) ==
    /\ pc[r] = "falling_back"
    /\ Succeed(r, Fallback)
    /\ UNCHANGED <<window, batcher>>

FallbackFails(r) ==
    /\ pc[r] = "falling_back"
    /\ Answer(r, Says(r, "unavailable"))
    /\ UNCHANGED <<window, cache, batcher>>

-----------------------------------------------------------------------------
(* The cached reply's time to live ends.                                   *)
Expire(k) ==
    /\ cache[k] # {}
    /\ cache' = [cache EXCEPT ![k] = {}]
    /\ UNCHANGED <<window, pc, reply, batcher>>

InFlight(r) == pc[r] \notin {"new", "done"}

(* The model whose answer the handler waits for.                           *)
Awaited(r) == IF pc[r] = "calling" THEN Ask[r].model ELSE Fallback

(* The process dies: its requests break off, one of them perhaps between   *)
(* the cache and its answer.  Redis keeps what it has.                     *)
Restart ==
    /\ \/ UNCHANGED cache
       \/ \E r \in Requests : /\ pc[r] \in {"calling", "falling_back"}
                              /\ \E a \in {From(r, Awaited(r)), Empty(r, Awaited(r))} :
                                    Store(r, a)
    /\ pc' = [r \in Requests |-> IF InFlight(r) THEN "done" ELSE pc[r]]
    /\ reply' = [r \in Requests |-> IF InFlight(r) THEN Says(r, "error") ELSE reply[r]]
    /\ pending' = {} /\ timer' = NoTimer /\ armed' = {} /\ flushing' = {}
    /\ UNCHANGED window

CallOne(r) == Returned(r) \/ FallBack(r) \/ NoFallback(r)
CallFallback(r) == FallbackReturns(r) \/ FallbackFails(r)

Next ==
    \/ \E r \in Requests :
        \/ GenerateFails(r) \/ Limited(r) \/ Stream(r) \/ Hit(r) \/ Miss(r)
        \/ Fire(r) \/ Flush(r)
        \/ CallOne(r) \/ CallFallback(r)
    \/ \E m \in Meters : Forget(m)
    \/ \E k \in Keys : Expire(k)
    \/ Restart

(* The event loop keeps running, and a model's call ends: httpx gives up   *)
(* after its timeout.                                                      *)
Fairness ==
    \A r \in Requests :
        /\ WF_vars(Fire(r)) /\ WF_vars(Flush(r))
        /\ WF_vars(CallOne(r)) /\ WF_vars(CallFallback(r))

Spec == Init /\ [][Next]_vars
FairSpec == Spec /\ Fairness

-----------------------------------------------------------------------------
(* Properties                                                              *)

(* Every variable keeps its type, and a batch that waits is not full.      *)
TypeOK ==
    /\ window \in [Meters -> Nat]
    /\ cache \in [Keys -> SUBSET Replies]
    /\ pc \in [Requests -> {"new", "waiting", "calling", "falling_back", "done"}]
    /\ reply \in [Requests -> Replies]
    /\ pending \subseteq Requests /\ Cardinality(pending) < BatchMax
    /\ timer \in Requests \cup {NoTimer}
    /\ armed \subseteq Requests /\ flushing \subseteq Requests

(* Whoever waits for the batcher has a flush coming: full batches, old     *)
(* timers that fired meanwhile and cancelled ones never leave an entry     *)
(* behind without a timer that is armed or a flush that is scheduled.      *)
NoneStranded ==
    /\ pending = {r \in Requests : pc[r] = "waiting"}
    /\ pending # {} => timer \in armed \cup flushing

(* Whatever the cache was filled with by requests that fell back, raised   *)
(* or died with the process, a request is answered out of it with what a   *)
(* model said to the same prompt: the model it asks for, or the fallback   *)
(* in that model's place to a chat; never with an apology or an empty      *)
(* reply, and never across a request that opted out of the cache.          *)
AnsweredInKind ==
    \A r \in Requests : LET a == reply[r] IN
        a.status = "ok" \/ a.to # r =>
            /\ a.status = "ok"
            /\ Ask[a.to].messages = Ask[r].messages /\ Ask[a.to].model = Ask[r].model
            /\ a.model = Ask[r].model \/ (a.model = Fallback /\ AllowFallback(a.to))
            /\ a.to # r => Ask[a.to].cache /\ Ask[r].cache

(* Every request the batcher accepts is answered in the end: whenever some *)
(* wait, there comes a time when all of them, and those that joined them,  *)
(* have their answers.                                                     *)
EveryoneAnswered ==
    (\E r \in Requests : pc[r] = "waiting") ~> (\A r \in Requests : ~InFlight(r))
=============================================================================
