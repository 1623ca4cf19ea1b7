------------------------------ MODULE LLMQueue ------------------------------
(***************************************************************************)
(* The asynchronous LLM request queue: queue/main.py (the API clients and  *)
(* workers call), workers/main.py (the replicas that call the gateway) and *)
(* the Redis stream, consumer group and task hashes between them.          *)
(*                                                                         *)
(* A worker runs one coroutine that takes messages one at a time, so its   *)
(* steps are sequential; what other workers, the queue service and the     *)
(* expiry of keys do interleaves with them at every Redis command and HTTP *)
(* call.  The queue service is one process whose handlers never await: it  *)
(* is at one request at a time.  A message is named by its position in the *)
(* stream.                                                                 *)
(***************************************************************************)
EXTENDS Naturals, Sequences, FiniteSets

CONSTANTS
    Tasks,          \* task_id values
    Workers,        \* worker replicas
    BatchSize,      \* settings.batch_size
    MaxRetries,     \* settings.max_retries
    MaxStreamLen,   \* settings.max_stream_len, and 10000 in the worker
    ReportOutcomes, \* what may become of a worker's POST to the queue service
    MaxClaims,      \* messages claimed from a live worker (a bound)
    MaxCrashes,     \* workers and enqueue requests that may die (a bound)
    MaxAborts,      \* reports broken off before their EXPIRE (a bound)
    MaxExpiries     \* keys whose TTL may run out (a bound)

(* applied: done and answered; lost_reply: done, the answer is lost;       *)
(* lost_call: never comes to its HSET; refused: answered with an error     *)
(* status before it does.                                                  *)
AllOutcomes == {"applied", "lost_reply", "lost_call", "refused"}

ASSUME BoundsAssumption ==
    /\ BatchSize \in Nat \ {0} /\ MaxStreamLen \in Nat \ {0}
    /\ {MaxRetries, MaxClaims, MaxCrashes, MaxAborts, MaxExpiries} \subseteq Nat
ASSUME OutcomesAssumption == ReportOutcomes \subseteq AllOutcomes

VARIABLES
    task,      \* the hash task:{id}, or NoTask
    request,   \* where the enqueue request of a task stands
    stream,    \* every message ever added, as the task it names
    evicted,   \* how many of the oldest messages MAXLEN has dropped
    delivered, \* the group's last delivered message
    pel,       \* messages delivered and not acknowledged
    worker,    \* the worker's place in its loop
    calls,     \* gateway calls made for a task (history)
    claims, crashes, aborts, expiries

redis == <<task, stream, evicted, delivered, pel>>
bounds == <<claims, crashes, aborts, expiries>>
vars == <<redis, request, worker, calls, bounds>>

Statuses == {"pending", "processing", "completed", "failed"}
NoTask == [status |-> "absent"]
TaskHash == [status: Statuses, retries: 0..MaxRetries, ttl: BOOLEAN]
Ids == 1..Len(stream)

Places == {"take", "fetch", "mark", "call", "complete", "fail", "retry",
           "requeue", "giveup", "record", "ack"}

(* source: whether todo came from XREADGROUP or from XPENDING; seen: the   *)
(* retries of the task_data the worker fetched; report: the command the    *)
(* queue service is to send next for the worker's report.                  *)
AtRest == [pc |-> "idle", report |-> "none"]
Busy == [pc: Places, source: {"new", "pending"}, todo: SUBSET Ids, id: Nat,
         seen: 0..MaxRetries, report: {"none", "write", "renew"}]

Exists(t) == task[t] # NoTask
TaskOf(w) == stream[worker[w].id]
At(w, pc) == worker[w].pc = pc
Goto(w, pc) == worker' = [worker EXCEPT ![w].pc = pc]
Reporting(w) == worker[w].report # "none"
Oldest(ids) == CHOOSE i \in ids : \A j \in ids : i <= j

(* HSET on a key: fields that are not written stay, and a key that is gone *)
(* comes back with no TTL and no other field.                              *)
Hash(t) == IF Exists(t) THEN task[t]
                        ELSE [status |-> "pending", retries |-> 0, ttl |-> FALSE]
SetStatus(t, status) == task' = [task EXCEPT ![t] = [Hash(t) EXCEPT !.status = status]]

(* XADD with an approximate MAXLEN: the stream may or may not be cut.      *)
Add(t) ==
    /\ stream' = Append(stream, t)
    /\ \/ UNCHANGED evicted
       \/ /\ Len(stream') - evicted > MaxStreamLen
          /\ evicted' = Len(stream') - MaxStreamLen

(* The queue service is at no request.                                     *)
Free ==
    /\ \A w \in Workers : ~Reporting(w)
    /\ \A t \in Tasks : request[t] \notin {"stored", "expiring"}

Unread == {i \in Ids : i > delivered /\ i > evicted}

Init ==
    /\ task = [t \in Tasks |-> NoTask]
    /\ request = [t \in Tasks |-> "new"]
    /\ stream = <<>> /\ evicted = 0 /\ delivered = 0 /\ pel = {}
    /\ worker = [w \in Workers |-> AtRest]
    /\ calls = [t \in Tasks |-> 0]
    /\ claims = 0 /\ crashes = 0 /\ aborts = 0 /\ expiries = 0

-----------------------------------------------------------------------------
(* POST /enqueue: three Redis commands                                     *)

StoreTask(t) ==
    /\ request[t] = "new" /\ Free
    /\ request' = [request EXCEPT ![t] = "stored"]
    /\ SetStatus(t, "pending")
    /\ UNCHANGED <<stream, evicted, delivered, pel, worker, calls, bounds>>

SetExpiry(t) ==
    /\ request[t] = "stored"
    /\ request' = [request EXCEPT ![t] = "expiring"]
    /\ task' = [task EXCEPT ![t].ttl = TRUE]
    /\ UNCHANGED <<stream, evicted, delivered, pel, worker, calls, bounds>>

AddMessage(t) ==
    /\ request[t] = "expiring"
    /\ request' = [request EXCEPT ![t] = "answered"]
    /\ Add(t)
    /\ UNCHANGED <<task, delivered, pel, worker, calls, bounds>>

RequestDies(t) ==
    /\ request[t] \in {"stored", "expiring"}
    /\ crashes < MaxCrashes
    /\ crashes' = crashes + 1
    /\ request' = [request EXCEPT ![t] = "died"]
    /\ UNCHANGED <<redis, worker, calls, claims, aborts, expiries>>

(* The TTL of a key runs out (600 s after the enqueue or the last report). *)
Expire(t) ==
    /\ request[t] \in {"answered", "died"}
    /\ Exists(t) /\ task[t].ttl
    /\ expiries < MaxExpiries
    /\ expiries' = expiries + 1
    /\ task' = [task EXCEPT ![t] = NoTask]
    /\ UNCHANGED <<stream, evicted, delivered, pel, request, worker, calls,
                   claims, crashes, aborts>>

-----------------------------------------------------------------------------
(* _consumer_loop and _claim_stale_messages                                *)

Serve(w, source, ids) ==
    worker' = [worker EXCEPT ![w] = [pc |-> "take", source |-> source, todo |-> ids,
                                     id |-> 0, seen |-> 0, report |-> "none"]]

(* Mistake: NOACK, which leaves no trace of what a worker was given.       *)
ReadBatchNoAck(w) ==
    LET batch == {i \in Unread : Cardinality({j \in Unread : j < i}) < BatchSize} IN
    /\ At(w, "idle")
    /\ batch # {}
    /\ Serve(w, "new", batch)
    /\ delivered' = CHOOSE i \in batch : \A j \in batch : j <= i
    /\ UNCHANGED <<task, stream, evicted, pel, request, calls, bounds>>

(* XREADGROUP ">": up to BatchSize messages, all of them pending from now. *)
ReadBatch(w) ==
    LET batch == {i \in Unread : Cardinality({j \in Unread : j < i}) < BatchSize} IN
    /\ At(w, "idle")
    /\ batch # {}
    /\ Serve(w, "new", batch)
    /\ pel' = pel \cup batch
    /\ delivered' = CHOOSE i \in batch : \A j \in batch : j <= i
    /\ UNCHANGED <<task, stream, evicted, request, calls, bounds>>

(* Nothing new to read: XPENDING lists what some worker did not ack.       *)
ListPending(w) ==
    /\ At(w, "idle")
    /\ Unread = {} /\ pel # {}
    /\ Serve(w, "pending", pel)
    /\ UNCHANGED <<redis, request, calls, bounds>>

Take(w) ==
    LET id == Oldest(worker[w].todo) IN
    worker' = [worker EXCEPT ![w].pc = "fetch", ![w].id = id, ![w].todo = @ \ {id}]

TakeNew(w) ==
    /\ At(w, "take") /\ worker[w].source = "new" /\ worker[w].todo # {}
    /\ Take(w)
    /\ UNCHANGED <<redis, request, calls, bounds>>

(* A live worker is serving the message or has it in its batch.            *)
Serves(w) == worker[w].pc \notin {"idle", "take"}

Holds(w, id) ==
    \/ Serves(w) /\ worker[w].id = id
    \/ ~At(w, "idle") /\ worker[w].source = "new" /\ id \in worker[w].todo

Kept(id) == \E w \in Workers : Holds(w, id)

(* XCLAIM of a message idle for over a minute, which says that nobody      *)
(* acknowledged it since and not that its worker crashed: one gateway call *)
(* may take three minutes and a batch several of them.                     *)
Claim(w) ==
    LET id == Oldest(worker[w].todo) IN
    /\ At(w, "take") /\ worker[w].source = "pending" /\ worker[w].todo # {}
    /\ id \in pel /\ id > evicted
    /\ IF Kept(id) THEN claims < MaxClaims /\ claims' = claims + 1
                   ELSE UNCHANGED claims
    /\ Take(w)
    /\ UNCHANGED <<redis, request, calls, crashes, aborts, expiries>>

(* The listed message is not stale, was acknowledged meanwhile, or is no   *)
(* longer in the stream; XCLAIM drops the last kind from the pending list. *)
SkipPending(w) ==
    /\ At(w, "take") /\ worker[w].source = "pending" /\ worker[w].todo # {}
    /\ LET id == Oldest(worker[w].todo) IN
        /\ worker' = [worker EXCEPT ![w].todo = @ \ {id}]
        /\ pel' = IF id <= evicted THEN pel \ {id} ELSE pel
    /\ UNCHANGED <<task, stream, evicted, delivered, request, calls, bounds>>

NextRound(w) ==
    /\ At(w, "take") /\ worker[w].todo = {}
    /\ worker' = [worker EXCEPT ![w] = AtRest]
    /\ UNCHANGED <<redis, request, calls, bounds>>

(* Mistake: the acknowledgement does not reach the group.                  *)
AckElsewhere(w) ==
    /\ At(w, "ack")
    /\ Goto(w, "take")
    /\ UNCHANGED <<redis, request, calls, bounds>>

Ack(w) ==
    /\ At(w, "ack")
    /\ pel' = pel \ {worker[w].id}
    /\ Goto(w, "take")
    /\ UNCHANGED <<task, stream, evicted, delivered, request, calls, bounds>>

(* The process dies, or loses Redis: the loop starts over and whatever the *)
(* worker held stays in the pending list.  It is back only after the queue *)
(* service is through with a report of its own.                            *)
Crash(w) ==
    /\ ~At(w, "idle") /\ ~Reporting(w)
    /\ crashes < MaxCrashes
    /\ crashes' = crashes + 1
    /\ worker' = [worker EXCEPT ![w] = AtRest]
    /\ UNCHANGED <<redis, request, calls, claims, aborts, expiries>>

-----------------------------------------------------------------------------
(* _process_task                                                           *)

FetchTask(w) ==
    /\ At(w, "fetch")
    /\ IF Exists(TaskOf(w))
       THEN worker' = [worker EXCEPT ![w].pc = "mark", ![w].seen = task[TaskOf(w)].retries]
       ELSE Goto(w, "ack")
    /\ UNCHANGED <<redis, request, calls, bounds>>

MarkProcessing(w) ==
    /\ At(w, "mark")
    /\ SetStatus(TaskOf(w), "processing")
    /\ Goto(w, "call")
    /\ UNCHANGED <<stream, evicted, delivered, pel, request, calls, bounds>>

(* The gateway answers 200, answers anything else, or the call raises.     *)
CallGateway(w) ==
    /\ At(w, "call")
    /\ \E next \in {"complete", "fail", "retry"} : Goto(w, next)
    /\ calls' = [calls EXCEPT ![TaskOf(w)] = @ + 1]
    /\ UNCHANGED <<redis, request, bounds>>

(* The worker does not look at the status of the answer, be it 200, 404 or *)
(* 500; only a call that raises goes to onError.                           *)
Answered(w, next) ==
    worker' = [worker EXCEPT ![w].pc = next, ![w].report = "none"]

Replied(w, onError) ==
    \/ "applied" \in ReportOutcomes /\ Answered(w, "ack")
    \/ "lost_reply" \in ReportOutcomes /\ Answered(w, onError)

(* POST of the report, up to the handler's EXISTS: 404 without a key.      *)
Post(w, onError) ==
    /\ ~Reporting(w)
    /\ \/ "lost_call" \in ReportOutcomes /\ Answered(w, onError)
       \/ "refused" \in ReportOutcomes /\ Answered(w, "ack")
       \/ Free /\ ~Exists(TaskOf(w)) /\ Replied(w, onError)
       \/ /\ Free /\ Exists(TaskOf(w))
          /\ worker' = [worker EXCEPT ![w].report = "write"]
    /\ UNCHANGED <<task, aborts>>

(* Its HSET: the status, whatever it was.                                  *)
WriteResult(w, status) ==
    /\ worker[w].report = "write"
    /\ SetStatus(TaskOf(w), status)
    /\ worker' = [worker EXCEPT ![w].report = "renew"]
    /\ UNCHANGED aborts

(* Mistake: the report does not renew the TTL.                             *)
RenewNothing(w, onError) ==
    /\ worker[w].report = "renew"
    /\ Replied(w, onError)
    /\ UNCHANGED <<task, aborts>>

(* Its EXPIRE, which does nothing to a key that is gone.                   *)
RenewExpiry(w, onError) ==
    /\ worker[w].report = "renew"
    /\ IF Exists(TaskOf(w)) THEN task' = [task EXCEPT ![TaskOf(w)].ttl = TRUE]
                            ELSE UNCHANGED task
    /\ Replied(w, onError)
    /\ UNCHANGED aborts

(* The queue service dies or loses Redis between the two.                  *)
BreakOff(w, onError) ==
    /\ worker[w].report = "renew"
    /\ aborts < MaxAborts
    /\ aborts' = aborts + 1
    /\ \E next \in {"ack", onError} : Answered(w, next)
    /\ UNCHANGED task

(* mark_complete and mark_failed.                                          *)
Report(w, status, onError) ==
    /\ \/ Post(w, onError) \/ WriteResult(w, status)
       \/ RenewExpiry(w, onError) \/ BreakOff(w, onError)
    /\ UNCHANGED <<stream, evicted, delivered, pel, request, calls,
                   claims, crashes, expiries>>

ReportComplete(w) == At(w, "complete") /\ Report(w, "completed", "retry")

ReportFailure(w) == At(w, "fail") /\ Report(w, "failed", "retry")

(* Mistake: one retry too many.                                            *)
RetryOnceMore(w) ==
    /\ At(w, "retry")
    /\ IF worker[w].seen <= MaxRetries
       THEN /\ task' = [task EXCEPT ![TaskOf(w)] =
                           [Hash(TaskOf(w)) EXCEPT !.status = "pending",
                                                   !.retries = worker[w].seen + 1]]
            /\ Goto(w, "requeue")
       ELSE Goto(w, "giveup") /\ UNCHANGED task
    /\ UNCHANGED <<stream, evicted, delivered, pel, request, calls, bounds>>

(* Mistake: the task is marked for a retry and never added again.          *)
RetryNotQueued(w) ==
    /\ At(w, "retry")
    /\ SetStatus(TaskOf(w), "pending")
    /\ Goto(w, "ack")
    /\ UNCHANGED <<stream, evicted, delivered, pel, request, calls, bounds>>

(* The except branch: the retries it counts are the ones fetched at first. *)
Retry(w) ==
    /\ At(w, "retry")
    /\ IF worker[w].seen < MaxRetries
       THEN /\ task' = [task EXCEPT ![TaskOf(w)] =
                           [Hash(TaskOf(w)) EXCEPT !.status = "pending",
                                                   !.retries = worker[w].seen + 1]]
            /\ Goto(w, "requeue")
       ELSE Goto(w, "giveup") /\ UNCHANGED task
    /\ UNCHANGED <<stream, evicted, delivered, pel, request, calls, bounds>>

Requeue(w) ==
    /\ At(w, "requeue")
    /\ Add(TaskOf(w))
    /\ Goto(w, "ack")
    /\ UNCHANGED <<task, delivered, pel, request, calls, bounds>>

GiveUp(w) == At(w, "giveup") /\ Report(w, "failed", "record")

(* The queue service is out of reach: the worker writes the failure.       *)
RecordFailure(w) ==
    /\ At(w, "record")
    /\ SetStatus(TaskOf(w), "failed")
    /\ Goto(w, "ack")
    /\ UNCHANGED <<stream, evicted, delivered, pel, request, calls, bounds>>

-----------------------------------------------------------------------------

EnqueueStep(t) == SetExpiry(t) \/ AddMessage(t)

WorkerStep(w) ==
    \/ ReadBatch(w) \/ ListPending(w) \/ TakeNew(w) \/ Claim(w) \/ SkipPending(w)
    \/ NextRound(w) \/ FetchTask(w) \/ MarkProcessing(w) \/ CallGateway(w)
    \/ ReportComplete(w) \/ ReportFailure(w) \/ Retry(w) \/ Requeue(w)
    \/ GiveUp(w) \/ RecordFailure(w) \/ Ack(w)

Next ==
    \/ \E t \in Tasks : StoreTask(t) \/ EnqueueStep(t) \/ RequestDies(t) \/ Expire(t)
    \/ \E w \in Workers : WorkerStep(w) \/ Crash(w)

Spec == Init /\ [][Next]_vars

(* A request that started goes on, a worker's loop never stops, and a      *)
(* message nobody acknowledges grows stale: once it is idle for a minute   *)
(* it stays so, and the scan that comes to it claims it.                   *)
FairSpec ==
    /\ Spec
    /\ \A t \in Tasks : WF_vars(EnqueueStep(t))
    /\ \A w \in Workers : WF_vars(WorkerStep(w)) /\ SF_vars(Claim(w))

-----------------------------------------------------------------------------
(* Properties                                                              *)

TypeOK ==
    /\ task \in [Tasks -> TaskHash \cup {NoTask}]
    /\ request \in [Tasks -> {"new", "stored", "expiring", "answered", "died"}]
    /\ stream \in Seq(Tasks)
    /\ evicted \in 0..Len(stream) /\ delivered \in 0..Len(stream)
    /\ pel \subseteq 1..delivered
    /\ worker \in [Workers -> Busy \cup {AtRest}]
    /\ calls \in [Tasks -> Nat]
    /\ claims \in 0..MaxClaims /\ crashes \in 0..MaxCrashes
    /\ aborts \in 0..MaxAborts /\ expiries \in 0..MaxExpiries

Carried(t) == \E i \in Ids : stream[i] = t /\ i \in Unread \cup pel

HeldBy(w, t) == Serves(w) /\ TaskOf(w) = t

(* "XREADGROUP for reliable delivery": a task a client waits for is in a   *)
(* message still to be served, with a live worker or enqueue request, or   *)
(* its message was evicted at the stream's cap.  A claim from a live       *)
(* worker and a crash are each harmless, and can lose a task together: the *)
(* one acknowledges the message that the other dies with.                  *)
NothingStranded ==
    claims = 0 \/ crashes = 0 =>
        \A t \in Tasks :
            Exists(t) /\ task[t].status \in {"pending", "processing"} =>
                \/ Carried(t)
                \/ \E w \in Workers : HeldBy(w, t)
                \/ request[t] \in {"stored", "expiring", "died"}
                \/ \E i \in 1..evicted : stream[i] = t

HasResult(t) == Exists(t) /\ task[t].status \in {"completed", "failed"}

(* A completed result without TTL whose report is over.                    *)
LeftForGood(t) ==
    /\ Exists(t) /\ task[t].status = "completed" /\ ~task[t].ttl
    /\ ~\E w \in Workers : worker[w].report = "renew" /\ TaskOf(w) = t

(* "result_ttl: int = 600  # seconds to keep completed results": even one  *)
(* written to a key that expired while it was served and came back is      *)
(* given its TTL, except that each report broken off before its EXPIRE     *)
(* leaves at most one for ever.                                            *)
CompletedResultsExpire == Cardinality({t \in Tasks : LeftForGood(t)}) <= aborts

(* "Retries failed tasks up to 3 times": a task costs one gateway call and *)
(* MaxRetries more, whichever reports go wrong, as long as no message of   *)
(* anybody was taken from a live worker or left behind by a crash.         *)
CallsWithinRetries ==
    claims = 0 /\ crashes = 0 => \A t \in Tasks : calls[t] <= 1 + MaxRetries

(* A message that is still to be served or being served.                   *)
Live(id) ==
    \/ id > delivered
    \/ \E w \in Workers : Holds(w, id) /\ ~(At(w, "ack") /\ worker[w].id = id)

Phase(t) ==
    IF request[t] = "new" THEN "new"
    ELSE IF \/ request[t] \in {"stored", "expiring"}
            \/ \E id \in Ids : stream[id] = t /\ Live(id)
         THEN "open"
         ELSE "over"

Contract == INSTANCE TaskContract
    WITH phase <- [t \in Tasks |-> Phase(t)],
         result <- [t \in Tasks |-> IF HasResult(t) THEN task[t].status ELSE "none"]

(* Until a message is claimed from a live worker or left by a crash, the   *)
(* queue, its workers and Redis do together what TaskContract says,        *)
(* whatever calls and answers get lost and whatever expires or is cut off. *)
KeepsContract ==
    /\ Contract!ContractInit
    /\ [][claims' = 0 /\ crashes' = 0
             => [Contract!ContractNext]_(Contract!contractVars)]_vars

(* Whatever crashed, was claimed twice or was reported in vain on the way, *)
(* a task whose client got an id comes to a result.                        *)
TasksFinish ==
    \A t \in Tasks : <>(request[t] = "answered") => <>HasResult(t)
=============================================================================
