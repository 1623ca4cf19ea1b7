--------------------------- MODULE LLMQueueProofs ---------------------------
(***************************************************************************)
(* What is proved of LLMQueue, for any tasks, workers, batch size, retries *)
(* and stream length.                                                      *)
(*                                                                         *)
(* NothingStranded is not inductive: that somebody has the message does    *)
(* not mean that he will settle its task.  A message counts while it is    *)
(* unread or pending with nobody about to acknowledge it (Fresh), a worker *)
(* until he is about to (WorksOn), and a worker comes to the               *)
(* acknowledgement only with the task at rest or queued again              *)
(* (AckSettles).  A crash needs more: the message of the worker that dies  *)
(* is still pending, and nobody else is about to acknowledge it            *)
(* (SoleHolder), which holds until somebody claims from a live worker.     *)
(*                                                                         *)
(* CallsWithinRetries needs where the count of calls is kept at every      *)
(* step: in the key while the message waits, in the worker's copy while it *)
(* is served (Counted).  That nobody else changes it in between needs that *)
(* a message has one holder and a task one message (OneHolder,             *)
(* OneMessage), which a claim from a live worker or a crash would end.     *)
(*                                                                         *)
(* KeepsContract follows: what a worker writes concerns the open task that *)
(* it serves, and it opens no other (PhaseNext, PhaseOthers).              *)
(***************************************************************************)
EXTENDS LLMQueue, SequenceTheorems, FiniteSetTheorems, WellFoundedInduction, TLAPS

(* A worker that serves a message has one, and an enqueue request under    *)
(* way has its key.                                                        *)
HasMessage == \A w \in Workers : Serves(w) => worker[w].id \in Ids
HasKey == \A t \in Tasks : request[t] \in {"stored", "expiring"} => Exists(t)

(* The queue service is at the report of a worker that waits for it.       *)
ReportPlaces == {"complete", "fail", "giveup"}
Reported == \A w \in Workers : Reporting(w) => worker[w].pc \in ReportPlaces

Typed == TypeOK /\ HasMessage /\ HasKey /\ Reported

-----------------------------------------------------------------------------
(* Smallest and largest message                                            *)

LEMMA OldestIs ==
    ASSUME NEW S \in SUBSET Nat, S # {}
    PROVE  Oldest(S) \in S /\ \A j \in S : Oldest(S) <= j
<1>1. \E i \in S : \A k \in S : ~(<<k, i>> \in OpToRel(<, Nat))
      BY NatLessThanWellFounded, WFMin
<1>2. PICK i \in S : \A k \in S : ~(<<k, i>> \in OpToRel(<, Nat))
      BY <1>1
<1>3. \A k \in S : i <= k
  <2>. SUFFICES ASSUME NEW k \in S, k < i PROVE FALSE
       OBVIOUS
  <2>1. <<k, i>> \in OpToRel(<, Nat)
        BY DEF OpToRel
  <2>. QED  BY <1>2, <2>1
<1>. QED  BY <1>2, <1>3 DEF Oldest

LEMMA NewestIs ==
    ASSUME NEW S \in SUBSET Nat, S # {}, NEW n \in Nat, \A i \in S : i <= n
    PROVE  \E i \in S : \A j \in S : j <= i
<1>. DEFINE above == {k \in Nat : \A q \in S : q <= k}
<1>1. n \in above /\ above \in SUBSET Nat
      OBVIOUS
<1>2. Oldest(above) \in above /\ \A k \in above : Oldest(above) <= k
      BY <1>1, OldestIs
<1>. DEFINE j == Oldest(above)
<1>3. j \in S
  <2>. SUFFICES ASSUME j \notin S PROVE FALSE
       OBVIOUS
  <2>1. PICK q \in S : TRUE
        OBVIOUS
  <2>2. j \in Nat /\ q \in Nat /\ q <= j /\ q # j
        BY <1>2, <2>1
  <2>3. j - 1 \in Nat /\ j - 1 < j
        BY <2>2
  <2>4. \A r \in S : r <= j - 1
    <3>. SUFFICES ASSUME NEW r \in S PROVE r <= j - 1
         OBVIOUS
    <3>1. r \in Nat /\ r <= j /\ r # j
          BY <1>2
    <3>. QED  BY <2>2, <3>1
  <2>5. j - 1 \in above
        BY <2>3, <2>4
  <2>6. j <= j - 1
        BY <1>2, <2>5
  <2>. QED  BY <2>2, <2>6
<1>. QED  BY <1>2, <1>3

-----------------------------------------------------------------------------
(* Places                                                                  *)

LEMMA WorkerIs ==
    ASSUME TypeOK, NEW w \in Workers
    PROVE  /\ worker[w] \in Busy \/ worker[w] = AtRest
           /\ ~At(w, "idle") => worker[w] \in Busy
           /\ Serves(w) => ~At(w, "idle") /\ worker[w] \in Busy
BY DEF TypeOK, At, AtRest, Serves

LEMMA StreamIs ==
    ASSUME TypeOK
    PROVE  /\ stream \in Seq(Tasks) /\ Len(stream) \in Nat /\ DOMAIN stream = Ids
           /\ Ids \subseteq Nat \ {0}
           /\ evicted \in Nat /\ evicted <= Len(stream)
           /\ delivered \in Nat /\ delivered <= Len(stream)
           /\ pel \subseteq Ids /\ \A i \in pel : i <= delivered
<1>1. stream \in Seq(Tasks) /\ Len(stream) \in Nat /\ DOMAIN stream = 1..Len(stream)
      BY LenProperties DEF TypeOK
<1>2. evicted \in 0..Len(stream) /\ delivered \in 0..Len(stream) /\ pel \subseteq 1..delivered
      BY DEF TypeOK
<1>. QED  BY <1>1, <1>2 DEF Ids

LEMMA TaskIs ==
    ASSUME TypeOK, NEW i \in Ids
    PROVE  stream[i] \in Tasks
BY StreamIs, ElementOfSeq DEF Ids

(* A worker goes from one place to another with its message and its batch. *)
Moved(w, pc) ==
    /\ \A u \in Workers \ {w} : worker'[u] = worker[u]
    /\ worker' \in [Workers -> Busy \cup {AtRest}]
    /\ worker'[w].pc = pc /\ worker'[w].id = worker[w].id
    /\ worker'[w].todo = worker[w].todo /\ worker'[w].source = worker[w].source
    /\ worker'[w].report # "none" => pc \in ReportPlaces

LEMMA GotoMoves ==
    ASSUME Typed, NEW w \in Workers, ~At(w, "idle"), worker[w].pc \notin ReportPlaces,
           NEW pc \in Places, Goto(w, pc)
    PROVE  /\ Moved(w, pc) /\ worker'[w].seen = worker[w].seen
           /\ worker'[w].report = "none"
<1>1. /\ worker[w] \in Busy /\ worker \in [Workers -> Busy \cup {AtRest}]
      /\ worker[w].report = "none"
      BY WorkerIs DEF Typed, TypeOK, Reported, Reporting
<1>2. [worker[w] EXCEPT !.pc = pc] \in Busy
      BY <1>1 DEF Busy
<1>. QED  BY <1>1, <1>2 DEF Goto, Moved, Busy

(* Messages are added at the end and dropped at the front.                 *)
LEMMA AddIs ==
    ASSUME TypeOK, NEW t \in Tasks, Add(t)
    PROVE  /\ stream' \in Seq(Tasks) /\ Len(stream') = Len(stream) + 1
           /\ \A i \in Ids : stream'[i] = stream[i]
           /\ stream'[Len(stream) + 1] = t
           /\ evicted' \in 0..Len(stream') /\ evicted' >= evicted
<1>1. /\ stream' \in Seq(Tasks) /\ Len(stream') = Len(stream) + 1
      /\ \A i \in 1..Len(stream) : stream'[i] = stream[i]
      /\ stream'[Len(stream) + 1] = t
      BY AppendProperties DEF TypeOK, Add
<1>2. MaxStreamLen \in Nat \ {0}
      BY BoundsAssumption
<1>3. evicted' \in 0..Len(stream') /\ evicted' >= evicted
      BY <1>1, <1>2, StreamIs DEF Add
<1>. QED  BY <1>1, <1>3 DEF Ids

(* What HSET leaves of a key.                                              *)
LEMMA HashIs ==
    ASSUME TypeOK, NEW t \in Tasks
    PROVE  /\ Hash(t) \in TaskHash
           /\ Exists(t) => task[t] \in TaskHash
BY BoundsAssumption DEF TypeOK, Hash, Exists, TaskHash, Statuses

LEMMA StatusSet ==
    ASSUME TypeOK, NEW t \in Tasks, NEW s \in Statuses, SetStatus(t, s)
    PROVE  /\ task' \in [Tasks -> TaskHash \cup {NoTask}]
           /\ \A u \in Tasks \ {t} : task'[u] = task[u]
           /\ task'[t] = [Hash(t) EXCEPT !.status = s] /\ task'[t] # NoTask
<1>1. Hash(t) \in TaskHash
      BY HashIs
<1>2. [Hash(t) EXCEPT !.status = s] \in TaskHash
      BY <1>1 DEF TaskHash
<1>3. task' = [task EXCEPT ![t] = [Hash(t) EXCEPT !.status = s]]
      BY DEF SetStatus
<1>4. NoTask \notin TaskHash
      BY DEF NoTask, TaskHash, Statuses
<1>. QED  BY <1>2, <1>3, <1>4 DEF TypeOK

(* A write to the key of one task, which leaves it there.                  *)
Rewrites(t) ==
    /\ task' \in [Tasks -> TaskHash \cup {NoTask}]
    /\ \A u \in Tasks \ {t} : task'[u] = task[u]
    /\ Exists(t) => task'[t] # NoTask

LEMMA TaskOfIs ==
    ASSUME Typed, NEW w \in Workers, Serves(w)
    PROVE  TaskOf(w) \in Tasks /\ worker[w].id \in Ids
BY TaskIs DEF Typed, HasMessage, TaskOf

(* The queue service goes on with the report, or the worker has its answer *)
(* and goes on itself.                                                     *)
LEMMA ReportMoves ==
    ASSUME Typed, NEW w \in Workers, worker[w].pc \in ReportPlaces,
           NEW pc \in Places, NEW report \in {"none", "write", "renew"},
           report # "none" => pc \in ReportPlaces,
           worker' = [worker EXCEPT ![w].pc = pc, ![w].report = report]
    PROVE  /\ Moved(w, pc) /\ worker'[w].seen = worker[w].seen
           /\ worker'[w].report = report
<1>1. worker[w] \in Busy /\ worker \in [Workers -> Busy \cup {AtRest}]
      BY WorkerIs DEF Typed, TypeOK, ReportPlaces, AtRest, At
<1>2. [worker[w] EXCEPT !.pc = pc, !.report = report] \in Busy
      BY <1>1 DEF Busy
<1>3. worker' = [worker EXCEPT ![w] = [worker[w] EXCEPT !.pc = pc, !.report = report]]
      BY <1>1
<1>. QED  BY <1>1, <1>2, <1>3 DEF Moved, Busy

(* What EXPIRE does to a key that is there.                                *)
Renewed(t) == Exists(t) /\ task'[t] = [task[t] EXCEPT !.ttl = TRUE]

(* A report is sent, answered or lost before anything is written, writes   *)
(* its result, or is over after it did.                                    *)
LEMMA ReportIs ==
    ASSUME Typed, NEW w \in Workers, worker[w].pc \in ReportPlaces,
           NEW status \in {"completed", "failed"},
           NEW onError \in {"retry", "record"}, Report(w, status, onError)
    PROVE  /\ Rewrites(TaskOf(w)) /\ worker'[w].seen = worker[w].seen
           /\ \/ /\ Moved(w, worker[w].pc) /\ worker'[w].report = "write" /\ task' = task
                 /\ worker[w].report = "none"
              \/ /\ Moved(w, "ack") \/ Moved(w, onError)
                 /\ worker[w].report = "none" /\ worker'[w].report = "none" /\ task' = task
                 /\ Moved(w, "ack") => "refused" \in ReportOutcomes \/ ~Exists(TaskOf(w))
              \/ /\ Moved(w, worker[w].pc)
                 /\ worker[w].report = "write" /\ worker'[w].report = "renew"
                 /\ task'[TaskOf(w)] # NoTask /\ task'[TaskOf(w)].status = status
              \/ /\ Moved(w, "ack") \/ Moved(w, onError)
                 /\ worker[w].report = "renew" /\ worker'[w].report = "none"
                 /\ \/ Renewed(TaskOf(w)) \/ (~Exists(TaskOf(w)) /\ task' = task)
                    \/ task' = task /\ aborts' = aborts + 1
<1>. DEFINE t == TaskOf(w)
<1>0. Serves(w)
      BY DEF ReportPlaces, Serves
<1>1. t \in Tasks /\ task \in [Tasks -> TaskHash \cup {NoTask}]
      BY <1>0, TaskOfIs DEF Typed, TypeOK
<1>2. onError \in Places /\ "ack" \in Places /\ onError # "ack" /\ worker[w].pc \in Places
      BY DEF Places, ReportPlaces
<1>3. task' = task => Rewrites(t)
      BY <1>1 DEF Rewrites, Exists
<1>4. ASSUME NEW next \in {"ack", onError}, Answered(w, next)
      PROVE  /\ Moved(w, next) /\ worker'[w].seen = worker[w].seen
             /\ worker'[w].report = "none" /\ (next = onError => ~Moved(w, "ack"))
  <2>1. Moved(w, next) /\ worker'[w].seen = worker[w].seen /\ worker'[w].report = "none"
        BY <1>2, <1>4, ReportMoves DEF Answered
  <2>. QED  BY <1>2, <2>1 DEF Moved
<1>5. ASSUME NEW report \in {"write", "renew"},
             worker' = [worker EXCEPT ![w].report = report]
      PROVE  /\ Moved(w, worker[w].pc) /\ worker'[w].seen = worker[w].seen
             /\ worker'[w].report = report
  <2>1. worker[w] \in Busy /\ worker \in [Workers -> Busy \cup {AtRest}]
        BY <1>0, WorkerIs DEF Typed, TypeOK
  <2>2. worker' = [worker EXCEPT ![w].pc = worker[w].pc, ![w].report = report]
        BY <1>5, <2>1 DEF Busy
  <2>. QED  BY <1>2, <2>2, ReportMoves
<1>6. CASE Post(w, onError)
  <2>1. worker[w].report = "none" /\ task' = task
        BY <1>6 DEF Post, Reporting
  <2>2. CASE worker' = [worker EXCEPT ![w].report = "write"]
        BY <1>3, <1>5, <2>1, <2>2
  <2>3. CASE "lost_call" \in ReportOutcomes /\ Answered(w, onError)
        BY <1>3, <1>4, <2>1, <2>3
  <2>4. CASE "refused" \in ReportOutcomes /\ Answered(w, "ack")
        BY <1>3, <1>4, <2>1, <2>4
  <2>5. CASE ~Exists(t) /\ Replied(w, onError)
        BY <1>3, <1>4, <2>1, <2>5 DEF Replied
  <2>. QED  BY <1>6, <2>2, <2>3, <2>4, <2>5 DEF Post
<1>7. CASE WriteResult(w, status)
  <2>1. /\ worker[w].report = "write" /\ SetStatus(t, status)
        /\ worker' = [worker EXCEPT ![w].report = "renew"]
        BY <1>7 DEF WriteResult
  <2>2. /\ task' \in [Tasks -> TaskHash \cup {NoTask}]
        /\ \A u \in Tasks \ {t} : task'[u] = task[u]
        /\ task'[t] = [Hash(t) EXCEPT !.status = status] /\ task'[t] # NoTask
        BY <1>1, <2>1, StatusSet DEF Typed, Statuses
  <2>3. task'[t].status = status /\ Rewrites(t)
        BY <1>1, <2>2, HashIs DEF Typed, TaskHash, Rewrites
  <2>. QED  BY <1>5, <2>1, <2>2, <2>3
<1>8. CASE RenewExpiry(w, onError)
  <2>1. worker[w].report = "renew" /\ Replied(w, onError)
        BY <1>8 DEF RenewExpiry
  <2>2. Rewrites(t) /\ (Renewed(t) \/ (~Exists(t) /\ task' = task))
    <3>1. CASE ~Exists(t)
          BY <1>3, <1>8, <3>1 DEF RenewExpiry
    <3>2. CASE Exists(t)
      <4>1. task[t] \in TaskHash
            BY <1>1, <3>2 DEF Exists
      <4>2. [task[t] EXCEPT !.ttl = TRUE] \in TaskHash
            BY <4>1 DEF TaskHash
      <4>3. task' = [task EXCEPT ![t] = [task[t] EXCEPT !.ttl = TRUE]]
            BY <1>1, <1>8, <3>2 DEF RenewExpiry
      <4>4. NoTask \notin TaskHash
            BY DEF NoTask, TaskHash, Statuses
      <4>. QED  BY <1>1, <3>2, <4>2, <4>3, <4>4 DEF Rewrites, Renewed, Exists
    <3>. QED  BY <3>1, <3>2
  <2>3. PICK next \in {"ack", onError} : Answered(w, next)
        BY <2>1 DEF Replied
  <2>. QED  BY <1>4, <2>1, <2>2, <2>3
<1>9. CASE BreakOff(w, onError)
  <2>1. PICK next \in {"ack", onError} : Answered(w, next)
        BY <1>9 DEF BreakOff
  <2>. QED  BY <1>3, <1>4, <1>9, <2>1 DEF BreakOff
<1>. QED  BY <1>6, <1>7, <1>8, <1>9 DEF Report

LEMMA TakeIs ==
    ASSUME TypeOK, NEW w \in Workers, At(w, "take"), worker[w].todo # {}, Take(w)
    PROVE  /\ \A u \in Workers \ {w} : worker'[u] = worker[u]
           /\ worker' \in [Workers -> Busy \cup {AtRest}]
           /\ worker'[w].pc = "fetch" /\ worker'[w].source = worker[w].source
           /\ worker'[w].report = worker[w].report
           /\ worker'[w].id = Oldest(worker[w].todo)
           /\ worker'[w].todo = worker[w].todo \ {worker'[w].id}
           /\ Oldest(worker[w].todo) \in worker[w].todo \cap Ids
<1>. DEFINE id == Oldest(worker[w].todo)
<1>1. worker[w] \in Busy /\ worker \in [Workers -> Busy \cup {AtRest}]
      BY WorkerIs DEF TypeOK, At
<1>2. worker[w].todo \in SUBSET Ids /\ Ids \subseteq Nat
      BY <1>1, StreamIs DEF Busy
<1>3. id \in worker[w].todo /\ id \in Ids /\ id \in Nat
      BY <1>2, OldestIs
<1>4. [worker[w] EXCEPT !.pc = "fetch", !.id = id, !.todo = worker[w].todo \ {id}] \in Busy
      BY <1>1, <1>2, <1>3 DEF Busy, Places
<1>5. worker' = [worker EXCEPT
         ![w] = [worker[w] EXCEPT !.pc = "fetch", !.id = id, !.todo = worker[w].todo \ {id}]]
      BY <1>1 DEF Take
<1>. QED  BY <1>1, <1>3, <1>4, <1>5 DEF Busy

(* The messages of a batch, and those it leaves unread.                    *)
Batch == {i \in Unread : Cardinality({j \in Unread : j < i}) < BatchSize}

LEMMA ServeIs ==
    ASSUME TypeOK, NEW w \in Workers, NEW ids \in SUBSET Ids,
           NEW source \in {"new", "pending"}, Serve(w, source, ids)
    PROVE  /\ \A u \in Workers \ {w} : worker'[u] = worker[u]
           /\ worker' \in [Workers -> Busy \cup {AtRest}]
           /\ worker'[w].pc = "take" /\ worker'[w].source = source /\ worker'[w].todo = ids
           /\ worker'[w].report = "none"
<1>1. [pc |-> "take", source |-> source, todo |-> ids, id |-> 0, seen |-> 0,
       report |-> "none"] \in Busy
      BY BoundsAssumption DEF Busy, Places
<1>. QED  BY <1>1 DEF Serve, TypeOK

LEMMA ReadBatchIs ==
    ASSUME TypeOK, NEW w \in Workers, ReadBatch(w)
    PROVE  /\ Serve(w, "new", Batch) /\ At(w, "idle") /\ Batch \subseteq Ids
           /\ pel' = pel \cup Batch
           /\ delivered' \in Batch /\ delivered' >= delivered
           /\ \A j \in Batch : j <= delivered'
           /\ \A i \in Unread \ Batch : i > delivered'
<1>1. /\ Serve(w, "new", Batch) /\ At(w, "idle") /\ Batch # {} /\ pel' = pel \cup Batch
      /\ delivered' = CHOOSE i \in Batch : \A j \in Batch : j <= i
      BY DEF ReadBatch, Batch
<1>2. /\ Batch \subseteq Unread /\ Unread \subseteq Ids /\ Ids \subseteq Nat
      /\ \A i \in Ids : i <= Len(stream) /\ Len(stream) \in Nat
      BY StreamIs DEF Batch, Unread, Ids
<1>3. \E i \in Batch : \A j \in Batch : j <= i
      BY <1>1, <1>2, NewestIs
<1>4. delivered' \in Batch /\ \A j \in Batch : j <= delivered'
      BY <1>1, <1>3
<1>5. delivered' >= delivered
      BY <1>2, <1>4, StreamIs DEF Unread
<1>6. ASSUME NEW i \in Unread, i <= delivered'
      PROVE  i \in Batch
  <2>. DEFINE Before(k) == {j \in Unread : j < k}
  <2>1. IsFiniteSet(Unread)
    <3>1. IsFiniteSet(Ids)
          BY FS_Interval, StreamIs DEF Ids
    <3>. QED  BY <1>2, <3>1, FS_Subset
  <2>2. IsFiniteSet(Before(delivered')) /\ IsFiniteSet(Before(i))
        BY <2>1, FS_Subset
  <2>3. Before(i) \in SUBSET Before(delivered')
    <3>1. i \in Nat /\ delivered' \in Nat /\ Unread \subseteq Nat /\ i <= delivered'
          BY <1>2, <1>4, <1>6
    <3>2. \A j \in Unread : j < i => j < delivered'
          BY <3>1
    <3>. QED  BY <3>2
  <2>4. Cardinality(Before(i)) <= Cardinality(Before(delivered'))
        BY <2>2, <2>3, FS_Subset
  <2>5. Cardinality(Before(delivered')) < BatchSize
        BY <1>4 DEF Batch
  <2>6. Cardinality(Before(i)) \in Nat /\ Cardinality(Before(delivered')) \in Nat
        BY <2>2, FS_CardinalityType
  <2>7. Cardinality(Before(i)) < BatchSize
        BY <2>4, <2>5, <2>6, BoundsAssumption
  <2>. QED  BY <1>6, <2>7 DEF Batch
<1>7. \A i \in Unread \ Batch : i > delivered'
  <2>. SUFFICES ASSUME NEW i \in Unread \ Batch PROVE i > delivered'
       OBVIOUS
  <2>1. i \in Nat /\ delivered' \in Nat /\ ~(i <= delivered')
        BY <1>2, <1>4, <1>6
  <2>. QED  BY <2>1
<1>. QED  BY <1>1, <1>2, <1>4, <1>5, <1>7

-----------------------------------------------------------------------------
(* Types                                                                   *)

(* What any step of a worker does to the workers...                        *)
WorkerMoves(w) ==
    /\ \A u \in Workers \ {w} : worker'[u] = worker[u]
    /\ worker' \in [Workers -> Busy \cup {AtRest}]
    /\ worker'[w].pc \notin {"idle", "take"} => worker'[w].id \in Ids
    /\ worker'[w].report # "none" => worker'[w].pc \in ReportPlaces

LEMMA MovedIs ==
    ASSUME Typed, NEW w \in Workers, NEW pc, Moved(w, pc), Serves(w)
    PROVE  WorkerMoves(w)
BY TaskOfIs DEF Moved, WorkerMoves

LEMMA FetchIs ==
    ASSUME Typed, NEW w \in Workers, FetchTask(w)
    PROVE  /\ Moved(w, "mark") \/ (Moved(w, "ack") /\ ~Exists(TaskOf(w)))
           /\ UNCHANGED <<redis, request, calls, bounds>>
<1>1. /\ At(w, "fetch") /\ ~At(w, "idle") /\ Serves(w)
      /\ worker[w].pc \notin ReportPlaces /\ worker[w].report = "none"
      BY DEF FetchTask, At, Serves, ReportPlaces, Typed, Reported, Reporting
<1>2. worker[w] \in Busy /\ worker \in [Workers -> Busy \cup {AtRest}] /\ TaskOf(w) \in Tasks
      BY <1>1, WorkerIs, TaskOfIs DEF Typed, TypeOK
<1>3. CASE Exists(TaskOf(w))
  <2>1. task[TaskOf(w)] \in TaskHash
        BY <1>2, <1>3, HashIs DEF Typed
  <2>2. [worker[w] EXCEPT !.pc = "mark", !.seen = task[TaskOf(w)].retries] \in Busy
        BY <1>2, <2>1 DEF Busy, Places, TaskHash
  <2>3. worker' = [worker EXCEPT
           ![w] = [worker[w] EXCEPT !.pc = "mark", !.seen = task[TaskOf(w)].retries]]
        BY <1>2, <1>3 DEF FetchTask
  <2>. QED  BY <1>1, <1>2, <2>2, <2>3 DEF Moved, Busy, FetchTask
<1>4. CASE ~Exists(TaskOf(w))
      BY <1>1, <1>4, GotoMoves DEF FetchTask, Typed, Places
<1>. QED  BY <1>3, <1>4

LEMMA SkipIs ==
    ASSUME Typed, NEW w \in Workers, SkipPending(w)
    PROVE  /\ \A u \in Workers \ {w} : worker'[u] = worker[u]
           /\ worker' \in [Workers -> Busy \cup {AtRest}]
           /\ worker'[w].pc = "take" /\ worker'[w].source = "pending"
           /\ worker'[w].report = "none"
           /\ At(w, "take") /\ worker[w].source = "pending"
           /\ \E id \in Ids : pel' = pel \/ (id <= evicted /\ pel' = pel \ {id})
<1>. DEFINE id == Oldest(worker[w].todo)
<1>1. /\ worker[w] \in Busy /\ worker \in [Workers -> Busy \cup {AtRest}] /\ At(w, "take")
      /\ worker[w].report = "none"
      BY WorkerIs DEF Typed, TypeOK, SkipPending, At, ReportPlaces, Reported, Reporting
<1>2. worker[w].todo \in SUBSET Ids /\ Ids \subseteq Nat /\ worker[w].todo # {}
      BY <1>1, StreamIs DEF Busy, Typed, SkipPending
<1>3. id \in Ids
      BY <1>2, OldestIs
<1>4. [worker[w] EXCEPT !.todo = worker[w].todo \ {id}] \in Busy
      BY <1>1, <1>2 DEF Busy
<1>5. worker' = [worker EXCEPT ![w] = [worker[w] EXCEPT !.todo = worker[w].todo \ {id}]]
      BY <1>1 DEF SkipPending
<1>6. pel' = IF id <= evicted THEN pel \ {id} ELSE pel
      BY DEF SkipPending
<1>. QED  BY <1>1, <1>3, <1>4, <1>5, <1>6 DEF Busy, At, SkipPending

LEMMA RetryIs ==
    ASSUME Typed, NEW w \in Workers, Retry(w)
    PROVE  /\ Rewrites(TaskOf(w)) /\ Serves(w) /\ worker'[w].seen = worker[w].seen
           /\ worker'[w].report = "none"
           /\ \/ Moved(w, "giveup") /\ task' = task
              \/ /\ Moved(w, "requeue") /\ worker[w].seen < MaxRetries
                 /\ task'[TaskOf(w)].status = "pending"
                 /\ task'[TaskOf(w)].retries = worker[w].seen + 1
<1>. DEFINE t == TaskOf(w)
<1>1. At(w, "retry") /\ ~At(w, "idle") /\ Serves(w) /\ worker[w].pc \notin ReportPlaces
      BY DEF Retry, At, Serves, ReportPlaces
<1>2. /\ worker[w].seen \in 0..MaxRetries /\ MaxRetries \in Nat /\ t \in Tasks
      /\ task \in [Tasks -> TaskHash \cup {NoTask}] /\ Hash(t) \in TaskHash
      BY <1>1, WorkerIs, TaskOfIs, HashIs, BoundsAssumption DEF Typed, TypeOK, Busy
<1>3. CASE worker[w].seen < MaxRetries
  <2>. DEFINE h == [Hash(t) EXCEPT !.status = "pending", !.retries = worker[w].seen + 1]
  <2>1. worker[w].seen + 1 \in 0..MaxRetries
        BY <1>2, <1>3
  <2>2. h \in TaskHash /\ h.status = "pending" /\ h.retries = worker[w].seen + 1
        BY <1>2, <2>1 DEF TaskHash, Statuses
  <2>3. task' = [task EXCEPT ![t] = h]
        BY <1>3 DEF Retry
  <2>4. NoTask \notin TaskHash
        BY DEF NoTask, TaskHash, Statuses
  <2>5. Rewrites(t) /\ task'[t] = h
        BY <1>2, <2>2, <2>3, <2>4 DEF Rewrites
  <2>6. /\ Moved(w, "requeue") /\ worker'[w].seen = worker[w].seen
        /\ worker'[w].report = "none"
        BY <1>1, <1>3, GotoMoves DEF Retry, Typed, Places
  <2>. QED  BY <1>1, <1>3, <2>2, <2>5, <2>6
<1>4. CASE ~(worker[w].seen < MaxRetries)
  <2>1. /\ Moved(w, "giveup") /\ worker'[w].seen = worker[w].seen /\ task' = task
        /\ worker'[w].report = "none"
        BY <1>1, <1>4, GotoMoves DEF Retry, Typed, Places
  <2>2. Rewrites(t)
        BY <1>2, <2>1 DEF Rewrites, Exists
  <2>. QED  BY <1>1, <2>1, <2>2
<1>. QED  BY <1>3, <1>4

(* Where each step of a task leaves its worker and its key.                *)
LEMMA MarksIs ==
    ASSUME Typed, NEW w \in Workers,
           MarkProcessing(w) \/ RecordFailure(w)
    PROVE  /\ Serves(w) /\ Rewrites(TaskOf(w)) /\ worker'[w].seen = worker[w].seen
           /\ \/ MarkProcessing(w) /\ Moved(w, "call")
              \/ Moved(w, "ack") /\ task'[TaskOf(w)].status = "failed"
           /\ task'[TaskOf(w)].status \in {"processing", "failed"}
<1>1. Serves(w) /\ ~At(w, "idle") /\ worker[w].pc \notin ReportPlaces
      BY DEF MarkProcessing, RecordFailure, At, Serves, ReportPlaces
<1>2. TaskOf(w) \in Tasks /\ Hash(TaskOf(w)) \in TaskHash
      BY <1>1, TaskOfIs, HashIs DEF Typed
<1>3. PICK s \in {"processing", "failed"} :
        /\ SetStatus(TaskOf(w), s)
        /\ \/ MarkProcessing(w) /\ Goto(w, "call")
           \/ s = "failed" /\ Goto(w, "ack")
      BY DEF MarkProcessing, RecordFailure, SetStatus
<1>4. /\ task' \in [Tasks -> TaskHash \cup {NoTask}]
      /\ \A u \in Tasks \ {TaskOf(w)} : task'[u] = task[u]
      /\ task'[TaskOf(w)] = [Hash(TaskOf(w)) EXCEPT !.status = s] /\ task'[TaskOf(w)] # NoTask
      BY <1>2, <1>3, StatusSet DEF Typed, Statuses
<1>5. task'[TaskOf(w)].status = s
      BY <1>2, <1>4 DEF TaskHash
<1>. QED  BY <1>1, <1>3, <1>4, <1>5, GotoMoves DEF Rewrites, Typed, Places

(* ... and to what is in Redis.                                            *)
LEMMA WorkerStepMoves ==
    ASSUME Typed, NEW w \in Workers, WorkerStep(w) \/ Crash(w)
    PROVE  WorkerMoves(w)
<1>1. CASE ReadBatch(w)
      BY <1>1, ReadBatchIs, ServeIs DEF Typed, WorkerMoves
<1>2. CASE ListPending(w)
  <2>1. pel \subseteq Ids /\ Serve(w, "pending", pel)
        BY <1>2, StreamIs DEF Typed, ListPending
  <2>. QED  BY <2>1, ServeIs DEF Typed, WorkerMoves
<1>3. CASE TakeNew(w) \/ Claim(w)
  <2>1. At(w, "take") /\ worker[w].report = "none" /\ worker[w].todo # {} /\ Take(w)
        BY <1>3 DEF TakeNew, Claim, Typed, Reported, Reporting, ReportPlaces, At
  <2>. QED  BY <2>1, TakeIs DEF Typed, WorkerMoves
<1>4. CASE SkipPending(w)
      BY <1>4, SkipIs DEF WorkerMoves
<1>5. CASE NextRound(w) \/ Crash(w)
  <2>1. worker' = [worker EXCEPT ![w] = AtRest] /\ worker \in [Workers -> Busy \cup {AtRest}]
        BY <1>5 DEF NextRound, Crash, Typed, TypeOK
  <2>2. AtRest.pc = "idle" /\ AtRest.report = "none"
        BY DEF AtRest
  <2>. QED  BY <2>1, <2>2 DEF WorkerMoves
<1>6. CASE FetchTask(w)
      BY <1>6, FetchIs, MovedIs DEF FetchTask, At, Serves
<1>7. CASE CallGateway(w) \/ Requeue(w)
  <2>1. /\ Serves(w) /\ ~At(w, "idle") /\ worker[w].pc \notin ReportPlaces
        /\ \E pc \in Places : Goto(w, pc)
        BY <1>7 DEF CallGateway, Requeue, At, Serves, Places, ReportPlaces
  <2>. QED  BY <2>1, GotoMoves, MovedIs DEF Typed
<1>8. CASE ReportComplete(w) \/ ReportFailure(w) \/ GiveUp(w)
  <2>1. /\ Serves(w) /\ worker[w].pc \in ReportPlaces
        /\ \E s \in {"completed", "failed"}, onError \in {"retry", "record"} :
             Report(w, s, onError)
        BY <1>8 DEF ReportComplete, ReportFailure, GiveUp, At, Serves, ReportPlaces
  <2>. QED  BY <2>1, ReportIs, MovedIs
<1>9. CASE MarkProcessing(w) \/ RecordFailure(w)
      BY <1>9, MarksIs, MovedIs
<1>10. CASE Retry(w)
      BY <1>10, RetryIs, MovedIs
<1>11. CASE Ack(w)
  <2>1. Serves(w) /\ ~At(w, "idle") /\ worker[w].pc \notin ReportPlaces /\ Goto(w, "take")
        BY <1>11 DEF Ack, At, Serves, ReportPlaces
  <2>. QED  BY <2>1, GotoMoves, MovedIs DEF Typed, Places
<1>. QED  BY <1>1, <1>2, <1>3, <1>4, <1>5, <1>6, <1>7, <1>8, <1>9, <1>10, <1>11
          DEF WorkerStep

KeysOK ==
    /\ task' \in [Tasks -> TaskHash \cup {NoTask}]
    /\ \A t \in Tasks : Exists(t) => task'[t] # NoTask

StreamOK ==
    /\ stream' \in Seq(Tasks) /\ Len(stream') >= Len(stream)
    /\ \A i \in Ids : stream'[i] = stream[i]
    /\ evicted' \in 0..Len(stream') /\ evicted' >= evicted
    /\ delivered' \in 0..Len(stream') /\ pel' \subseteq 1..delivered'

LEMMA StreamKept ==
    ASSUME Typed, UNCHANGED <<stream, evicted, delivered>>, pel' \subseteq pel
    PROVE  StreamOK
BY StreamIs DEF Typed, TypeOK, StreamOK

LEMMA StreamAdded ==
    ASSUME Typed, NEW t \in Tasks, Add(t), UNCHANGED <<delivered, pel>>
    PROVE  StreamOK
<1>1. /\ stream' \in Seq(Tasks) /\ Len(stream') = Len(stream) + 1
      /\ \A i \in Ids : stream'[i] = stream[i]
      /\ evicted' \in 0..Len(stream') /\ evicted' >= evicted
      /\ Len(stream) \in Nat
      BY AddIs, StreamIs DEF Typed
<1>2. delivered' \in 0..Len(stream') /\ pel' \subseteq 1..delivered'
      BY <1>1 DEF Typed, TypeOK
<1>. QED  BY <1>1, <1>2 DEF StreamOK

LEMMA KeysRewritten ==
    ASSUME Typed, NEW t \in Tasks, Rewrites(t)
    PROVE  KeysOK
BY DEF Rewrites, KeysOK, Exists

LEMMA WorkerStepKeeps ==
    ASSUME Typed, NEW w \in Workers, WorkerStep(w) \/ Crash(w)
    PROVE  KeysOK /\ StreamOK /\ request' = request
<1>1. CASE ReadBatch(w)
  <2>1. KeysOK /\ request' = request
        BY <1>1 DEF ReadBatch, KeysOK, Typed, TypeOK, Exists
  <2>2. /\ pel' = pel \cup Batch /\ delivered' \in Batch /\ Batch \subseteq Ids
        /\ delivered' >= delivered /\ \A j \in Batch : j <= delivered'
        /\ UNCHANGED <<stream, evicted>>
        BY <1>1, ReadBatchIs DEF Typed, ReadBatch
  <2>3. delivered' \in 0..Len(stream') /\ pel' \subseteq 1..delivered'
    <3>1. delivered' \in 1..Len(stream) /\ Len(stream) \in Nat /\ Batch \subseteq 1..Len(stream)
          BY <2>2, StreamIs DEF Typed, Ids
    <3>2. pel \subseteq 1..delivered /\ delivered \in Nat
          BY StreamIs DEF Typed, TypeOK
    <3>3. pel' \subseteq 1..delivered'
          BY <2>2, <3>1, <3>2
    <3>. QED  BY <2>2, <3>1, <3>3
  <2>. QED  BY <2>1, <2>2, <2>3, StreamIs DEF StreamOK, Typed, TypeOK
<1>2. CASE ListPending(w) \/ TakeNew(w) \/ Claim(w) \/ NextRound(w) \/ FetchTask(w)
           \/ CallGateway(w) \/ Crash(w)
  <2>1. UNCHANGED <<redis, request>>
        BY <1>2 DEF ListPending, TakeNew, Claim, NextRound, FetchTask, CallGateway, Crash
  <2>. QED  BY <2>1, StreamKept DEF redis, KeysOK, Typed, TypeOK, Exists
<1>3. CASE SkipPending(w) \/ Ack(w)
  <2>1. pel' \subseteq pel
        BY <1>3, SkipIs DEF Ack
  <2>. QED  BY <1>3, <2>1, StreamKept DEF SkipPending, Ack, KeysOK, Typed, TypeOK, Exists
<1>4. CASE ReportComplete(w) \/ ReportFailure(w) \/ GiveUp(w)
  <2>1. /\ Serves(w) /\ worker[w].pc \in ReportPlaces
        /\ \E s \in {"completed", "failed"}, onError \in {"retry", "record"} :
             Report(w, s, onError)
        BY <1>4 DEF ReportComplete, ReportFailure, GiveUp, At, Serves, ReportPlaces
  <2>2. UNCHANGED <<stream, evicted, delivered, pel, request>>
        BY <2>1 DEF Report
  <2>. QED  BY <2>1, <2>2, ReportIs, TaskOfIs, KeysRewritten, StreamKept
<1>5. CASE MarkProcessing(w) \/ RecordFailure(w) \/ Retry(w)
  <2>1. UNCHANGED <<stream, evicted, delivered, pel, request>>
        BY <1>5 DEF MarkProcessing, RecordFailure, Retry
  <2>. QED  BY <1>5, <2>1, MarksIs, RetryIs, TaskOfIs, KeysRewritten, StreamKept
<1>6. CASE Requeue(w)
  <2>1. Serves(w) /\ Add(TaskOf(w)) /\ UNCHANGED <<task, delivered, pel, request>>
        BY <1>6 DEF Requeue, At, Serves
  <2>. QED  BY <2>1, TaskOfIs, StreamAdded DEF KeysOK, Typed, TypeOK, Exists
<1>. QED  BY <1>1, <1>2, <1>3, <1>4, <1>5, <1>6 DEF WorkerStep

LEMMA WorkerStepCounts ==
    ASSUME Typed, NEW w \in Workers, WorkerStep(w) \/ Crash(w)
    PROVE  /\ calls' \in [Tasks -> Nat] /\ claims' \in 0..MaxClaims
           /\ crashes' \in 0..MaxCrashes /\ expiries' \in 0..MaxExpiries
           /\ aborts' \in 0..MaxAborts /\ aborts' \in {aborts, aborts + 1}
<1>0. /\ {claims, crashes, aborts, expiries} \subseteq Nat
      /\ {MaxClaims, MaxCrashes, MaxAborts, MaxExpiries} \subseteq Nat
      BY BoundsAssumption DEF Typed, TypeOK
<1>1. CASE Claim(w)
  <2>1. claims' = claims \/ (claims < MaxClaims /\ claims' = claims + 1)
    <3>1. CASE Kept(Oldest(worker[w].todo))
          BY <1>1, <3>1 DEF Claim
    <3>2. CASE ~Kept(Oldest(worker[w].todo))
          BY <1>1, <3>2 DEF Claim
    <3>. QED  BY <3>1, <3>2
  <2>2. claims' \in 0..MaxClaims
        BY <1>0, <2>1 DEF Typed, TypeOK
  <2>. QED  BY <1>1, <2>2 DEF Claim, Typed, TypeOK
<1>2. CASE Crash(w)
  <2>1. crashes' \in 0..MaxCrashes
        BY <1>0, <1>2 DEF Crash
  <2>. QED  BY <1>2, <2>1 DEF Crash, Typed, TypeOK
<1>3. CASE CallGateway(w)
  <2>1. TaskOf(w) \in Tasks
        BY <1>3, TaskOfIs DEF CallGateway, At, Serves
  <2>2. calls' \in [Tasks -> Nat]
        BY <1>3, <2>1 DEF CallGateway, Typed, TypeOK
  <2>. QED  BY <1>3, <2>2 DEF CallGateway, Typed, TypeOK, bounds
<1>4. CASE ReportComplete(w) \/ ReportFailure(w) \/ GiveUp(w)
  <2>1. aborts' = aborts \/ (aborts < MaxAborts /\ aborts' = aborts + 1)
        BY <1>4 DEF ReportComplete, ReportFailure, GiveUp, Report, Post, WriteResult, RenewExpiry,
                    BreakOff
  <2>2. aborts' \in 0..MaxAborts
        BY <1>0, <2>1 DEF Typed, TypeOK
  <2>. QED  BY <1>4, <2>1, <2>2
            DEF ReportComplete, ReportFailure, GiveUp, Report, Typed, TypeOK
<1>5. CASE /\ ~Claim(w) /\ ~Crash(w) /\ ~CallGateway(w)
           /\ ~(ReportComplete(w) \/ ReportFailure(w) \/ GiveUp(w))
      BY <1>5 DEF WorkerStep, ReadBatch, ListPending, TakeNew, SkipPending, NextRound, FetchTask,
                  MarkProcessing, Retry, Requeue, RecordFailure, Ack, bounds, Typed, TypeOK
<1>. QED  BY <1>1, <1>2, <1>3, <1>4, <1>5

LEMMA BusyGrows ==
    ASSUME Typed, Len(stream') \in Nat, Len(stream') >= Len(stream)
    PROVE  Ids \subseteq Ids' /\ Busy \subseteq Busy'
<1>1. Ids \subseteq Ids'
      BY StreamIs DEF Typed, Ids
<1>. QED  BY <1>1 DEF Busy

LEMMA WorkerTyped ==
    ASSUME Typed, NEW w \in Workers, WorkerStep(w) \/ Crash(w)
    PROVE  Typed'
<1>1. KeysOK /\ StreamOK /\ request' = request /\ WorkerMoves(w)
      BY WorkerStepKeeps, WorkerStepMoves
<1>2. Ids \subseteq Ids' /\ Busy \subseteq Busy'
      BY <1>1, BusyGrows, LenProperties DEF StreamOK
<1>3. TypeOK'
      BY <1>1, <1>2, WorkerStepCounts DEF KeysOK, StreamOK, WorkerMoves, Typed, TypeOK
<1>4. HasMessage'
      BY <1>1, <1>2 DEF Typed, HasMessage, Serves, WorkerMoves
<1>5. HasKey'
      BY <1>1 DEF Typed, HasKey, KeysOK, Exists
<1>6. Reported'
      BY <1>1 DEF Typed, Reported, Reporting, WorkerMoves
<1>. QED  BY <1>3, <1>4, <1>5, <1>6 DEF Typed

-----------------------------------------------------------------------------
(* Requests and expiry                                                     *)

RequestStep(t) == StoreTask(t) \/ EnqueueStep(t) \/ RequestDies(t) \/ Expire(t)

(* Where a request leaves its task.                                        *)
LEMMA RequestIs ==
    ASSUME Typed, NEW t \in Tasks, RequestStep(t)
    PROVE  /\ task' \in [Tasks -> TaskHash \cup {NoTask}]
           /\ \A u \in Tasks \ {t} : task'[u] = task[u] /\ request'[u] = request[u]
           /\ request' \in [Tasks -> {"new", "stored", "expiring", "answered", "died"}]
           /\ StreamOK /\ worker' = worker /\ calls' = calls /\ claims' = claims
           /\ \/ Expire(t) /\ task'[t] = NoTask /\ request' = request
              \/ AddMessage(t) /\ task' = task /\ request'[t] = "answered"
              \/ /\ request'[t] \in {"stored", "expiring"} /\ task'[t] # NoTask
                 /\ task'[t].status \in {Hash(t).status, "pending"}
                 /\ task'[t].ttl \/ task'[t].status = "pending"
              \/ RequestDies(t) /\ task' = task /\ request'[t] = "died"
<1>0. /\ task \in [Tasks -> TaskHash \cup {NoTask}] /\ NoTask \notin TaskHash
      /\ request \in [Tasks -> {"new", "stored", "expiring", "answered", "died"}]
      BY DEF Typed, TypeOK, NoTask, TaskHash, Statuses
<1>1. CASE StoreTask(t)
  <2>1. /\ task' \in [Tasks -> TaskHash \cup {NoTask}]
        /\ \A u \in Tasks \ {t} : task'[u] = task[u]
        /\ task'[t] = [Hash(t) EXCEPT !.status = "pending"] /\ task'[t] # NoTask
        BY <1>1, StatusSet DEF StoreTask, Typed, Statuses
  <2>2. task'[t].status = "pending"
        BY <2>1, HashIs DEF Typed, TaskHash
  <2>. QED  BY <1>0, <1>1, <2>1, <2>2, StreamKept DEF StoreTask, bounds
<1>2. CASE SetExpiry(t)
  <2>1. Exists(t) /\ task[t] \in TaskHash /\ Hash(t) = task[t]
        BY <1>0, <1>2 DEF SetExpiry, Typed, HasKey, Exists, Hash
  <2>2. [task[t] EXCEPT !.ttl = TRUE] \in TaskHash
        BY <2>1 DEF TaskHash
  <2>3. task' = [task EXCEPT ![t] = [task[t] EXCEPT !.ttl = TRUE]]
        BY <1>2 DEF SetExpiry
  <2>4. task'[t] = [task[t] EXCEPT !.ttl = TRUE]
        BY <1>0, <2>3
  <2>5. task'[t].ttl /\ task'[t].status = task[t].status
        BY <2>1, <2>4 DEF TaskHash
  <2>. QED  BY <1>0, <1>2, <2>1, <2>2, <2>3, <2>4, <2>5, StreamKept DEF SetExpiry, bounds
<1>3. CASE AddMessage(t)
      BY <1>0, <1>3, StreamAdded DEF AddMessage, bounds
<1>4. CASE RequestDies(t)
      BY <1>0, <1>4, StreamKept DEF RequestDies, redis
<1>5. CASE Expire(t)
      BY <1>0, <1>5, StreamKept DEF Expire
<1>. QED  BY <1>1, <1>2, <1>3, <1>4, <1>5 DEF RequestStep, EnqueueStep

LEMMA RequestTyped ==
    ASSUME Typed, NEW t \in Tasks, RequestStep(t)
    PROVE  Typed'
<1>1. {claims, crashes, expiries, MaxClaims, MaxCrashes, MaxExpiries} \subseteq Nat
      BY BoundsAssumption DEF Typed, TypeOK
<1>2. crashes' \in 0..MaxCrashes /\ expiries' \in 0..MaxExpiries /\ aborts' = aborts
      BY <1>1 DEF RequestStep, EnqueueStep, StoreTask, SetExpiry, AddMessage, RequestDies, Expire,
                  bounds, Typed, TypeOK
<1>3. Ids \subseteq Ids' /\ Busy \subseteq Busy'
      BY RequestIs, BusyGrows, LenProperties DEF StreamOK
<1>4. TypeOK'
      BY <1>2, <1>3, RequestIs DEF StreamOK, Typed, TypeOK
<1>5. HasMessage'
      BY <1>3, RequestIs DEF Typed, HasMessage, Serves
<1>6. HasKey'
  <2>1. \A u \in Tasks \ {t} : request'[u] \in {"stored", "expiring"} => task'[u] # NoTask
        BY RequestIs DEF Typed, HasKey, Exists
  <2>2. request'[t] \in {"stored", "expiring"} => task'[t] # NoTask
        BY RequestIs DEF Typed, HasKey, Exists, Expire
  <2>. QED  BY <2>1, <2>2 DEF HasKey, Exists
<1>7. Reported'
      BY RequestIs DEF Typed, Reported, Reporting
<1>. QED  BY <1>4, <1>5, <1>6, <1>7 DEF Typed

LEMMA TypedStep == Typed /\ [Next]_vars => Typed'
<1>. SUFFICES ASSUME Typed, UNCHANGED vars PROVE Typed'
     BY WorkerTyped, RequestTyped DEF Next, RequestStep
<1>. QED  BY DEF vars, redis, bounds, Typed, TypeOK, HasMessage, HasKey, Reported, Reporting,
                 Serves, Exists, Ids, Busy

-----------------------------------------------------------------------------
(* What a step of a worker is to the tasks                                 *)

Reports(w) == ReportComplete(w) \/ ReportFailure(w) \/ GiveUp(w)

LEMMA ReportsIs ==
    ASSUME NEW w \in Workers, Reports(w)
    PROVE  /\ Serves(w) /\ ~At(w, "ack") /\ worker[w].pc \in ReportPlaces
           /\ \E s \in {"completed", "failed"}, onError \in {"retry", "record"} :
                Report(w, s, onError)
BY DEF Reports, ReportComplete, ReportFailure, GiveUp, At, Serves, ReportPlaces

(* Only the task that is served changes.                                   *)
LEMMA OthersKept ==
    ASSUME Typed, NEW w \in Workers, WorkerStep(w) \/ Crash(w),
           NEW t \in Tasks, task'[t] # task[t]
    PROVE  /\ Serves(w) /\ ~At(w, "ack") /\ TaskOf(w) = t
           /\ Reports(w) \/ MarkProcessing(w) \/ RecordFailure(w) \/ Retry(w)
<1>1. Reports(w) \/ MarkProcessing(w) \/ RecordFailure(w) \/ Retry(w)
      BY DEF WorkerStep, ReadBatch, ListPending, TakeNew, Claim, SkipPending, NextRound,
             FetchTask, CallGateway, Requeue, Ack, Crash, redis, Reports
<1>2. Rewrites(TaskOf(w)) /\ Serves(w) /\ ~At(w, "ack")
  <2>1. CASE Reports(w)
        BY <2>1, ReportsIs, ReportIs
  <2>2. CASE MarkProcessing(w) \/ RecordFailure(w)
        BY <2>2, MarksIs DEF MarkProcessing, RecordFailure, At
  <2>3. CASE Retry(w)
        BY <2>3, RetryIs DEF Retry, At
  <2>. QED  BY <1>1, <2>1, <2>2, <2>3
<1>. QED  BY <1>1, <1>2 DEF Rewrites

(* A worker that serves a message goes on with it.                         *)
LEMMA ServesMoves ==
    ASSUME Typed, NEW w \in Workers, Serves(w), WorkerStep(w)
    PROVE  ~ReadBatch(w) /\ \E pc : Moved(w, pc)
<1>1. CASE FetchTask(w)
      BY <1>1, FetchIs DEF FetchTask, ReadBatch, At
<1>2. CASE Reports(w)
      BY <1>2, ReportsIs, ReportIs DEF ReadBatch, At, ReportPlaces
<1>3. CASE MarkProcessing(w) \/ RecordFailure(w) \/ Retry(w)
      BY <1>3, MarksIs, RetryIs DEF ReadBatch, At, Serves
<1>4. CASE CallGateway(w) \/ Requeue(w) \/ Ack(w)
  <2>1. ~At(w, "idle") /\ worker[w].pc \notin ReportPlaces /\ \E pc \in Places : Goto(w, pc)
        BY <1>4 DEF CallGateway, Requeue, Ack, At, Places, ReportPlaces
  <2>. QED  BY <2>1, GotoMoves DEF ReadBatch
<1>. QED  BY <1>1, <1>2, <1>3, <1>4
          DEF WorkerStep, Reports, ReadBatch, ListPending, TakeNew, Claim, SkipPending,
              NextRound, At, Serves

LEMMA ServesNext ==
    ASSUME NEW w \in Workers, Typed, Serves(w), WorkerStep(w)
    PROVE  ~At(w, "idle")' /\ (~At(w, "ack") => Serves(w)')
<1>1. CASE FetchTask(w)
      BY <1>1, FetchIs DEF Moved, At, Serves
<1>2. CASE Reports(w)
      BY <1>2, ReportsIs, ReportIs DEF Moved, At, Serves, ReportPlaces
<1>3. CASE MarkProcessing(w) \/ RecordFailure(w) \/ Retry(w)
      BY <1>3, MarksIs, RetryIs DEF Moved, At, Serves
<1>4. CASE CallGateway(w) \/ Requeue(w) \/ Ack(w)
  <2>1. /\ ~At(w, "idle") /\ worker[w].pc \notin ReportPlaces
        /\ \E pc \in Places : Goto(w, pc) /\ (~At(w, "ack") => pc # "take")
        BY <1>4 DEF CallGateway, Requeue, Ack, At, Places, ReportPlaces
  <2>2. PICK pc \in Places : Moved(w, pc) /\ (~At(w, "ack") => pc # "take")
        BY <2>1, GotoMoves
  <2>. QED  BY <2>2 DEF Moved, At, Serves, Places
<1>. QED  BY <1>1, <1>2, <1>3, <1>4
          DEF WorkerStep, Reports, ReadBatch, ListPending, TakeNew, Claim, SkipPending,
              NextRound, At, Serves

(* The queue service is about to give the key of the task its TTL.         *)
Renewing(t) == \E w \in Workers : worker[w].report = "renew" /\ TaskOf(w) = t

LEMMA TaskOfKept ==
    ASSUME Typed, StreamOK, NEW u \in Workers, worker'[u] = worker[u], Reporting(u)
    PROVE  TaskOf(u)' = TaskOf(u)
<1>1. worker[u].id \in Ids
      BY TaskOfIs DEF Typed, Reported, ReportPlaces, Serves
<1>. QED  BY <1>1 DEF StreamOK, TaskOf

(* Only a report that is broken off leaves a completed result for good.    *)
LEMMA WorkerLeaves ==
    ASSUME Typed, NEW w \in Workers, WorkerStep(w) \/ Crash(w), NEW t \in Tasks,
           LeftForGood(t)'
    PROVE  LeftForGood(t) \/ (TaskOf(w) = t /\ aborts' = aborts + 1)
<1>1. /\ WorkerMoves(w) /\ StreamOK
      /\ task'[t] # NoTask /\ task'[t].status = "completed" /\ ~task'[t].ttl
      /\ \A u \in Workers : ~(worker'[u].report = "renew" /\ TaskOf(u)' = t)
      BY WorkerStepMoves, WorkerStepKeeps DEF LeftForGood, Exists
<1>2. CASE task'[t] # task[t]
  <2>1. TaskOf(w) = t /\ Serves(w)
        /\ (Reports(w) \/ MarkProcessing(w) \/ RecordFailure(w) \/ Retry(w))
        BY <1>2, OthersKept
  <2>2. Reports(w)
        BY <1>1, <1>2, <2>1, MarksIs, RetryIs
  <2>3. TaskOf(w)' = TaskOf(w)
    <3>1. worker[w].id \in Ids /\ \E pc : Moved(w, pc)
          BY <2>1, <2>2, TaskOfIs, ReportsIs, ReportIs
    <3>. QED  BY <1>1, <3>1 DEF StreamOK, Moved, TaskOf
  <2>4. ~Renewed(t)
    <3>1. Exists(t) => task[t] \in TaskHash
          BY HashIs DEF Typed
    <3>2. Renewed(t) => task'[t].ttl
          BY <3>1 DEF Renewed, TaskHash
    <3>. QED  BY <1>1, <3>2
  <2>5. worker'[w].report = "renew"
        BY <1>2, <2>1, <2>2, <2>4, ReportsIs, ReportIs
  <2>. QED  BY <1>1, <2>1, <2>3, <2>5
<1>3. CASE task'[t] = task[t] /\ Renewing(t)
  <2>1. PICK u \in Workers : worker[u].report = "renew" /\ TaskOf(u) = t
        BY <1>3 DEF Renewing
  <2>2. u = w
    <3>. SUFFICES ASSUME u # w PROVE FALSE
         OBVIOUS
    <3>1. worker'[u] = worker[u]
          BY <1>1 DEF WorkerMoves
    <3>2. TaskOf(u)' = TaskOf(u)
          BY <1>1, <2>1, <3>1, TaskOfKept DEF Reporting
    <3>. QED  BY <1>1, <2>1, <3>1, <3>2
  <2>3. Reports(w)
    <3>1. ~Crash(w) /\ worker[w].pc \in ReportPlaces
          BY <2>1, <2>2 DEF Crash, Reporting, Typed, Reported
    <3>. QED  BY <3>1 DEF WorkerStep, Reports, ReportPlaces, ReadBatch, ListPending, TakeNew,
                          Claim, SkipPending, NextRound, FetchTask, MarkProcessing, CallGateway,
                          Retry, Requeue, RecordFailure, Ack, At
  <2>4. ~Renewed(t)
    <3>1. Exists(t) => task[t] \in TaskHash
          BY HashIs DEF Typed
    <3>2. Renewed(t) => task'[t].ttl
          BY <3>1 DEF Renewed, TaskHash
    <3>. QED  BY <1>1, <3>2
  <2>5. Exists(t)
        BY <1>1, <1>3 DEF Exists
  <2>. QED  BY <2>1, <2>2, <2>3, <2>4, <2>5, ReportsIs, ReportIs
<1>4. CASE task'[t] = task[t] /\ ~Renewing(t)
      BY <1>1, <1>4 DEF LeftForGood, Renewing, Exists
<1>. QED  BY <1>2, <1>3, <1>4

LEMMA RequestLeaves ==
    ASSUME Typed, NEW u \in Tasks, RequestStep(u), NEW t \in Tasks, LeftForGood(t)'
    PROVE  LeftForGood(t)
<1>1. /\ worker' = worker /\ StreamOK /\ task'[t] # NoTask
      /\ task'[t].status = "completed" /\ ~task'[t].ttl
      BY RequestIs DEF LeftForGood, Exists
<1>2. task'[t] = task[t]
  <2>1. CASE u = t
        BY <1>1, <2>1, RequestIs
  <2>2. CASE u # t
        BY <2>2, RequestIs
  <2>. QED  BY <2>1, <2>2
<1>3. \A w \in Workers : worker[w].report = "renew" => TaskOf(w)' = TaskOf(w)
      BY <1>1, TaskOfKept DEF Reporting
<1>. QED  BY <1>1, <1>2, <1>3 DEF LeftForGood, Exists

Left == {t \in Tasks : LeftForGood(t)}

FewLeft == IsFiniteSet(Left) /\ Cardinality(Left) <= aborts

LEMMA FewLeftStep == Typed /\ FewLeft /\ [Next]_vars => FewLeft'
<1>. SUFFICES ASSUME Typed, FewLeft, [Next]_vars PROVE FewLeft'
     OBVIOUS
<1>1. aborts \in Nat /\ Cardinality(Left) \in Nat
      BY FS_CardinalityType, BoundsAssumption DEF Typed, TypeOK, FewLeft
<1>2. ASSUME Left' \subseteq Left, aborts' \in {aborts, aborts + 1}
      PROVE  FewLeft'
  <2>1. IsFiniteSet(Left') /\ Cardinality(Left') <= Cardinality(Left)
        BY <1>2, FS_Subset DEF FewLeft
  <2>2. Cardinality(Left') \in Nat
        BY <2>1, FS_CardinalityType
  <2>. QED  BY <1>1, <1>2, <2>1, <2>2 DEF FewLeft
<1>3. ASSUME NEW t, Left' \subseteq Left \cup {t}, aborts' = aborts + 1
      PROVE  FewLeft'
  <2>1. /\ IsFiniteSet(Left \cup {t})
        /\ Cardinality(Left \cup {t}) \in {Cardinality(Left), Cardinality(Left) + 1}
        BY FS_AddElement DEF FewLeft
  <2>2. IsFiniteSet(Left') /\ Cardinality(Left') <= Cardinality(Left \cup {t})
        BY <1>3, <2>1, FS_Subset
  <2>3. Cardinality(Left') \in Nat
        BY <2>2, FS_CardinalityType
  <2>. QED  BY <1>1, <1>3, <2>1, <2>2, <2>3 DEF FewLeft
<1>4. ASSUME NEW w \in Workers, WorkerStep(w) \/ Crash(w)
      PROVE  FewLeft'
  <2>1. PICK t : t = TaskOf(w)
        OBVIOUS
  <2>2. aborts' \in {aborts, aborts + 1}
        BY <1>4, WorkerStepCounts
  <2>3. CASE aborts' = aborts + 1
    <3>1. Left' \subseteq Left \cup {t}
          BY <1>4, <2>1, WorkerLeaves DEF Left
    <3>. QED  BY <1>3, <2>3, <3>1
  <2>4. CASE aborts' = aborts
    <3>1. Left' \subseteq Left
          BY <1>1, <1>4, <2>4, WorkerLeaves DEF Left
    <3>. QED  BY <1>2, <2>4, <3>1
  <2>. QED  BY <2>2, <2>3, <2>4
<1>5. ASSUME NEW u \in Tasks, RequestStep(u)
      PROVE  FewLeft'
  <2>1. Left' \subseteq Left
        BY <1>5, RequestLeaves DEF Left
  <2>2. aborts' = aborts
        BY <1>5 DEF RequestStep, EnqueueStep, StoreTask, SetExpiry, AddMessage, RequestDies,
                    Expire, bounds
  <2>. QED  BY <1>2, <2>1, <2>2
<1>6. CASE UNCHANGED vars
  <2>1. Left' = Left /\ aborts' = aborts
        BY <1>6 DEF vars, redis, bounds, Left, LeftForGood, Exists, TaskOf
  <2>. QED  BY <2>1 DEF FewLeft
<1>. QED  BY <1>4, <1>5, <1>6 DEF Next, RequestStep

-----------------------------------------------------------------------------
(* What was read was delivered                                             *)

Delivered ==
    \A w \in Workers :
        /\ Serves(w) => worker[w].id <= delivered
        /\ ~At(w, "idle") => \A i \in worker[w].todo : i <= delivered

LEMMA DeliveredStep == Typed /\ Delivered /\ [Next]_vars => Delivered'
<1>. SUFFICES ASSUME Typed, Delivered, [Next]_vars PROVE Delivered'
     OBVIOUS
<1>0. delivered \in Nat
      BY StreamIs DEF Typed
<1>1. ASSUME NEW w \in Workers, WorkerStep(w) \/ Crash(w)
      PROVE  Delivered'
  <2>1. delivered' \in Nat /\ delivered' >= delivered
    <3>1. CASE ReadBatch(w)
      <4>1. delivered' \in Ids /\ delivered' >= delivered
            BY <3>1, ReadBatchIs DEF Typed
      <4>. QED  BY <4>1, StreamIs DEF Typed
    <3>2. CASE ~ReadBatch(w)
          BY <1>0, <1>1, <3>2 DEF WorkerStep, ListPending, TakeNew, Claim, SkipPending, NextRound,
                FetchTask, MarkProcessing, CallGateway, ReportComplete, ReportFailure, Retry,
                Requeue, GiveUp, RecordFailure, Ack, Report, Crash, redis
    <3>. QED  BY <3>1, <3>2
  <2>2. ASSUME NEW u \in Workers, u # w
        PROVE  /\ Serves(u)' => worker'[u].id <= delivered'
               /\ ~At(u, "idle")' => \A i \in worker'[u].todo : i <= delivered'
    <3>1. worker'[u] = worker[u]
          BY <1>1, <2>2, WorkerStepMoves DEF WorkerMoves
    <3>2. ASSUME NEW i \in Ids, i <= delivered PROVE i <= delivered'
          BY <1>0, <2>1, <3>2, StreamIs DEF Typed
    <3>3. /\ Serves(u) => worker[u].id \in Ids
          /\ ~At(u, "idle") => worker[u].todo \subseteq Ids
          BY WorkerIs DEF Typed, HasMessage, Busy
    <3>. QED  BY <3>1, <3>2, <3>3 DEF Delivered, Serves, At
  <2>3. /\ Serves(w)' => worker'[w].id <= delivered'
        /\ ~At(w, "idle")' => \A i \in worker'[w].todo : i <= delivered'
    <3>1. CASE ReadBatch(w)
          BY <3>1, ReadBatchIs, ServeIs DEF Typed, Serves
    <3>2. ASSUME ~ReadBatch(w) PROVE delivered' = delivered
          BY <1>1, <3>2 DEF WorkerStep, ListPending, TakeNew, Claim, SkipPending, NextRound,
                FetchTask, MarkProcessing, CallGateway, ReportComplete, ReportFailure, Retry,
                Requeue, GiveUp, RecordFailure, Ack, Report, Crash, redis
    <3>3. CASE ListPending(w)
      <4>1. pel \subseteq Ids /\ Serve(w, "pending", pel) /\ \A i \in pel : i <= delivered
            /\ delivered' = delivered
            BY <3>3, StreamIs DEF Typed, ListPending, redis
      <4>. QED  BY <4>1, ServeIs DEF Typed, Serves
    <3>4. CASE TakeNew(w) \/ Claim(w)
      <4>1. /\ worker'[w].id \in worker[w].todo /\ worker'[w].todo \subseteq worker[w].todo
            /\ ~At(w, "idle") /\ delivered' = delivered
            BY <3>4, TakeIs DEF Typed, TakeNew, Claim, redis, At
      <4>. QED  BY <4>1 DEF Delivered
    <3>5. CASE SkipPending(w)
      <4>1. worker[w] \in Busy /\ At(w, "take") /\ worker \in [Workers -> Busy \cup {AtRest}]
            BY <3>5, WorkerIs DEF SkipPending, Typed, TypeOK, At
      <4>2. worker'[w] = [worker[w] EXCEPT
                            !.todo = worker[w].todo \ {Oldest(worker[w].todo)}]
            BY <3>5, <4>1 DEF SkipPending
      <4>3. worker'[w].todo \subseteq worker[w].todo /\ worker'[w].pc = "take"
            /\ delivered' = delivered
            BY <3>5, <4>1, <4>2 DEF Busy, At, SkipPending
      <4>. QED  BY <4>1, <4>3 DEF Delivered, Serves, At
    <3>6. CASE NextRound(w) \/ Crash(w)
          BY <3>6 DEF NextRound, Crash, Typed, TypeOK, AtRest, Serves, At
    <3>7. ASSUME NEW pc, Moved(w, pc), Serves(w), ~ReadBatch(w)
          PROVE  /\ Serves(w)' => worker'[w].id <= delivered'
                 /\ ~At(w, "idle")' => \A i \in worker'[w].todo : i <= delivered'
          BY <3>2, <3>7 DEF Moved, Delivered, Serves, At
    <3>8. CASE Serves(w) /\ ~Crash(w)
      <4>1. ~ReadBatch(w) /\ \E pc : Moved(w, pc)
            BY <1>1, <3>8, ServesMoves
      <4>. QED  BY <3>7, <3>8, <4>1
    <3>9. CASE ~Serves(w)
          BY <1>1, <3>1, <3>3, <3>4, <3>5, <3>6, <3>9
             DEF WorkerStep, FetchTask, MarkProcessing, CallGateway, ReportComplete,
                 ReportFailure, Retry, Requeue, GiveUp, RecordFailure, Ack, At, Serves
    <3>. QED  BY <3>6, <3>8, <3>9
  <2>. QED  BY <2>2, <2>3 DEF Delivered
<1>2. ASSUME NEW t \in Tasks, RequestStep(t)
      PROVE  Delivered'
  <2>1. delivered' = delivered
        BY <1>2 DEF RequestStep, EnqueueStep, StoreTask, SetExpiry, AddMessage, RequestDies,
                    Expire, redis
  <2>. QED  BY <1>2, <2>1, RequestIs DEF Delivered, Serves, At
<1>3. CASE UNCHANGED vars
      BY <1>3 DEF vars, redis, Delivered, Serves, At
<1>. QED  BY <1>1, <1>2, <1>3 DEF Next, RequestStep

-----------------------------------------------------------------------------
(* Who holds a message                                                     *)

(* As long as nobody claimed from a live worker, a message has one holder, *)
(* who serves it once, and stays pending until he acknowledges it, unless  *)
(* it was evicted.                                                         *)
SoleHolder ==
    /\ \A w \in Workers :
         Serves(w) /\ worker[w].source = "new" => worker[w].id \notin worker[w].todo
    /\ \A i \in Ids : \A u, w \in Workers : Holds(u, i) /\ Holds(w, i) => u = w
    /\ \A i \in Ids : \A w \in Workers : Holds(w, i) => i \in pel \/ i <= evicted

(* A worker gains messages by a batch or a claim and loses them by Ack.    *)
LEMMA HoldsNext ==
    ASSUME Typed, SoleHolder, NEW w \in Workers, WorkerStep(w), NEW i
    PROVE  Holds(w, i)' <=> \/ Holds(w, i) /\ ~(At(w, "ack") /\ worker[w].id = i)
                            \/ ReadBatch(w) /\ i \in Batch
                            \/ Claim(w) /\ i = worker'[w].id
<1>0. /\ ReadBatch(w) => At(w, "idle")
      /\ Claim(w) => At(w, "take")
      BY DEF ReadBatch, Claim
<1>1. CASE ReadBatch(w)
      BY <1>0, <1>1, ReadBatchIs, ServeIs DEF Typed, Holds, Serves, At
<1>2. CASE ListPending(w)
  <2>1. pel \subseteq Ids /\ Serve(w, "pending", pel) /\ At(w, "idle") /\ ~ReadBatch(w)
        BY <1>2, StreamIs DEF Typed, ListPending, ReadBatch
  <2>. QED  BY <1>0, <2>1, ServeIs DEF Typed, Holds, Serves, At
<1>3. CASE TakeNew(w)
  <2>1. /\ worker'[w].pc = "fetch" /\ worker'[w].source = "new" /\ worker[w].source = "new"
        /\ worker'[w].id \in worker[w].todo
        /\ worker'[w].todo = worker[w].todo \ {worker'[w].id}
        /\ At(w, "take") /\ ~ReadBatch(w) /\ ~Claim(w)
        BY <1>3, TakeIs DEF Typed, TakeNew, Claim, ReadBatch, At
  <2>. QED  BY <2>1 DEF Holds, Serves, At
<1>4. CASE Claim(w)
  <2>1. /\ worker'[w].pc = "fetch" /\ worker'[w].source = "pending"
        /\ worker[w].source = "pending" /\ At(w, "take") /\ ~ReadBatch(w)
        BY <1>4, TakeIs DEF Typed, Claim, ReadBatch, At
  <2>. QED  BY <1>4, <2>1 DEF Holds, Serves, At
<1>5. CASE SkipPending(w)
  <2>1. ~Claim(w) /\ ~ReadBatch(w)
    <3>1. worker'[w].pc = "take" /\ At(w, "take")
          BY <1>5, SkipIs
    <3>2. Claim(w) => worker'[w].pc = "fetch"
          BY TakeIs DEF Claim, Typed
    <3>. QED  BY <3>1, <3>2 DEF ReadBatch, At
  <2>. QED  BY <1>5, <2>1, SkipIs DEF Holds, Serves, At
<1>6. CASE NextRound(w)
      BY <1>6 DEF NextRound, ReadBatch, Claim, Holds, Serves, At, AtRest, Typed, TypeOK
<1>7. CASE Serves(w)
  <2>1. ~ReadBatch(w) /\ ~Claim(w) /\ \E pc : Moved(w, pc)
        BY <1>0, <1>7, ServesMoves DEF Serves, At
  <2>2. ~At(w, "idle")' /\ (~At(w, "ack") => Serves(w)')
        BY <1>7, ServesNext
  <2>3. At(w, "ack") => ~Serves(w)'
    <3>1. At(w, "ack") => Ack(w)
          BY DEF WorkerStep, ReadBatch, ListPending, TakeNew, Claim, SkipPending, NextRound,
                 FetchTask, MarkProcessing, CallGateway, ReportComplete, ReportFailure, Retry,
                 Requeue, GiveUp, RecordFailure, At
    <3>2. Ack(w) => Moved(w, "take")
          BY <1>7, GotoMoves DEF Ack, Serves, At, Places, ReportPlaces
    <3>. QED  BY <3>1, <3>2 DEF Moved, Serves
  <2>4. /\ worker'[w].id = worker[w].id /\ worker'[w].todo = worker[w].todo
        /\ worker'[w].source = worker[w].source
        /\ worker[w].source = "new" => worker[w].id \notin worker[w].todo
        /\ ~At(w, "idle")
        BY <1>7, <2>1 DEF Moved, SoleHolder, Serves, At
  <2>. QED  BY <1>7, <2>1, <2>2, <2>3, <2>4 DEF Holds
<1>. QED  BY <1>1, <1>2, <1>3, <1>4, <1>5, <1>6, <1>7
          DEF WorkerStep, FetchTask, MarkProcessing, CallGateway, ReportComplete, ReportFailure,
              Retry, Requeue, GiveUp, RecordFailure, Ack, At, Serves

LEMMA OthersHold ==
    ASSUME NEW w \in Workers, WorkerMoves(w), NEW u \in Workers \ {w}, NEW i
    PROVE  /\ worker'[u] = worker[u] /\ Serves(u)' = Serves(u) /\ (Holds(u, i)' <=> Holds(u, i))
           /\ \A pc : At(u, pc)' = At(u, pc)
BY DEF WorkerMoves, Holds, Serves, At

(* Nothing that was delivered is read again.                               *)
LEMMA HeldDelivered ==
    ASSUME Typed, Delivered, NEW w \in Workers, NEW i \in Ids, Holds(w, i)
    PROVE  i <= delivered /\ i \notin Unread
<1>1. i <= delivered
      BY DEF Delivered, Holds
<1>. QED  BY <1>1, StreamIs DEF Unread, Typed

(* A message leaves the pending list by its acknowledgement, or evicted.   *)
LEMMA PendingKept ==
    ASSUME Typed, NEW w \in Workers, WorkerStep(w) \/ Crash(w), NEW i \in pel
    PROVE  \/ i \in pel' \/ i <= evicted
           \/ At(w, "ack") /\ worker[w].id = i
<1>1. CASE Ack(w)
      BY <1>1 DEF Ack
<1>2. CASE SkipPending(w)
      BY <1>2, SkipIs
<1>3. CASE ReadBatch(w)
      BY <1>3, ReadBatchIs DEF Typed
<1>4. CASE ~Ack(w) /\ ~SkipPending(w) /\ ~ReadBatch(w)
      BY <1>4 DEF WorkerStep, ListPending, TakeNew, Claim, NextRound, FetchTask,
            MarkProcessing, CallGateway, ReportComplete, ReportFailure, Retry, Requeue,
            GiveUp, RecordFailure, Report, Crash, redis
<1>. QED  BY <1>1, <1>2, <1>3, <1>4

LEMMA EvictedGrows ==
    ASSUME Typed, StreamOK
    PROVE  evicted \in Nat /\ evicted' \in Nat /\ evicted' >= evicted
<1>1. evicted' \in 0..Len(stream') /\ Len(stream') \in Nat /\ evicted' >= evicted
      BY LenProperties DEF StreamOK
<1>2. evicted' \in Nat
      BY <1>1
<1>. QED  BY <1>1, <1>2, StreamIs DEF Typed

(* Whom a worker that does not claim from the living takes a message from. *)
LEMMA ClaimsUnheld ==
    ASSUME Typed, NEW w \in Workers, Claim(w), claims' = 0
    PROVE  /\ worker'[w].id \in pel /\ worker'[w].id \in Ids
           /\ \A u \in Workers : ~Holds(u, worker'[w].id)
<1>1. PICK id : /\ id = Oldest(worker[w].todo) /\ id \in pel
                /\ IF Kept(id) THEN claims' = claims + 1 ELSE UNCHANGED claims
                /\ Take(w) /\ At(w, "take") /\ worker[w].todo # {}
      BY DEF Claim
<1>2. claims \in Nat
      BY BoundsAssumption DEF Typed, TypeOK
<1>3. ~Kept(id)
      BY <1>1, <1>2
<1>4. \A u \in Workers : ~Holds(u, id)
      BY <1>3 DEF Kept
<1>. QED  BY <1>1, <1>4, TakeIs, StreamIs DEF Typed

(* A worker starts on a message by taking it or claiming it.               *)
LEMMA StartsBy ==
    ASSUME Typed, NEW w \in Workers, WorkerStep(w), ~Serves(w), Serves(w)'
    PROVE  TakeNew(w) \/ Claim(w)
<1>1. CASE ReadBatch(w)
      BY <1>1, ReadBatchIs, ServeIs DEF Typed, Serves
<1>2. CASE ListPending(w)
  <2>1. pel \subseteq Ids /\ Serve(w, "pending", pel)
        BY <1>2, StreamIs DEF Typed, ListPending
  <2>. QED  BY <2>1, ServeIs DEF Typed, Serves
<1>3. CASE SkipPending(w) \/ NextRound(w)
      BY <1>3, SkipIs DEF NextRound, AtRest, Serves, Typed, TypeOK
<1>. QED  BY <1>1, <1>2, <1>3
          DEF WorkerStep, FetchTask, MarkProcessing, CallGateway, ReportComplete, ReportFailure,
              Retry, Requeue, GiveUp, RecordFailure, Ack, At, Serves

LEMMA SoleStep ==
    ASSUME Typed, Delivered, SoleHolder, NEW w \in Workers, WorkerStep(w) \/ Crash(w),
           claims' = 0
    PROVE  SoleHolder'
<1>1. WorkerMoves(w) /\ StreamOK
      BY WorkerStepMoves, WorkerStepKeeps
<1>2. ASSUME NEW x \in Workers, NEW i, Holds(x, i)'
      PROVE  \/ Holds(x, i) /\ ~(x = w /\ At(w, "ack") /\ worker[w].id = i)
             \/ x = w /\ ReadBatch(w) /\ i \in Batch
             \/ x = w /\ Claim(w) /\ i = worker'[w].id
  <2>1. CASE x # w
        BY <1>1, <1>2, <2>1, OthersHold
  <2>2. CASE x = w /\ WorkerStep(w)
        BY <1>2, <2>2, HoldsNext
  <2>3. CASE x = w /\ Crash(w)
    <3>1. worker'[w] = AtRest
          BY <2>3 DEF Crash, Typed, TypeOK
    <3>. QED  BY <1>2, <2>3, <3>1 DEF Holds, Serves, At, AtRest
  <2>. QED  BY <2>1, <2>2, <2>3
<1>3. ASSUME NEW x \in Workers, NEW i, Holds(x, i)'
      PROVE  i \in Ids
  <2>1. CASE ReadBatch(w) /\ i \in Batch
        BY <2>1, ReadBatchIs DEF Typed
  <2>2. CASE Holds(x, i)
        BY <2>2, WorkerIs, TaskOfIs DEF Holds, Typed, Busy
  <2>3. CASE Claim(w) /\ i = worker'[w].id
        BY <2>3, ClaimsUnheld
  <2>. QED  BY <1>2, <1>3, <2>1, <2>2, <2>3
<1>4. ASSUME NEW u \in Workers, Serves(u)', worker'[u].source = "new"
      PROVE  worker'[u].id \notin worker'[u].todo
  <2>1. CASE u # w
        BY <1>1, <1>4, <2>1, OthersHold DEF SoleHolder
  <2>2. CASE u = w /\ Serves(w) /\ WorkerStep(w)
    <3>1. PICK pc : Moved(w, pc)
          BY <2>2, ServesMoves
    <3>. QED  BY <1>4, <2>2, <3>1 DEF Moved, SoleHolder
  <2>3. CASE u = w /\ ~Serves(w) /\ WorkerStep(w)
    <3>1. TakeNew(w) \/ Claim(w)
          BY <1>4, <2>3, StartsBy
    <3>. QED  BY <2>3, <3>1, TakeIs DEF TakeNew, Claim, Typed
  <2>4. CASE u = w /\ Crash(w)
        BY <1>4, <2>4 DEF Crash, Typed, TypeOK, AtRest, Serves
  <2>. QED  BY <2>1, <2>2, <2>3, <2>4
<1>5. ASSUME NEW i \in Ids', NEW u \in Workers, NEW v \in Workers, Holds(u, i)', Holds(v, i)'
      PROVE  u = v
  <2>1. i \in Ids
        BY <1>3, <1>5
  <2>2. ReadBatch(w) /\ i \in Batch => ~Holds(u, i) /\ ~Holds(v, i)
        BY <2>1, HeldDelivered DEF Batch
  <2>3. Claim(w) /\ i = worker'[w].id => ~Holds(u, i) /\ ~Holds(v, i)
        BY ClaimsUnheld
  <2>4. ASSUME NEW x \in Workers, Holds(x, i)', ~Holds(x, i)
        PROVE  x = w /\ \A y \in {u, v} : ~Holds(y, i)
        BY <1>2, <2>2, <2>3, <2>4
  <2>. QED  BY <1>5, <2>1, <2>4 DEF SoleHolder
<1>6. ASSUME NEW i \in Ids', NEW u \in Workers, Holds(u, i)'
      PROVE  i \in pel' \/ i <= evicted'
  <2>1. i \in Ids /\ i \in Nat
        BY <1>3, <1>6, StreamIs DEF Typed
  <2>2. i <= evicted => i <= evicted'
        BY <1>1, <2>1, EvictedGrows
  <2>3. CASE Holds(u, i) /\ ~(u = w /\ At(w, "ack") /\ worker[w].id = i)
    <3>1. ~(At(w, "ack") /\ worker[w].id = i)
      <4>1. At(w, "ack") /\ worker[w].id = i => Holds(w, i)
            BY DEF Holds, Serves, At
      <4>. QED  BY <2>1, <2>3, <4>1 DEF SoleHolder
    <3>2. i \in pel \/ i <= evicted
          BY <2>1, <2>3 DEF SoleHolder
    <3>. QED  BY <2>2, <3>1, <3>2, PendingKept
  <2>4. CASE ReadBatch(w) /\ i \in Batch
        BY <2>4, ReadBatchIs DEF Typed
  <2>5. CASE Claim(w) /\ i = worker'[w].id
        BY <2>5, ClaimsUnheld DEF Claim, redis
  <2>. QED  BY <1>2, <1>6, <2>3, <2>4, <2>5
<1>. QED  BY <1>4, <1>5, <1>6 DEF SoleHolder

LEMMA SoleByRequest ==
    ASSUME Typed, SoleHolder, NEW t \in Tasks, RequestStep(t)
    PROVE  SoleHolder'
<1>1. worker' = worker /\ pel' = pel /\ StreamOK
      BY RequestIs DEF RequestStep, EnqueueStep, StoreTask, SetExpiry, AddMessage, RequestDies,
                       Expire, redis
<1>2. \A w \in Workers : \A i : (Holds(w, i)' <=> Holds(w, i)) /\ (Holds(w, i) => i \in Ids)
      BY <1>1, TaskOfIs, WorkerIs DEF Holds, Serves, At, Typed, Busy
<1>3. \A i \in Ids : i <= evicted => i <= evicted'
      BY <1>1, EvictedGrows, StreamIs DEF Typed
<1>. QED  BY <1>1, <1>2, <1>3 DEF SoleHolder, Serves

-----------------------------------------------------------------------------
(* Nothing is stranded where no report is refused                          *)

Awaited(t) == Exists(t) /\ task[t].status \in {"pending", "processing"}

(* Who serves a message makes its task come to a result or queues it again *)
(* before he acknowledges it, as he may once its result is written.        *)
Settled(w) == At(w, "ack") \/ worker[w].report = "renew"
WorksOn(w, t) == Serves(w) /\ ~Settled(w) /\ TaskOf(w) = t

(* A message that was not acted on: unread, or pending with nobody about   *)
(* to acknowledge it.                                                      *)
Acked(i) == \E w \in Workers : Settled(w) /\ worker[w].id = i
Fresh(i) == i \in Unread \/ (i \in pel /\ ~Acked(i))

(* It carries its task, or did until the stream was cut.                   *)
Brings(i, t) == i \in Ids /\ stream[i] = t /\ (Fresh(i) \/ i <= evicted)

Covered(t) ==
    \/ \E i \in Ids : Brings(i, t)
    \/ \E w \in Workers : WorksOn(w, t)
    \/ request[t] \in {"stored", "expiring", "died"}

AllCovered == \A t \in Tasks : Awaited(t) => Covered(t)

(* Taken together, a claim from a live worker and a crash lose a task: the *)
(* one acknowledges the message that the other dies with.                  *)
Mild == claims = 0 \/ crashes = 0

LEMMA CoveredMeans == Typed /\ (Mild => AllCovered) => NothingStranded
<1>. SUFFICES ASSUME Typed, AllCovered, NEW t \in Tasks, Awaited(t)
              PROVE  \/ Carried(t)
                     \/ \E w \in Workers : HeldBy(w, t)
                     \/ request[t] \in {"stored", "expiring", "died"}
                     \/ \E i \in 1..evicted : stream[i] = t
     BY DEF NothingStranded, Awaited, Mild
<1>1. ASSUME NEW i \in Ids, Brings(i, t)
      PROVE  Carried(t) \/ \E j \in 1..evicted : stream[j] = t
  <2>1. i \in Nat \ {0} /\ evicted \in Nat
        BY StreamIs DEF Typed
  <2>. QED  BY <1>1, <2>1 DEF Brings, Fresh, Carried
<1>2. ASSUME NEW w \in Workers, WorksOn(w, t)
      PROVE  HeldBy(w, t)
      BY <1>2 DEF WorksOn, HeldBy
<1>. QED  BY <1>1, <1>2 DEF AllCovered, Covered

LEMMA SettledServes ==
    ASSUME Typed, NEW w \in Workers, Settled(w)
    PROVE  Serves(w) /\ worker[w].id \in Ids
<1>1. Serves(w)
      BY DEF Settled, Typed, Reported, Reporting, ReportPlaces, Serves, At
<1>. QED  BY <1>1, TaskOfIs

(* A worker leaves a message with its task at rest or queued again.        *)
LEMMA AckSettles ==
    ASSUME Typed, NEW w \in Workers, WorkerStep(w), "refused" \notin ReportOutcomes,
           Serves(w), ~Settled(w), Settled(w)', NEW t \in Tasks, TaskOf(w) = t
    PROVE  \/ task'[t] = NoTask \/ task'[t].status \in {"completed", "failed"}
           \/ Requeue(w)
<1>0. ASSUME NEW pc, Moved(w, pc), pc \notin ReportPlaces
      PROVE  pc = "ack"
      BY <1>0 DEF Moved, Settled, At
<1>1. CASE FetchTask(w)
  <2>1. ~Exists(t) /\ task' = task
        BY <1>0, <1>1, FetchIs DEF redis, ReportPlaces
  <2>. QED  BY <2>1 DEF Exists
<1>2. CASE Reports(w)
  <2>1. PICK s \in {"completed", "failed"}, onError \in {"retry", "record"} :
          Report(w, s, onError)
        BY <1>2, ReportsIs
  <2>2. worker[w].pc \in ReportPlaces /\ worker[w].report # "renew"
        BY <1>2, ReportsIs DEF Settled
  <2>3. ~Moved(w, onError)
        BY <1>0 DEF ReportPlaces
  <2>4. Moved(w, worker[w].pc) => worker'[w].report = "renew"
        BY <2>2 DEF Moved, Settled, At, ReportPlaces
  <2>5. (~Exists(t) /\ task' = task) \/ task'[t].status = s
        BY <2>1, <2>2, <2>3, <2>4, ReportIs
  <2>. QED  BY <2>5 DEF Exists
<1>3. CASE MarkProcessing(w) \/ RecordFailure(w)
      BY <1>0, <1>3, MarksIs DEF ReportPlaces
<1>4. CASE Retry(w)
      BY <1>4, RetryIs DEF Moved, Settled, At
<1>5. CASE CallGateway(w)
  <2>1. \E pc \in {"complete", "fail", "retry"} : Moved(w, pc) /\ worker'[w].report = "none"
        BY <1>5, GotoMoves DEF CallGateway, At, Places, ReportPlaces
  <2>. QED  BY <2>1 DEF Moved, Settled, At
<1>6. CASE Ack(w)
      BY <1>6 DEF Ack, Settled
<1>. QED  BY <1>1, <1>2, <1>3, <1>4, <1>5, <1>6
          DEF WorkerStep, Reports, ReadBatch, ListPending, TakeNew, Claim, SkipPending,
              NextRound, At, Serves

(* Once its result is written, a report changes no status.                 *)
LEMMA SettledKeeps ==
    ASSUME Typed, NEW w \in Workers, WorkerStep(w), Settled(w), NEW t \in Tasks, Awaited(t)'
    PROVE  Awaited(t)
<1>1. CASE worker[w].report = "renew"
  <2>1. Reports(w)
    <3>1. worker[w].pc \in ReportPlaces
          BY <1>1 DEF Reporting, Typed, Reported
    <3>. QED  BY <3>1 DEF WorkerStep, Reports, ReportPlaces, ReadBatch, ListPending, TakeNew,
                          Claim, SkipPending, NextRound, FetchTask, MarkProcessing, CallGateway,
                          Retry, Requeue, RecordFailure, Ack, At
  <2>2. Renewed(TaskOf(w)) \/ task' = task
        BY <1>1, <2>1, ReportsIs, ReportIs
  <2>3. CASE task'[t] = task[t]
        BY <2>3 DEF Awaited, Exists
  <2>4. CASE task'[t] # task[t]
    <3>1. TaskOf(w) = t
          BY <2>4, OthersKept
    <3>2. Renewed(t) /\ task[t] \in TaskHash
          BY <2>2, <2>4, <3>1, HashIs DEF Renewed, Typed
    <3>3. task'[t].status = task[t].status /\ Exists(t)
          BY <3>2 DEF Renewed, TaskHash
    <3>. QED  BY <3>3 DEF Awaited
  <2>. QED  BY <2>3, <2>4
<1>2. CASE At(w, "ack")
  <2>1. task'[t] = task[t]
        BY <1>2, OthersKept
  <2>. QED  BY <2>1 DEF Awaited, Exists
<1>. QED  BY <1>1, <1>2 DEF Settled

(* A new message is unread or was cut at once.                             *)
LEMMA AddBrings ==
    ASSUME Typed, NEW t \in Tasks, Add(t), delivered' = delivered
    PROVE  \E i \in Ids' : Brings(i, t)'
<1>. DEFINE i == Len(stream) + 1
<1>1. /\ Len(stream') = i /\ stream'[i] = t /\ Len(stream) \in Nat
      /\ evicted' \in Nat /\ delivered \in Nat /\ delivered <= Len(stream)
      BY AddIs, StreamIs DEF Typed
<1>2. i \in Ids' /\ i > delivered'
      BY <1>1 DEF Ids
<1>3. i <= evicted' \/ i > evicted'
      BY <1>1
<1>4. i \in Unread' \/ i <= evicted'
      BY <1>2, <1>3 DEF Unread
<1>. QED  BY <1>1, <1>2, <1>4 DEF Brings, Fresh

(* A message stays fresh until a worker takes it or the stream is cut.     *)
LEMMA FreshKept ==
    ASSUME Typed, Delivered, NEW w \in Workers, WorkerStep(w) \/ Crash(w), NEW i \in Ids,
           Fresh(i) \/ i <= evicted, ~(Serves(w)' /\ worker'[w].id = i)
    PROVE  Fresh(i)' \/ i <= evicted'
<1>0. /\ StreamOK /\ WorkerMoves(w) /\ i \in Nat
      /\ evicted \in Nat /\ evicted' \in Nat /\ evicted' >= evicted
      BY WorkerStepKeeps, WorkerStepMoves, EvictedGrows, StreamIs DEF Typed
<1>1. CASE i <= evicted
      BY <1>0, <1>1
<1>2. ASSUME NEW u \in Workers, Settled(u)', worker'[u].id = i
      PROVE  Acked(i)
  <2>1. u # w
        BY <1>0, <1>2 DEF Serves, Settled, At, WorkerMoves, ReportPlaces
  <2>. QED  BY <1>0, <1>2, <2>1 DEF WorkerMoves, Acked, Settled, At
<1>3. i \in Ids'
      BY <1>0, BusyGrows, LenProperties DEF StreamOK
<1>4. CASE i \in Unread /\ ~ReadBatch(w)
  <2>1. delivered' = delivered
        BY <1>4 DEF WorkerStep, ListPending, TakeNew, Claim, SkipPending, NextRound,
              FetchTask, MarkProcessing, CallGateway, ReportComplete, ReportFailure, Retry,
              Requeue, GiveUp, RecordFailure, Ack, Report, Crash, redis
  <2>2. i > delivered' /\ (i > evicted' \/ i <= evicted')
        BY <1>0, <1>4, <2>1 DEF Unread
  <2>. QED  BY <1>3, <2>2 DEF Fresh, Unread
<1>5. CASE i \in Unread /\ ReadBatch(w)
  <2>1. CASE i \in Batch
    <3>1. i \in pel'
          BY <1>5, <2>1, ReadBatchIs DEF Typed
    <3>2. ~Acked(i)
      <4>1. i > delivered /\ delivered \in Nat /\ i \in Nat
            BY <1>0, <1>5, StreamIs DEF Unread, Typed
      <4>2. \A u \in Workers : Settled(u) => worker[u].id <= delivered /\ worker[u].id \in Nat
            BY SettledServes, StreamIs DEF Delivered, Typed
      <4>. QED  BY <4>1, <4>2 DEF Acked
    <3>. QED  BY <1>2, <3>1, <3>2 DEF Fresh, Acked
  <2>2. CASE i \notin Batch
    <3>1. i > delivered' /\ (i > evicted' \/ i <= evicted')
          BY <1>0, <1>5, <2>2, ReadBatchIs DEF Typed
    <3>. QED  BY <1>3, <3>1 DEF Fresh, Unread
  <2>. QED  BY <2>1, <2>2
<1>6. CASE i \in pel /\ ~Acked(i)
  <2>1. i \in pel' \/ i <= evicted'
        BY <1>0, <1>6, PendingKept DEF Acked, Settled
  <2>. QED  BY <1>2, <1>6, <2>1 DEF Fresh, Acked
<1>. QED  BY <1>1, <1>4, <1>5, <1>6 DEF Fresh

LEMMA ToAck ==
    ASSUME Typed, NEW w \in Workers, WorkerStep(w), Settled(w)'
    PROVE  Serves(w) /\ ~At(w, "ack")
<1>1. CASE ReadBatch(w)
      BY <1>1, ReadBatchIs, ServeIs DEF Typed, Settled, At
<1>2. CASE ListPending(w)
  <2>1. pel \subseteq Ids /\ Serve(w, "pending", pel)
        BY <1>2, StreamIs DEF Typed, ListPending
  <2>. QED  BY <2>1, ServeIs DEF Typed, Settled, At
<1>3. CASE TakeNew(w) \/ Claim(w)
  <2>1. At(w, "take") /\ worker[w].report = "none" /\ worker[w].todo # {} /\ Take(w)
        BY <1>3 DEF TakeNew, Claim, Typed, Reported, Reporting, ReportPlaces, At
  <2>. QED  BY <2>1, TakeIs DEF Typed, Settled, At
<1>4. CASE SkipPending(w)
      BY <1>4, SkipIs DEF Settled, At
<1>5. CASE NextRound(w)
      BY <1>5 DEF NextRound, Typed, TypeOK, AtRest, Settled, At
<1>6. CASE Ack(w)
  <2>1. Goto(w, "take") /\ ~At(w, "idle") /\ worker[w].pc \notin ReportPlaces /\ "take" \in Places
        BY <1>6 DEF Ack, At, Places, ReportPlaces
  <2>. QED  BY <2>1, GotoMoves DEF Moved, Settled, At
<1>. QED  BY <1>1, <1>2, <1>3, <1>4, <1>5, <1>6
          DEF WorkerStep, FetchTask, MarkProcessing, CallGateway, ReportComplete, ReportFailure,
              Retry, Requeue, GiveUp, RecordFailure, At, Serves

(* Who does not work on a task takes nothing from it but a message that he *)
(* starts to serve.                                                        *)
LEMMA CoveredKept ==
    ASSUME Typed, Delivered, NEW w \in Workers, WorkerStep(w), NEW t \in Tasks, Covered(t),
           ~WorksOn(w, t),
           \A i \in Ids : stream[i] = t /\ Fresh(i) => ~(Serves(w)' /\ worker'[w].id = i)
    PROVE  Covered(t)'
<1>1. /\ WorkerMoves(w) /\ StreamOK /\ request' = request /\ Ids \subseteq Ids'
      /\ \A i \in Ids : stream'[i] = stream[i]
      BY WorkerStepMoves, WorkerStepKeeps, BusyGrows, LenProperties DEF StreamOK
<1>2. CASE \E i \in Ids : Brings(i, t)
  <2>1. PICK i \in Ids : Brings(i, t)
        BY <1>2
  <2>2. i \in Nat
        BY StreamIs DEF Typed
  <2>3. i <= evicted => i <= evicted'
        BY <1>1, <2>2, EvictedGrows
  <2>4. Fresh(i)' \/ i <= evicted'
        BY <2>1, <2>3, FreshKept DEF Brings
  <2>. QED  BY <1>1, <2>1, <2>4 DEF Covered, Brings
<1>3. CASE \E u \in Workers : WorksOn(u, t)
  <2>1. PICK u \in Workers : WorksOn(u, t)
        BY <1>3
  <2>2. u # w
        BY <2>1
  <2>3. worker'[u] = worker[u] /\ worker[u].id \in Ids
        BY <1>1, <2>1, <2>2, TaskOfIs DEF WorkerMoves, WorksOn
  <2>4. WorksOn(u, t)'
        BY <1>1, <2>1, <2>3 DEF WorksOn, Serves, Settled, At, TaskOf
  <2>. QED  BY <2>4 DEF Covered
<1>4. CASE request[t] \in {"stored", "expiring", "died"}
      BY <1>1, <1>4 DEF Covered
<1>. QED  BY <1>2, <1>3, <1>4 DEF Covered

LEMMA CoveredByWorker ==
    ASSUME Typed, Delivered, AllCovered, "refused" \notin ReportOutcomes,
           NEW w \in Workers, WorkerStep(w), NEW t \in Tasks, Awaited(t)'
    PROVE  Covered(t)'
<1>1. WorkerMoves(w) /\ \A i \in Ids : stream'[i] = stream[i]
      BY WorkerStepMoves, WorkerStepKeeps DEF StreamOK
<1>2. ASSUME Serves(w)
      PROVE  worker'[w].id = worker[w].id /\ TaskOf(w)' = TaskOf(w)
  <2>1. PICK pc : Moved(w, pc)
        BY <1>2, ServesMoves
  <2>. QED  BY <1>1, <1>2, <2>1, TaskOfIs DEF Moved, TaskOf
<1>3. CASE Serves(w)' /\ TaskOf(w)' = t /\ ~Settled(w)'
      BY <1>3 DEF Covered, WorksOn
<1>4. CASE Settled(w)' /\ TaskOf(w)' = t /\ ~Settled(w)
  <2>1. Serves(w) /\ TaskOf(w) = t
        BY <1>2, <1>4, ToAck
  <2>2. Requeue(w)
        BY <1>4, <2>1, AckSettles DEF Awaited, Exists
  <2>3. \E i \in Ids' : Brings(i, t)'
        BY <2>1, <2>2, AddBrings DEF Requeue
  <2>. QED  BY <2>3 DEF Covered
<1>5. CASE Settled(w)
  <2>1. Covered(t) /\ Serves(w) /\ worker[w].id \in Ids
        BY <1>5, SettledKeeps, SettledServes DEF AllCovered
  <2>2. ~WorksOn(w, t)
        BY <1>5 DEF WorksOn
  <2>3. ASSUME NEW i \in Ids, Fresh(i), worker'[w].id = i PROVE FALSE
    <3>1. worker[w].id = i /\ Acked(i)
          BY <1>2, <1>5, <2>1, <2>3 DEF Acked
    <3>2. i \notin Unread
          BY <2>1, <3>1, HeldDelivered DEF Holds
    <3>. QED  BY <2>3, <3>1, <3>2 DEF Fresh
  <2>. QED  BY <2>1, <2>2, <2>3, CoveredKept
<1>6. CASE ~(Serves(w)' /\ TaskOf(w)' = t) /\ ~Settled(w)
  <2>1. ~(Serves(w) /\ ~At(w, "ack") /\ TaskOf(w) = t)
        BY <1>2, <1>6, ServesNext
  <2>2. task'[t] = task[t]
        BY <2>1, OthersKept
  <2>3. Covered(t)
        BY <2>2 DEF AllCovered, Awaited, Exists
  <2>4. ~WorksOn(w, t)
        BY <2>1 DEF WorksOn, Settled
  <2>5. \A i \in Ids : stream[i] = t => ~(Serves(w)' /\ worker'[w].id = i)
        BY <1>1, <1>6 DEF TaskOf
  <2>. QED  BY <2>3, <2>4, <2>5, CoveredKept
<1>. QED  BY <1>3, <1>4, <1>5, <1>6

LEMMA CoveredByRequest ==
    ASSUME Typed, AllCovered, NEW u \in Tasks, RequestStep(u), NEW t \in Tasks, Awaited(t)'
    PROVE  Covered(t)'
<1>1. /\ worker' = worker /\ Ids \subseteq Ids' /\ \A i \in Ids : stream'[i] = stream[i]
      /\ delivered' = delivered /\ pel' = pel
      BY RequestIs, BusyGrows, LenProperties
         DEF StreamOK, RequestStep, EnqueueStep, StoreTask, SetExpiry, AddMessage, RequestDies,
             Expire, redis
<1>2. evicted \in Nat /\ evicted' \in Nat /\ evicted' >= evicted
      BY RequestIs, EvictedGrows
<1>3. ASSUME Covered(t), request'[t] = request[t] PROVE Covered(t)'
  <2>1. ASSUME NEW i \in Ids, Brings(i, t) PROVE Brings(i, t)'
    <3>1. i \in Nat
          BY StreamIs DEF Typed
    <3>2. i <= evicted => i <= evicted'
          BY <1>2, <3>1
    <3>3. Fresh(i) => Fresh(i)' \/ i <= evicted'
          BY <1>1, <1>2, <3>1 DEF Fresh, Unread, Acked, Settled, At
    <3>. QED  BY <1>1, <2>1, <3>2, <3>3 DEF Brings
  <2>2. ASSUME NEW w \in Workers, WorksOn(w, t) PROVE WorksOn(w, t)'
        BY <1>1, <2>2, TaskOfIs DEF WorksOn, Serves, Settled, At, TaskOf
  <2>. QED  BY <1>1, <1>3, <2>1, <2>2 DEF Covered
<1>4. CASE u # t
      BY <1>3, <1>4, RequestIs DEF AllCovered, Awaited, Exists
<1>5. CASE u = t
  <2>1. CASE AddMessage(t)
    <3>1. \E i \in Ids' : Brings(i, t)'
          BY <2>1, AddBrings DEF AddMessage
    <3>. QED  BY <3>1 DEF Covered
  <2>2. CASE ~AddMessage(t)
        BY <1>5, <2>2, RequestIs DEF Covered, Awaited, Exists
  <2>. QED  BY <2>1, <2>2
<1>. QED  BY <1>4, <1>5

(* What a worker that dies was serving is still pending.                   *)
LEMMA CoveredByCrash ==
    ASSUME Typed, Delivered, AllCovered, SoleHolder, NEW w \in Workers, Crash(w),
           NEW t \in Tasks, Awaited(t)'
    PROVE  Covered(t)'
<1>1. /\ worker' = [worker EXCEPT ![w] = AtRest] /\ UNCHANGED <<redis, request>>
      /\ worker'[w] = AtRest /\ ~Serves(w)' /\ ~Settled(w)'
      /\ \A u \in Workers : u # w => worker'[u] = worker[u]
      BY DEF Crash, Typed, TypeOK, AtRest, Serves, Settled, At
<1>2. Covered(t)
      BY <1>1 DEF redis, AllCovered, Awaited, Exists
<1>3. ASSUME NEW i \in Ids, Brings(i, t)
      PROVE  Brings(i, t)'
      BY <1>1, <1>3 DEF redis, Brings, Fresh, Unread, Acked, Settled, At, Ids
<1>4. ASSUME NEW u \in Workers, u # w, WorksOn(u, t)
      PROVE  WorksOn(u, t)'
      BY <1>1, <1>4 DEF redis, WorksOn, Serves, Settled, At, TaskOf
<1>5. ASSUME WorksOn(w, t)
      PROVE  \E i \in Ids' : Brings(i, t)'
  <2>1. PICK i : i = worker[w].id
        OBVIOUS
  <2>2. i \in Ids /\ stream[i] = t /\ Holds(w, i)
        BY <1>5, <2>1, TaskOfIs DEF WorksOn, Holds, TaskOf
  <2>3. i \in pel \/ i <= evicted
        BY <2>2 DEF SoleHolder
  <2>4. ASSUME NEW u \in Workers, Settled(u)', worker'[u].id = i
        PROVE  FALSE
    <3>1. u # w /\ worker'[u] = worker[u]
          BY <1>1, <2>4
    <3>2. Settled(u)
          BY <2>4, <3>1 DEF Settled, At
    <3>3. Holds(u, i)
          BY <2>4, <3>1, <3>2, SettledServes DEF Holds
    <3>. QED  BY <2>2, <3>1, <3>3 DEF SoleHolder
  <2>5. Fresh(i)' \/ i <= evicted'
        BY <1>1, <2>3, <2>4 DEF redis, Fresh, Acked
  <2>6. i \in Ids' /\ stream'[i] = t
        BY <1>1, <2>2 DEF redis, Ids
  <2>7. Brings(i, t)'
        BY <2>5, <2>6 DEF Brings
  <2>. QED  BY <2>6, <2>7
<1>6. Ids' = Ids /\ request' = request
      BY <1>1 DEF redis, Ids
<1>7. (\E i \in Ids : Brings(i, t)) => (\E i \in Ids' : Brings(i, t)')
      BY <1>3, <1>6
<1>8. (\E u \in Workers : WorksOn(u, t))
        => (\E i \in Ids' : Brings(i, t)') \/ (\E u \in Workers : WorksOn(u, t)')
      BY <1>4, <1>5
<1>. QED  BY <1>2, <1>6, <1>7, <1>8 DEF Covered

LEMMA CountersGrow ==
    ASSUME TypeOK, [Next]_vars
    PROVE  /\ claims' = 0 => claims = 0
           /\ crashes' = 0 => crashes = 0 /\ \A w \in Workers : ~Crash(w)
           /\ crashes' = 0 => \A t \in Tasks : ~RequestDies(t)
<1>1. claims \in Nat /\ crashes \in Nat
      BY BoundsAssumption DEF TypeOK
<1>2. claims' \in {claims, claims + 1} /\ crashes' \in {crashes, crashes + 1}
      BY DEF Next, vars, bounds, WorkerStep, EnqueueStep, StoreTask, SetExpiry, AddMessage,
             RequestDies, Expire, ReadBatch, ListPending, TakeNew, Claim, SkipPending,
             NextRound, FetchTask, MarkProcessing, CallGateway, ReportComplete, ReportFailure,
             Retry, Requeue, GiveUp, RecordFailure, Ack, Report, Crash
<1>. QED  BY <1>1, <1>2 DEF Crash, RequestDies

LEMMA SoleAlways == Typed /\ Delivered /\ (claims = 0 => SoleHolder) /\ [Next]_vars
                    => (claims = 0 => SoleHolder)'
<1>. SUFFICES ASSUME Typed, Delivered, SoleHolder, [Next]_vars, claims' = 0
              PROVE  SoleHolder'
     BY CountersGrow DEF Typed
<1>1. CASE UNCHANGED vars
      BY <1>1 DEF vars, redis, SoleHolder, Holds, Serves, At, Ids
<1>. QED  BY <1>1, SoleStep, SoleByRequest DEF Next, RequestStep

LEMMA CoveredStep ==
    ASSUME "refused" \notin ReportOutcomes
    PROVE  Typed /\ Delivered /\ (claims = 0 => SoleHolder) /\ (Mild => AllCovered) /\ [Next]_vars
           => (Mild => AllCovered)'
<1>. SUFFICES ASSUME Typed, Delivered, claims = 0 => SoleHolder, AllCovered, [Next]_vars,
                     Mild', NEW t \in Tasks, Awaited(t)'
              PROVE  Covered(t)'
     BY CountersGrow DEF AllCovered, Mild, Typed
<1>1. ASSUME NEW w \in Workers, Crash(w) PROVE SoleHolder
      BY <1>1, CountersGrow DEF Mild, Typed
<1>2. CASE UNCHANGED vars
  <2>1. Covered(t)
        BY <1>2 DEF vars, redis, AllCovered, Awaited, Exists
  <2>. QED  BY <1>2, <2>1 DEF vars, redis, Covered, Brings, Fresh, Unread, Acked,
                              WorksOn, Serves, Settled, At, TaskOf, Ids
<1>. QED  BY <1>1, <1>2, CoveredByWorker, CoveredByRequest, CoveredByCrash DEF Next, RequestStep

-----------------------------------------------------------------------------
(* One message, one worker, one count for each task, as long as nothing    *)
(* was served twice                                                        *)

(* Then nobody claims at all: what is pending has its holder.              *)
OneHolder ==
    /\ SoleHolder
    /\ \A w \in Workers : Serves(w) => worker[w].source = "new"
    /\ \A i \in pel : \E w \in Workers : Holds(w, i)

LEMMA NoClaim ==
    ASSUME Typed, OneHolder, NEW w \in Workers, Claim(w), claims' = 0
    PROVE  FALSE
BY ClaimsUnheld DEF OneHolder

LEMMA HolderStep ==
    ASSUME Typed, Delivered, OneHolder, NEW w \in Workers, WorkerStep(w), claims' = 0
    PROVE  OneHolder'
<1>1. WorkerMoves(w) /\ SoleHolder /\ ~Claim(w)
      BY WorkerStepMoves, NoClaim DEF OneHolder
<1>2. SoleHolder'
      BY <1>1, SoleStep
<1>3. ASSUME NEW u \in Workers, Serves(u)'
      PROVE  worker'[u].source = "new"
  <2>1. CASE u # w
        BY <1>1, <1>3, <2>1, OthersHold DEF OneHolder
  <2>2. CASE u = w /\ Serves(w)
    <3>1. PICK pc : Moved(w, pc)
          BY <2>2, ServesMoves
    <3>. QED  BY <2>2, <3>1 DEF Moved, OneHolder
  <2>3. CASE u = w /\ ~Serves(w)
    <3>1. TakeNew(w)
          BY <1>1, <1>3, <2>3, StartsBy
    <3>. QED  BY <2>3, <3>1, TakeIs DEF TakeNew, Typed
  <2>. QED  BY <2>1, <2>2, <2>3
<1>4. ASSUME NEW i \in pel'
      PROVE  \E u \in Workers : Holds(u, i)'
  <2>1. (i \in pel /\ ~(At(w, "ack") /\ worker[w].id = i)) \/ (ReadBatch(w) /\ i \in Batch)
    <3>1. CASE ReadBatch(w)
          BY <1>4, <3>1, ReadBatchIs DEF Typed, ReadBatch, At
    <3>2. CASE Ack(w)
          BY <1>4, <3>2 DEF Ack
    <3>3. CASE SkipPending(w)
          BY <1>4, <3>3, SkipIs DEF At
    <3>4. CASE ~ReadBatch(w) /\ ~Ack(w) /\ ~SkipPending(w)
          BY <1>4, <3>4 DEF WorkerStep, ListPending, TakeNew, Claim, NextRound,
                FetchTask, MarkProcessing, CallGateway, ReportComplete, ReportFailure, Retry,
                Requeue, GiveUp, RecordFailure, Report, redis, At
    <3>. QED  BY <3>1, <3>2, <3>3, <3>4
  <2>2. CASE ReadBatch(w) /\ i \in Batch
        BY <1>1, <2>2, HoldsNext
  <2>3. CASE i \in pel /\ ~(At(w, "ack") /\ worker[w].id = i)
    <3>1. PICK u \in Workers : Holds(u, i)
          BY <2>3 DEF OneHolder
    <3>2. Holds(u, i)'
          BY <1>1, <2>3, <3>1, HoldsNext, OthersHold
    <3>. QED  BY <3>2
  <2>. QED  BY <2>1, <2>2, <2>3
<1>. QED  BY <1>2, <1>3, <1>4 DEF OneHolder

(* A message that nobody serves yet.                                       *)
Waiting(i) ==
    \/ i > delivered
    \/ \E w \in Workers : Holds(w, i) /\ ~(Serves(w) /\ worker[w].id = i)

OneMessage ==
    \A i, j \in Ids : Live(i) /\ Live(j) /\ stream[i] = stream[j] => i = j

NotQueuedYet ==
    \A t \in Tasks : request[t] \in {"new", "stored", "expiring"} =>
        calls[t] = 0 /\ \A i \in Ids : stream[i] # t

(* The calls made so far are counted by the key while the message waits,   *)
(* by its worker while it is served.                                       *)
KeyCounts(t) == Exists(t) => calls[t] <= task[t].retries

WorkerCounts(w) ==
    /\ At(w, "fetch") \/ At(w, "requeue") => KeyCounts(TaskOf(w))
    /\ At(w, "mark") \/ At(w, "call") => calls[TaskOf(w)] <= worker[w].seen
    /\ At(w, "complete") \/ At(w, "fail") \/ At(w, "retry") =>
           calls[TaskOf(w)] <= worker[w].seen + 1

Counted ==
    /\ \A i \in Ids : Waiting(i) => KeyCounts(stream[i])
    /\ \A w \in Workers : WorkerCounts(w)
    /\ \A t \in Tasks : calls[t] <= 1 + MaxRetries

ServedOnce == OneHolder /\ OneMessage /\ NotQueuedYet /\ Counted

(* A worker's step makes no old message wait, or count, that did not.      *)
LEMMA OldOnes ==
    ASSUME Typed, Delivered, OneHolder, NEW w \in Workers, WorkerStep(w), ~Claim(w),
           NEW i \in Ids
    PROVE  (Waiting(i)' => Waiting(i)) /\ (Live(i)' => Live(i))
<1>0. WorkerMoves(w) /\ i \in Nat /\ delivered \in Nat
      BY WorkerStepMoves, StreamIs DEF Typed
<1>1. i > delivered' => i > delivered
  <2>1. CASE ReadBatch(w)
    <3>1. delivered' \in Ids /\ delivered' >= delivered
          BY <2>1, ReadBatchIs DEF Typed
    <3>. QED  BY <1>0, <3>1, StreamIs DEF Typed
  <2>2. CASE ~ReadBatch(w)
        BY <2>2 DEF WorkerStep, ListPending, TakeNew, Claim, SkipPending, NextRound,
              FetchTask, MarkProcessing, CallGateway, ReportComplete, ReportFailure, Retry,
              Requeue, GiveUp, RecordFailure, Ack, Report, redis
  <2>. QED  BY <2>1, <2>2
<1>2. ReadBatch(w) /\ i \in Batch => i > delivered
      BY DEF Batch, Unread
<1>3. ASSUME NEW u \in Workers, u # w
      PROVE  /\ Holds(u, i)' /\ ~(Serves(u) /\ worker[u].id = i)'
                => Holds(u, i) /\ ~(Serves(u) /\ worker[u].id = i)
             /\ Holds(u, i)' /\ ~(At(u, "ack") /\ worker[u].id = i)'
                => Holds(u, i) /\ ~(At(u, "ack") /\ worker[u].id = i)
      BY <1>0, <1>3, OthersHold
<1>4. ASSUME Holds(w, i), ~(At(w, "ack") /\ worker[w].id = i), Serves(w), worker[w].id = i
      PROVE  (Serves(w) /\ worker[w].id = i)'
  <2>1. PICK pc : Moved(w, pc)
        BY <1>4, ServesMoves
  <2>2. Serves(w)'
        BY <1>4, ServesNext
  <2>. QED  BY <1>4, <2>1, <2>2 DEF Moved
<1>. QED  BY <1>1, <1>2, <1>3, <1>4, HoldsNext DEF OneHolder, Waiting, Live

(* What a worker serves nobody else waits for.                             *)
LEMMA ServedIsLive ==
    ASSUME Typed, Delivered, OneHolder, NEW w \in Workers, Serves(w)
    PROVE  /\ worker[w].id \in Ids /\ ~Waiting(worker[w].id)
           /\ ~At(w, "ack") => Live(worker[w].id)
           /\ At(w, "ack") => ~Live(worker[w].id)
<1>1. worker[w].id \in Ids /\ Holds(w, worker[w].id)
      BY TaskOfIs DEF Holds
<1>2. ~(worker[w].id > delivered)
      BY <1>1, HeldDelivered, StreamIs DEF Typed
<1>. QED  BY <1>1, <1>2 DEF OneHolder, SoleHolder, Waiting, Live

(* So the task of a message that is not served by w is left alone by w.    *)
LEMMA Untouched ==
    ASSUME Typed, Delivered, OneHolder, OneMessage, NEW w \in Workers, WorkerStep(w),
           NEW i \in Ids, Live(i), ~(Serves(w) /\ worker[w].id = i)
    PROVE  task'[stream[i]] = task[stream[i]] /\ calls'[stream[i]] = calls[stream[i]]
<1>1. stream[i] \in Tasks
      BY TaskIs DEF Typed
<1>2. ~(Serves(w) /\ ~At(w, "ack") /\ TaskOf(w) = stream[i])
      BY ServedIsLive DEF OneMessage, TaskOf
<1>3. task'[stream[i]] = task[stream[i]]
      BY <1>1, <1>2, OthersKept
<1>4. CASE CallGateway(w)
  <2>1. calls' = [calls EXCEPT ![TaskOf(w)] = @ + 1] /\ Serves(w) /\ ~At(w, "ack")
        BY <1>4 DEF CallGateway, At, Serves
  <2>. QED  BY <1>1, <1>2, <1>3, <2>1 DEF Typed, TypeOK
<1>5. CASE ~CallGateway(w)
  <2>1. calls' = calls
        BY <1>5 DEF WorkerStep, ReadBatch, ListPending, TakeNew, Claim, SkipPending, NextRound,
              FetchTask, MarkProcessing, ReportComplete, ReportFailure, Retry, Requeue, GiveUp,
              RecordFailure, Ack, Report
  <2>. QED  BY <1>3, <2>1
<1>. QED  BY <1>4, <1>5

LEMMA StreamNext ==
    ASSUME Typed, NEW w \in Workers, WorkerStep(w)
    PROVE  \/ ~Requeue(w) /\ Ids' = Ids /\ stream' = stream
           \/ /\ Requeue(w) /\ Serves(w) /\ ~At(w, "ack")
              /\ Ids' = Ids \cup {Len(stream) + 1}
              /\ \A i \in Ids : stream'[i] = stream[i]
              /\ stream'[Len(stream) + 1] = TaskOf(w)
<1>1. CASE Requeue(w)
  <2>1. Serves(w) /\ ~At(w, "ack") /\ Add(TaskOf(w)) /\ TaskOf(w) \in Tasks
        BY <1>1, TaskOfIs DEF Requeue, At, Serves
  <2>2. /\ Len(stream') = Len(stream) + 1 /\ Len(stream) \in Nat
        /\ \A i \in Ids : stream'[i] = stream[i]
        /\ stream'[Len(stream) + 1] = TaskOf(w)
        BY <2>1, AddIs, StreamIs DEF Typed
  <2>3. Ids' = Ids \cup {Len(stream) + 1}
        BY <2>2 DEF Ids
  <2>. QED  BY <1>1, <2>1, <2>2, <2>3
<1>2. CASE ~Requeue(w)
  <2>1. stream' = stream
        BY <1>2 DEF WorkerStep, ReadBatch, ListPending, TakeNew, Claim, SkipPending, NextRound,
              FetchTask, MarkProcessing, CallGateway, ReportComplete, ReportFailure, Retry,
              GiveUp, RecordFailure, Ack, Report, redis
  <2>. QED  BY <1>2, <2>1 DEF Ids
<1>. QED  BY <1>1, <1>2

(* A message is queued again only by who stops serving the last one.       *)
LEMMA MessageStep ==
    ASSUME Typed, Delivered, OneHolder, OneMessage, NEW w \in Workers, WorkerStep(w), ~Claim(w)
    PROVE  OneMessage'
<1>. SUFFICES ASSUME NEW i \in Ids', NEW j \in Ids', Live(i)', Live(j)', stream'[i] = stream'[j]
              PROVE  i = j
     BY DEF OneMessage
<1>1. CASE ~Requeue(w)
      BY <1>1, StreamNext, OldOnes DEF OneMessage
<1>2. CASE Requeue(w)
  <2>0. PICK n, k : n = Len(stream) + 1 /\ k = worker[w].id
        OBVIOUS
  <2>1. /\ Serves(w) /\ ~At(w, "ack") /\ Ids' = Ids \cup {n} /\ stream'[n] = TaskOf(w)
        /\ \A m \in Ids : stream'[m] = stream[m]
        BY <1>2, <2>0, StreamNext
  <2>2. k \in Ids /\ Live(k) /\ stream[k] = TaskOf(w) /\ Holds(w, k) /\ k <= delivered
        BY <2>0, <2>1, ServedIsLive, HeldDelivered DEF TaskOf, Holds
  <2>3. WorkerMoves(w) /\ Moved(w, "ack") /\ delivered' = delivered
    <3>1. Goto(w, "ack") /\ ~At(w, "idle") /\ worker[w].pc \notin ReportPlaces /\ "ack" \in Places
          BY <1>2 DEF Requeue, At, Places, ReportPlaces
    <3>. QED  BY <1>2, <3>1, GotoMoves, WorkerStepMoves DEF Requeue
  <2>4. ~Live(k)'
    <3>1. ~(k > delivered')
          BY <2>2, <2>3, StreamIs DEF Typed
    <3>2. ASSUME NEW u \in Workers, Holds(u, k)' PROVE (At(u, "ack") /\ worker[u].id = k)'
      <4>1. u = w
            BY <2>2, <2>3, <3>2, OthersHold DEF OneHolder, SoleHolder
      <4>. QED  BY <2>0, <2>3, <4>1 DEF Moved, At
    <3>. QED  BY <3>1, <3>2 DEF Live
  <2>5. \A m \in Ids : Live(m)' => stream'[m] # TaskOf(w)
        BY <2>1, <2>2, <2>4, OldOnes DEF OneMessage
  <2>. QED  BY <2>1, <2>5, OldOnes DEF OneMessage
<1>. QED  BY <1>1, <1>2

LEMMA QueuedStep ==
    ASSUME Typed, NotQueuedYet, NEW w \in Workers, WorkerStep(w)
    PROVE  NotQueuedYet'
<1>. SUFFICES ASSUME NEW t \in Tasks, request'[t] \in {"new", "stored", "expiring"}
              PROVE  calls'[t] = 0 /\ \A i \in Ids' : stream'[i] # t
     BY DEF NotQueuedYet
<1>1. calls[t] = 0 /\ \A i \in Ids : stream[i] # t
      BY WorkerStepKeeps DEF NotQueuedYet
<1>2. Serves(w) => TaskOf(w) # t
      BY <1>1, TaskOfIs DEF TaskOf
<1>3. calls'[t] = 0
  <2>1. CASE CallGateway(w)
    <3>1. calls' = [calls EXCEPT ![TaskOf(w)] = @ + 1] /\ Serves(w)
          BY <2>1 DEF CallGateway, At, Serves
    <3>. QED  BY <1>1, <1>2, <3>1 DEF Typed, TypeOK
  <2>2. CASE ~CallGateway(w)
        BY <1>1, <2>2 DEF WorkerStep, ReadBatch, ListPending, TakeNew, Claim, SkipPending,
              NextRound, FetchTask, MarkProcessing, ReportComplete, ReportFailure, Retry,
              Requeue, GiveUp, RecordFailure, Ack, Report
  <2>. QED  BY <2>1, <2>2
<1>. QED  BY <1>1, <1>2, <1>3, StreamNext

(* The count goes with the message: from the key to the worker that        *)
(* fetched it, and back to the key before the message is queued again.     *)
LEMMA CountsNext ==
    ASSUME Typed, Delivered, OneHolder, OneMessage, Counted, NEW w \in Workers, WorkerStep(w),
           ~Claim(w)
    PROVE  WorkerCounts(w)'
<1>0. ASSUME Serves(w)
      PROVE  /\ TaskOf(w) \in Tasks /\ TaskOf(w)' = TaskOf(w) /\ ~At(w, "idle")
             /\ task \in [Tasks -> TaskHash \cup {NoTask}] /\ calls \in [Tasks -> Nat]
  <2>1. PICK pc : Moved(w, pc)
        BY <1>0, ServesMoves
  <2>2. worker[w].id \in Ids /\ TaskOf(w) \in Tasks
        BY <1>0, TaskOfIs
  <2>3. stream'[worker[w].id] = stream[worker[w].id]
        BY <2>2, StreamNext
  <2>4. TaskOf(w)' = TaskOf(w)
        BY <2>1, <2>3 DEF Moved, TaskOf
  <2>. QED  BY <1>0, <2>2, <2>4, WorkerIs DEF Typed, TypeOK
<1>1. CASE ReadBatch(w) \/ ListPending(w) \/ SkipPending(w) \/ NextRound(w)
  <2>1. worker'[w].pc \in {"take", "idle"}
    <3>1. CASE ReadBatch(w)
          BY <3>1, ReadBatchIs, ServeIs DEF Typed
    <3>2. CASE ListPending(w)
      <4>1. pel \subseteq Ids /\ Serve(w, "pending", pel)
            BY <3>2, StreamIs DEF Typed, ListPending
      <4>. QED  BY <4>1, ServeIs DEF Typed
    <3>3. CASE SkipPending(w) \/ NextRound(w)
          BY <3>3, SkipIs DEF NextRound, AtRest, Typed, TypeOK
    <3>. QED  BY <1>1, <3>1, <3>2, <3>3
  <2>. QED  BY <2>1 DEF WorkerCounts, At
<1>2. CASE TakeNew(w)
  <2>1. /\ worker'[w].pc = "fetch" /\ worker'[w].id \in worker[w].todo /\ worker'[w].id \in Ids
        /\ At(w, "take") /\ worker[w].source = "new"
        /\ UNCHANGED <<task, stream, calls>>
        BY <1>2, TakeIs DEF TakeNew, Typed, redis
  <2>2. Waiting(worker'[w].id)
        BY <2>1 DEF Waiting, Holds, At, Serves
  <2>3. KeyCounts(stream[worker'[w].id])
        BY <2>1, <2>2 DEF Counted
  <2>. QED  BY <2>1, <2>3 DEF WorkerCounts, KeyCounts, Exists, TaskOf, At
<1>3. CASE FetchTask(w)
  <2>1. Serves(w) /\ ~At(w, "ack") /\ KeyCounts(TaskOf(w)) /\ UNCHANGED <<task, calls>>
        BY <1>3 DEF FetchTask, At, Serves, Counted, WorkerCounts, redis
  <2>2. CASE Exists(TaskOf(w))
    <3>1. worker'[w].pc = "mark" /\ worker'[w].seen = task[TaskOf(w)].retries
      <4>1. worker' = [worker EXCEPT ![w].pc = "mark", ![w].seen = task[TaskOf(w)].retries]
            BY <1>3, <2>2 DEF FetchTask
      <4>2. worker[w] \in Busy /\ worker \in [Workers -> Busy \cup {AtRest}]
            BY <2>1, WorkerIs DEF Typed, TypeOK
      <4>. QED  BY <4>1, <4>2 DEF Busy
    <3>. QED  BY <1>0, <2>1, <2>2, <3>1 DEF WorkerCounts, KeyCounts, At
  <2>3. CASE ~Exists(TaskOf(w))
    <3>1. worker'[w].pc = "ack"
      <4>1. Goto(w, "ack") /\ "ack" \in Places /\ worker[w].pc \notin ReportPlaces
            BY <1>3, <2>3 DEF FetchTask, Places, ReportPlaces, At
      <4>. QED  BY <1>0, <2>1, <4>1, GotoMoves DEF Moved
    <3>. QED  BY <3>1 DEF WorkerCounts, At
  <2>. QED  BY <2>2, <2>3
<1>4. CASE MarkProcessing(w)
  <2>1. Serves(w) /\ calls[TaskOf(w)] <= worker[w].seen /\ calls' = calls
        BY <1>4 DEF MarkProcessing, At, Serves, Counted, WorkerCounts
  <2>2. worker'[w].seen = worker[w].seen /\ worker'[w].pc \in {"call", "ack"}
        BY <1>4, MarksIs DEF Moved
  <2>. QED  BY <1>0, <2>1, <2>2 DEF WorkerCounts, At
<1>5. CASE CallGateway(w)
  <2>1. Serves(w) /\ calls[TaskOf(w)] <= worker[w].seen
        /\ calls' = [calls EXCEPT ![TaskOf(w)] = @ + 1]
        BY <1>5 DEF CallGateway, At, Serves, Counted, WorkerCounts
  <2>2. PICK pc \in {"complete", "fail", "retry"} : Goto(w, pc)
        BY <1>5 DEF CallGateway
  <2>3. worker'[w].seen = worker[w].seen /\ worker'[w].pc = pc
    <3>1. worker[w].pc \notin ReportPlaces /\ pc \in Places
          BY <1>5 DEF CallGateway, At, Places, ReportPlaces
    <3>. QED  BY <1>0, <2>1, <2>2, <3>1, GotoMoves DEF Moved
  <2>4. worker[w].seen \in Nat
        BY <2>1, WorkerIs, BoundsAssumption DEF Typed, Busy
  <2>5. calls'[TaskOf(w)] <= worker[w].seen + 1
        BY <1>0, <2>1, <2>4
  <2>. QED  BY <1>0, <2>1, <2>3, <2>5 DEF WorkerCounts, At
<1>6. CASE ReportComplete(w) \/ ReportFailure(w)
  <2>1. PICK s \in {"completed", "failed"} : Report(w, s, "retry") /\ Serves(w)
          /\ calls[TaskOf(w)] <= worker[w].seen + 1 /\ worker[w].pc \in {"complete", "fail"}
        BY <1>6 DEF ReportComplete, ReportFailure, At, Serves, Counted, WorkerCounts
  <2>2. worker'[w].seen = worker[w].seen /\ worker'[w].pc \in {"ack", "retry", "complete", "fail"}
        BY <2>1, ReportIs DEF Moved, ReportPlaces
  <2>3. calls' = calls
        BY <2>1 DEF Report
  <2>. QED  BY <1>0, <2>1, <2>2, <2>3 DEF WorkerCounts, At
<1>7. CASE Retry(w)
  <2>1. Serves(w) /\ calls[TaskOf(w)] <= worker[w].seen + 1 /\ calls' = calls
        BY <1>7 DEF Retry, At, Serves, Counted, WorkerCounts
  <2>2. \/ worker'[w].pc = "giveup"
        \/ worker'[w].pc = "requeue" /\ task'[TaskOf(w)].retries = worker[w].seen + 1
        BY <1>7, RetryIs DEF Moved
  <2>. QED  BY <1>0, <2>1, <2>2 DEF WorkerCounts, KeyCounts, At
<1>8. CASE Requeue(w) \/ GiveUp(w) \/ RecordFailure(w) \/ Ack(w)
  <2>1. worker'[w].pc \in {"ack", "record", "take", "giveup"}
    <3>1. CASE Requeue(w) \/ Ack(w) \/ RecordFailure(w)
      <4>1. /\ ~At(w, "idle") /\ worker[w].pc \notin ReportPlaces
            /\ \E pc \in {"ack", "take"} : Goto(w, pc)
            BY <3>1 DEF Requeue, Ack, RecordFailure, At, ReportPlaces
      <4>. QED  BY <4>1, GotoMoves DEF Moved, Places
    <3>2. CASE GiveUp(w)
      <4>1. worker[w].pc = "giveup" /\ Report(w, "failed", "record")
            BY <3>2 DEF GiveUp, At
      <4>. QED  BY <4>1, ReportIs DEF Moved, ReportPlaces
    <3>. QED  BY <1>8, <3>1, <3>2
  <2>. QED  BY <2>1 DEF WorkerCounts, At
<1>. QED  BY <1>1, <1>2, <1>3, <1>4, <1>5, <1>6, <1>7, <1>8 DEF WorkerStep

LEMMA CountedStep ==
    ASSUME Typed, Delivered, OneHolder, OneMessage, Counted, NEW w \in Workers, WorkerStep(w),
           ~Claim(w)
    PROVE  Counted'
<1>1. ASSUME NEW i \in Ids', Waiting(i)'
      PROVE  KeyCounts(stream[i])'
  <2>1. CASE i \in Ids
    <3>1. Waiting(i) /\ ~(Serves(w) /\ worker[w].id = i)
          BY <1>1, <2>1, OldOnes, ServedIsLive
    <3>2. Live(i)
          BY <3>1 DEF Waiting, Live, Serves, At
    <3>3. KeyCounts(stream[i]) /\ stream'[i] = stream[i]
          BY <2>1, <3>1, StreamNext DEF Counted
    <3>. QED  BY <2>1, <3>1, <3>2, <3>3, Untouched DEF KeyCounts, Exists
  <2>2. CASE i \notin Ids
    <3>1. Requeue(w) /\ stream'[i] = TaskOf(w)
          BY <2>2, StreamNext
    <3>2. KeyCounts(TaskOf(w)) /\ UNCHANGED <<task, calls>>
          BY <3>1 DEF Requeue, Counted, WorkerCounts
    <3>. QED  BY <3>1, <3>2 DEF KeyCounts, Exists
  <2>. QED  BY <2>1, <2>2
<1>2. ASSUME NEW u \in Workers
      PROVE  WorkerCounts(u)'
  <2>1. CASE u = w
        BY <2>1, CountsNext
  <2>2. CASE u # w
    <3>1. worker'[u] = worker[u] /\ Serves(u)' = Serves(u) /\ \A pc : At(u, pc)' = At(u, pc)
          BY <2>2, WorkerStepMoves, OthersHold
    <3>2. CASE Serves(u) /\ ~At(u, "ack")
      <4>1. worker[u].id \in Ids /\ Live(worker[u].id) /\ Holds(u, worker[u].id)
            BY <3>2, ServedIsLive DEF Holds
      <4>2. ~(Serves(w) /\ worker[w].id = worker[u].id)
            BY <2>2, <4>1 DEF OneHolder, SoleHolder, Holds
      <4>3. task'[TaskOf(u)] = task[TaskOf(u)] /\ calls'[TaskOf(u)] = calls[TaskOf(u)]
            BY <4>1, <4>2, Untouched DEF TaskOf
      <4>4. TaskOf(u)' = TaskOf(u)
            BY <3>1, <4>1, StreamNext DEF TaskOf
      <4>. QED  BY <3>1, <4>3, <4>4 DEF Counted, WorkerCounts, KeyCounts, Exists
    <3>3. CASE ~Serves(u) \/ At(u, "ack")
          BY <3>1, <3>3 DEF WorkerCounts, Serves, At
    <3>. QED  BY <3>2, <3>3
  <2>. QED  BY <2>1, <2>2
<1>3. \A t \in Tasks : calls'[t] <= 1 + MaxRetries
  <2>1. CASE CallGateway(w)
    <3>1. /\ Serves(w) /\ calls[TaskOf(w)] <= worker[w].seen
          /\ calls' = [calls EXCEPT ![TaskOf(w)] = @ + 1]
          BY <2>1 DEF CallGateway, At, Serves, Counted, WorkerCounts
    <3>2. worker[w].seen \in 0..MaxRetries /\ MaxRetries \in Nat /\ TaskOf(w) \in Tasks
          /\ calls \in [Tasks -> Nat]
          BY <3>1, WorkerIs, TaskOfIs, BoundsAssumption DEF Typed, TypeOK, Busy
    <3>3. calls'[TaskOf(w)] <= 1 + MaxRetries
          BY <3>1, <3>2
    <3>. QED  BY <3>1, <3>2, <3>3 DEF Counted
  <2>2. CASE ~CallGateway(w)
    <3>1. calls' = calls
          BY <2>2 DEF WorkerStep, ReadBatch, ListPending, TakeNew, Claim, SkipPending, NextRound,
                FetchTask, MarkProcessing, ReportComplete, ReportFailure, Retry, Requeue, GiveUp,
                RecordFailure, Ack, Report
    <3>. QED  BY <3>1 DEF Counted
  <2>. QED  BY <2>1, <2>2
<1>. QED  BY <1>1, <1>2, <1>3 DEF Counted

LEMMA RequestOnce ==
    ASSUME Typed, Delivered, ServedOnce, NEW t \in Tasks, RequestStep(t), ~RequestDies(t)
    PROVE  ServedOnce'
<1>1. worker' = worker /\ calls' = calls /\ delivered' = delivered /\ pel' = pel
      BY RequestIs DEF RequestStep, EnqueueStep, StoreTask, SetExpiry, AddMessage, RequestDies,
                       Expire, redis
<1>2. \A w \in Workers : \A i : (Holds(w, i)' <=> Holds(w, i)) /\ (Holds(w, i) => i \in Ids)
      BY <1>1, TaskOfIs, WorkerIs DEF Holds, Serves, At, Typed, Busy
<1>3. OneHolder'
      BY <1>1, <1>2, SoleByRequest DEF ServedOnce, OneHolder, Serves
<1>4. \A i \in Ids : (Waiting(i)' <=> Waiting(i)) /\ (Live(i)' <=> Live(i))
      BY <1>1, <1>2 DEF Waiting, Live, Serves, At
<1>5. ASSUME NEW w \in Workers, Serves(w)
      PROVE  /\ worker[w].id \in Ids /\ TaskOf(w) \in Tasks
             /\ request[TaskOf(w)] \notin {"new", "stored", "expiring"}
      BY <1>5, TaskOfIs DEF ServedOnce, NotQueuedYet, TaskOf
<1>6. CASE AddMessage(t)
  <2>. DEFINE n == Len(stream) + 1
  <2>1. /\ Ids' = Ids \cup {n} /\ stream'[n] = t /\ \A i \in Ids : stream'[i] = stream[i]
        /\ task' = task /\ request' = [request EXCEPT ![t] = "answered"]
        /\ request[t] = "expiring"
    <3>1. Len(stream') = Len(stream) + 1 /\ Len(stream) \in Nat
          BY <1>6, AddIs, StreamIs DEF AddMessage, Typed
    <3>2. Ids' = Ids \cup {n}
          BY <3>1 DEF Ids
    <3>. QED  BY <1>6, <3>2, AddIs DEF AddMessage, Typed
  <2>2. calls[t] = 0 /\ \A i \in Ids : stream[i] # t
        BY <2>1 DEF ServedOnce, NotQueuedYet
  <2>3. OneMessage'
        BY <1>4, <2>1, <2>2 DEF ServedOnce, OneMessage
  <2>4. NotQueuedYet'
    <3>. SUFFICES ASSUME NEW u \in Tasks, request'[u] \in {"new", "stored", "expiring"}
                  PROVE  calls'[u] = 0 /\ \A i \in Ids' : stream'[i] # u
         BY DEF NotQueuedYet
    <3>1. u # t /\ request[u] = request'[u]
          BY <2>1 DEF Typed, TypeOK
    <3>. QED  BY <1>1, <2>1, <3>1 DEF ServedOnce, NotQueuedYet
  <2>5. KeyCounts(t)'
    <3>1. Exists(t) => task[t].retries \in Nat
          BY HashIs, BoundsAssumption DEF Typed, TaskHash
    <3>. QED  BY <1>1, <2>1, <2>2, <3>1 DEF KeyCounts, Exists
  <2>6. Counted'
    <3>1. ASSUME NEW i \in Ids', Waiting(i)' PROVE KeyCounts(stream[i])'
          BY <1>1, <1>4, <2>1, <2>5, <3>1 DEF ServedOnce, Counted, KeyCounts, Exists
    <3>2. ASSUME NEW w \in Workers PROVE WorkerCounts(w)'
      <4>1. Serves(w) => TaskOf(w)' = TaskOf(w)
            BY <1>1, <1>5, <2>1 DEF TaskOf
      <4>. QED  BY <1>1, <2>1, <4>1 DEF ServedOnce, Counted, WorkerCounts, KeyCounts, Exists, At,
                                       Serves
    <3>. QED  BY <1>1, <3>1, <3>2 DEF ServedOnce, Counted
  <2>. QED  BY <1>3, <2>3, <2>4, <2>6 DEF ServedOnce
<1>7. CASE ~AddMessage(t)
  <2>1. stream' = stream /\ Ids' = Ids
        BY <1>7 DEF RequestStep, EnqueueStep, StoreTask, SetExpiry, RequestDies, Expire, Ids
  <2>2. OneMessage'
        BY <1>4, <2>1 DEF ServedOnce, OneMessage
  <2>3. request'[t] # request[t] => request[t] \in {"new", "stored", "expiring"}
        BY <1>7 DEF RequestStep, EnqueueStep, StoreTask, SetExpiry, RequestDies, Expire
  <2>4. NotQueuedYet'
    <3>. SUFFICES ASSUME NEW u \in Tasks, request'[u] \in {"new", "stored", "expiring"}
                  PROVE  calls'[u] = 0 /\ \A i \in Ids' : stream'[i] # u
         BY DEF NotQueuedYet
    <3>1. request[u] \in {"new", "stored", "expiring"}
      <4>1. u # t => request'[u] = request[u]
            BY RequestIs
      <4>. QED  BY <2>3, <4>1
    <3>. QED  BY <1>1, <2>1, <3>1 DEF ServedOnce, NotQueuedYet
  <2>5. ASSUME NEW u \in Tasks, KeyCounts(u),
               u = t => request[t] \notin {"new", "stored", "expiring"}
        PROVE  KeyCounts(u)'
    <3>1. CASE u # t
          BY <1>1, <2>5, <3>1, RequestIs DEF KeyCounts, Exists
    <3>2. CASE u = t
      <4>1. Expire(t)
            BY <1>7, <2>5, <3>2 DEF RequestStep, EnqueueStep, StoreTask, SetExpiry
      <4>. QED  BY <3>2, <4>1 DEF Expire, KeyCounts, Exists, Typed, TypeOK
    <3>. QED  BY <3>1, <3>2
  <2>6. Counted'
    <3>1. ASSUME NEW i \in Ids', Waiting(i)' PROVE KeyCounts(stream[i])'
      <4>1. i \in Ids /\ stream[i] \in Tasks /\ KeyCounts(stream[i])
            BY <1>4, <2>1, <3>1, TaskIs DEF ServedOnce, Counted, Typed
      <4>2. stream[i] = t => request[t] \notin {"new", "stored", "expiring"}
            BY <4>1 DEF ServedOnce, NotQueuedYet
      <4>. QED  BY <2>1, <2>5, <4>1, <4>2
    <3>2. ASSUME NEW w \in Workers PROVE WorkerCounts(w)'
      <4>1. CASE Serves(w)
        <5>1. KeyCounts(TaskOf(w)) => KeyCounts(TaskOf(w))'
              BY <1>1, <1>5, <2>1, <2>5, <4>1 DEF TaskOf
        <5>. QED  BY <1>1, <2>1, <5>1 DEF ServedOnce, Counted, WorkerCounts, At, TaskOf
      <4>2. CASE ~Serves(w)
            BY <1>1, <4>2 DEF WorkerCounts, At, Serves
      <4>. QED  BY <4>1, <4>2
    <3>. QED  BY <1>1, <3>1, <3>2 DEF ServedOnce, Counted
  <2>. QED  BY <1>3, <2>2, <2>4, <2>6 DEF ServedOnce
<1>. QED  BY <1>6, <1>7

Once == claims = 0 /\ crashes = 0

LEMMA OnceStep == Typed /\ Delivered /\ (Once => ServedOnce) /\ [Next]_vars => (Once => ServedOnce)'
<1>. SUFFICES ASSUME Typed, Delivered, Once => ServedOnce, [Next]_vars, Once'
              PROVE  ServedOnce'
     OBVIOUS
<1>1. ~(\E w \in Workers : Crash(w)) /\ ~(\E t \in Tasks : RequestDies(t)) /\ Once
      BY CountersGrow DEF Once, Typed
<1>2. ServedOnce
      BY <1>1
<1>3. ASSUME NEW w \in Workers, WorkerStep(w)
      PROVE  ServedOnce'
  <2>1. ~Claim(w)
        BY <1>2, NoClaim DEF ServedOnce, Once
  <2>. QED  BY <1>2, <1>3, <2>1, HolderStep, MessageStep, QueuedStep, CountedStep
            DEF ServedOnce, Once
<1>4. CASE UNCHANGED vars
      BY <1>2, <1>4 DEF vars, redis, bounds, ServedOnce, OneHolder, SoleHolder, OneMessage,
                        NotQueuedYet, Counted, Waiting, Live, Holds, WorkerCounts, KeyCounts,
                        Serves, At, TaskOf, Exists, Ids
<1>. QED  BY <1>1, <1>2, <1>3, <1>4, RequestOnce DEF Next, RequestStep

-----------------------------------------------------------------------------
(* The contract                                                            *)

(* Nobody reads a result of a task whose message was not added yet.        *)
NoResultYet ==
    \A t \in Tasks : request[t] \in {"new", "stored", "expiring"} => ~HasResult(t)

LEMMA NoResultByRequest ==
    ASSUME Typed, NoResultYet, NEW u \in Tasks, RequestStep(u)
    PROVE  NoResultYet'
<1>. SUFFICES ASSUME NEW t \in Tasks, request'[t] \in {"new", "stored", "expiring"}
              PROVE  ~HasResult(t)'
     BY DEF NoResultYet
<1>1. CASE u # t
      BY <1>1, RequestIs DEF NoResultYet, HasResult, Exists
<1>2. CASE StoreTask(t)
  <2>1. task'[t] = [Hash(t) EXCEPT !.status = "pending"] /\ Hash(t) \in TaskHash
        BY <1>2, StatusSet, HashIs DEF StoreTask, Typed, Statuses
  <2>2. task'[t].status = "pending"
        BY <2>1 DEF TaskHash
  <2>. QED  BY <2>2 DEF HasResult
<1>3. CASE SetExpiry(t)
  <2>1. Exists(t) /\ task[t] \in TaskHash /\ ~HasResult(t)
        BY <1>3, HashIs DEF SetExpiry, Typed, HasKey, NoResultYet
  <2>2. task'[t] = [task[t] EXCEPT !.ttl = TRUE]
        BY <1>3, <2>1 DEF SetExpiry, Typed, TypeOK
  <2>3. task'[t].status = task[t].status
        BY <2>1, <2>2 DEF TaskHash
  <2>. QED  BY <2>1, <2>3 DEF HasResult
<1>4. CASE AddMessage(t) \/ RequestDies(t) \/ Expire(t)
      BY <1>4 DEF AddMessage, RequestDies, Expire, Typed, TypeOK
<1>. QED  BY <1>1, <1>2, <1>3, <1>4 DEF RequestStep, EnqueueStep

LEMMA NoResultByWorker ==
    ASSUME Typed, ServedOnce, NoResultYet, NEW w \in Workers, WorkerStep(w)
    PROVE  NoResultYet'
<1>. SUFFICES ASSUME NEW t \in Tasks, request'[t] \in {"new", "stored", "expiring"}
              PROVE  ~HasResult(t)'
     BY DEF NoResultYet
<1>1. request' = request
      BY WorkerStepKeeps
<1>2. Serves(w) => TaskOf(w) # t
      BY <1>1, TaskOfIs DEF ServedOnce, NotQueuedYet, TaskOf
<1>3. task'[t] = task[t]
      BY <1>2, OthersKept
<1>. QED  BY <1>1, <1>3 DEF NoResultYet, HasResult, Exists

LEMMA ServedIsOpen ==
    ASSUME Typed, Delivered, ServedOnce, NEW w \in Workers, Serves(w), ~At(w, "ack")
    PROVE  TaskOf(w) \in Tasks /\ Phase(TaskOf(w)) = "open"
<1>1. /\ worker[w].id \in Ids /\ Live(worker[w].id)
      /\ TaskOf(w) \in Tasks /\ request[TaskOf(w)] # "new"
      BY ServedIsLive, TaskOfIs DEF ServedOnce, NotQueuedYet, TaskOf
<1>. QED  BY <1>1 DEF Phase, TaskOf

(* A worker may close a task and opens none.                               *)
LEMMA PhaseNext ==
    ASSUME Typed, Delivered, ServedOnce, NEW w \in Workers, WorkerStep(w), claims' = 0,
           NEW t \in Tasks
    PROVE  Phase(t)' = Phase(t) \/ (Phase(t) = "open" /\ Phase(t)' = "over")
<1>1. request' = request /\ ~Claim(w)
      BY WorkerStepKeeps, NoClaim DEF ServedOnce
<1>2. CASE request[t] \in {"new", "stored", "expiring"}
      BY <1>1, <1>2 DEF Phase
<1>3. CASE request[t] \notin {"new", "stored", "expiring"}
  <2>1. ASSUME NEW i \in Ids', stream'[i] = t, Live(i)'
        PROVE  Phase(t) = "open"
    <3>1. CASE i \in Ids
      <4>1. Live(i) /\ stream[i] = t
            BY <1>1, <2>1, <3>1, OldOnes, StreamNext DEF ServedOnce
      <4>. QED  BY <1>3, <3>1, <4>1 DEF Phase
    <3>2. CASE i \notin Ids
      <4>1. Serves(w) /\ ~At(w, "ack") /\ TaskOf(w) = t
            BY <2>1, <3>2, StreamNext
      <4>. QED  BY <4>1, ServedIsOpen
    <3>. QED  BY <3>1, <3>2
  <2>. QED  BY <1>1, <1>3, <2>1 DEF Phase
<1>. QED  BY <1>2, <1>3

(* It leaves the tasks that it does not serve as they are.                 *)
LEMMA PhaseOthers ==
    ASSUME Typed, Delivered, ServedOnce, NEW w \in Workers, WorkerStep(w), claims' = 0,
           Serves(w), ~At(w, "ack"), ~Requeue(w), NEW t \in Tasks,
           t # TaskOf(w) \/ (Serves(w)' /\ ~At(w, "ack")')
    PROVE  Phase(t)' = Phase(t)
<1>1. request' = request /\ ~Claim(w) /\ ~ReadBatch(w) /\ WorkerMoves(w)
      /\ Ids' = Ids /\ stream' = stream /\ \E pc : Moved(w, pc)
      BY WorkerStepKeeps, NoClaim, ServesMoves, WorkerStepMoves, StreamNext DEF ServedOnce
<1>2. delivered' = delivered
      BY <1>1 DEF WorkerStep, ListPending, TakeNew, Claim, SkipPending, NextRound,
            FetchTask, MarkProcessing, CallGateway, ReportComplete, ReportFailure, Retry,
            Requeue, GiveUp, RecordFailure, Ack, Report, redis
<1>3. ASSUME NEW i \in Ids, stream[i] = t, Live(i)
      PROVE  Live(i)'
  <2>1. CASE i > delivered
        BY <1>2, <2>1 DEF Live
  <2>2. CASE ~(i > delivered)
    <3>1. PICK u \in Workers : Holds(u, i) /\ ~(At(u, "ack") /\ worker[u].id = i)
          BY <1>3, <2>2 DEF Live
    <3>2. CASE u # w
          BY <1>1, <3>1, <3>2, OthersHold DEF Live
    <3>3. CASE u = w
      <4>1. Holds(w, i)'
            BY <3>1, <3>3, HoldsNext DEF ServedOnce, OneHolder
      <4>2. ~(At(w, "ack")' /\ worker'[w].id = i)
            BY <1>1, <1>3 DEF Moved, TaskOf
      <4>. QED  BY <4>1, <4>2 DEF Live, At
    <3>. QED  BY <3>2, <3>3
  <2>. QED  BY <2>1, <2>2
<1>4. (\E i \in Ids : stream[i] = t /\ Live(i)) => (\E i \in Ids' : stream'[i] = t /\ Live(i)')
      BY <1>1, <1>3
<1>5. Phase(t) = "open" => Phase(t)' = "open"
      BY <1>1, <1>4 DEF Phase
<1>. QED  BY <1>5, PhaseNext

(* What a client reads of the task.                                        *)
Shown(t) == IF HasResult(t) THEN task[t].status ELSE "none"

LEMMA WorkerContract ==
    ASSUME Typed, Delivered, ServedOnce, NEW w \in Workers, WorkerStep(w), claims' = 0,
           ServedOnce'
    PROVE  Contract!ContractNext
<1>0. ~Claim(w) /\ calls \in [Tasks -> Nat]
      BY NoClaim DEF ServedOnce, Typed, TypeOK
<1>1. CASE CallGateway(w)
  <2>0. PICK t : t = TaskOf(w)
        OBVIOUS
  <2>1. /\ Serves(w) /\ ~At(w, "ack") /\ ~Requeue(w)
        /\ \E pc \in {"complete", "fail", "retry"} : Goto(w, pc)
        /\ calls' = [calls EXCEPT ![t] = @ + 1] /\ task' = task
        BY <1>1, <2>0 DEF CallGateway, Requeue, At, Serves, redis
  <2>2. Serves(w)' /\ ~At(w, "ack")'
    <3>1. PICK pc \in {"complete", "fail", "retry"} : Moved(w, pc)
          BY <1>1, <2>1, GotoMoves DEF CallGateway, Serves, At, Places, ReportPlaces
    <3>. QED  BY <3>1 DEF Moved, Serves, At
  <2>3. t \in Tasks /\ Phase(t) = "open"
        BY <2>0, <2>1, ServedIsOpen
  <2>4. \A u \in Tasks : Phase(u)' = Phase(u)
        BY <2>1, <2>2, PhaseOthers
  <2>5. calls[t] < 1 + MaxRetries
    <3>1. calls'[t] <= 1 + MaxRetries /\ calls'[t] = calls[t] + 1
          BY <1>0, <2>1, <2>3 DEF ServedOnce, Counted
    <3>. QED  BY <1>0, <2>3, <3>1, BoundsAssumption
  <2>6. \A u \in Tasks : HasResult(u)' = HasResult(u)
        BY <2>1 DEF HasResult, Exists
  <2>7. Contract!Call(t)
        BY <2>1, <2>3, <2>4, <2>5, <2>6 DEF Contract!Call
  <2>. QED  BY <2>3, <2>7 DEF Contract!ContractNext
<1>2. CASE Reports(w) \/ MarkProcessing(w) \/ RecordFailure(w) \/ Retry(w)
  <2>0. PICK t, r, next : t = TaskOf(w) /\ r = Shown(t)' /\ next = Phase(t)'
        OBVIOUS
  <2>1. Serves(w) /\ ~At(w, "ack") /\ ~Requeue(w) /\ calls' = calls
        BY <1>2 DEF Reports, ReportComplete, ReportFailure, GiveUp, Report, MarkProcessing,
                    RecordFailure, Retry, Requeue, At, Serves
  <2>2. t \in Tasks /\ Phase(t) = "open"
        BY <2>0, <2>1, ServedIsOpen
  <2>3. \A u \in Tasks : u # t => Phase(u)' = Phase(u) /\ task'[u] = task[u]
    <3>1. \A u \in Tasks : u # t => Phase(u)' = Phase(u)
          BY <2>0, <2>1, PhaseOthers
    <3>2. \A u \in Tasks : u # t => task'[u] = task[u]
          BY <2>0, OthersKept
    <3>. QED  BY <3>1, <3>2
  <2>4. next \in {"open", "over"} /\ r \in Contract!Results
        BY <2>0, <2>2, PhaseNext DEF Shown, HasResult, Contract!Results
  <2>5. \A u \in Tasks : u # t => Shown(u)' = Shown(u)
        BY <2>3 DEF Shown, HasResult, Exists
  <2>6. Contract!Answer(t, r, next)
        BY <2>0, <2>1, <2>2, <2>3, <2>5 DEF Contract!Answer, Shown
  <2>. QED  BY <2>2, <2>4, <2>6 DEF Contract!ContractNext
<1>3. CASE ~CallGateway(w) /\ ~(Reports(w) \/ MarkProcessing(w) \/ RecordFailure(w) \/ Retry(w))
  <2>1. calls' = calls /\ task' = task
        BY <1>0, <1>3 DEF WorkerStep, Reports, ReadBatch, ListPending, TakeNew, SkipPending,
              NextRound, FetchTask, Requeue, Ack, redis
  <2>2. \A u \in Tasks : Shown(u)' = Shown(u)
        BY <2>1 DEF Shown, HasResult, Exists
  <2>3. PICK closed : closed = {u \in Tasks : Phase(u)' # Phase(u)}
        OBVIOUS
  <2>4. \A u \in Tasks : IF u \in closed THEN Phase(u) = "open" /\ Phase(u)' = "over"
                                         ELSE Phase(u)' = Phase(u)
        BY <2>3, PhaseNext
  <2>5. Contract!Close(closed)
        BY <2>1, <2>2, <2>3, <2>4 DEF Contract!Close, Shown
  <2>. QED  BY <2>3, <2>5 DEF Contract!ContractNext
<1>. QED  BY <1>1, <1>2, <1>3

LEMMA RequestContract ==
    ASSUME Typed, Delivered, ServedOnce, NoResultYet, NEW t \in Tasks, RequestStep(t),
           ~RequestDies(t)
    PROVE  [Contract!ContractNext]_(Contract!contractVars)
<1>0. worker' = worker /\ calls' = calls /\ delivered' = delivered
      BY RequestIs DEF RequestStep, EnqueueStep, StoreTask, SetExpiry, AddMessage, RequestDies,
                       Expire, redis
<1>1. \A i : Live(i)' <=> Live(i)
      BY <1>0 DEF Live, Holds, Serves, At
<1>2. \A u \in Tasks : u # t => task'[u] = task[u] /\ request'[u] = request[u]
      BY RequestIs
<1>3. CASE AddMessage(t)
  <2>0. PICK n : n = Len(stream) + 1
        OBVIOUS
  <2>1. /\ Ids' = Ids \cup {n} /\ stream'[n] = t /\ \A i \in Ids : stream'[i] = stream[i]
        /\ task' = task /\ request[t] = "expiring" /\ request'[t] = "answered"
        /\ n > delivered /\ n \notin Ids
    <3>1. /\ Len(stream') = n /\ Len(stream) \in Nat /\ Add(t)
          /\ delivered \in Nat /\ delivered <= Len(stream)
          BY <1>3, <2>0, AddIs, StreamIs DEF AddMessage, Typed
    <3>2. Ids' = Ids \cup {n} /\ n \notin Ids
          BY <2>0, <3>1 DEF Ids
    <3>3. /\ task' = task /\ request[t] = "expiring" /\ request'[t] = "answered"
          BY <1>3 DEF AddMessage, Typed, TypeOK
    <3>4. \A i \in Ids : stream'[i] = stream[i]
          BY <3>1, AddIs DEF Typed
    <3>5. stream'[n] = t
          BY <2>0, <3>1, AddIs DEF Typed
    <3>. QED  BY <2>0, <3>1, <3>2, <3>3, <3>4, <3>5
  <2>2. Phase(t) = "open" /\ Phase(t)' = "open"
        BY <1>0, <2>1 DEF Phase, Live
  <2>3. \A u \in Tasks : u # t => Phase(u)' = Phase(u)
        BY <1>1, <1>2, <2>1 DEF Phase
  <2>4. \A u \in Tasks : Shown(u)' = Shown(u)
        BY <2>1 DEF Shown, HasResult, Exists
  <2>. QED  BY <1>0, <2>2, <2>3, <2>4 DEF Contract!contractVars, Shown
<1>4. CASE ~AddMessage(t)
  <2>0. Ids' = Ids /\ stream' = stream
        BY <1>4 DEF RequestStep, EnqueueStep, StoreTask, SetExpiry, Expire, Ids
  <2>1. \A u \in Tasks : request'[u] = request[u] => Phase(u)' = Phase(u)
        BY <1>1, <2>0 DEF Phase
  <2>2. \A u \in Tasks : u # t => Shown(u)' = Shown(u) /\ Phase(u)' = Phase(u)
        BY <1>2, <2>1 DEF Shown, HasResult, Exists
  <2>3. CASE StoreTask(t)
    <3>1. request[t] = "new" /\ request'[t] = "stored"
          BY <2>3 DEF StoreTask, Typed, TypeOK
    <3>2. Phase(t) = "new" /\ Phase(t)' = "open" /\ Shown(t) = "none" /\ Shown(t)' = "none"
          BY <3>1, NoResultByRequest DEF Phase, Shown, NoResultYet
    <3>3. Contract!Submit(t)
          BY <1>0, <2>2, <3>2 DEF Contract!Submit, Shown
    <3>. QED  BY <3>3 DEF Contract!ContractNext
  <2>4. CASE SetExpiry(t)
    <3>1. request[t] = "stored" /\ request'[t] = "expiring"
          BY <2>4 DEF SetExpiry, Typed, TypeOK
    <3>2. Phase(t) = "open" /\ Phase(t)' = "open" /\ ~HasResult(t) /\ ~HasResult(t)'
          BY <3>1, NoResultByRequest DEF Phase, NoResultYet
    <3>3. Shown(t)' = Shown(t)
          BY <3>2 DEF Shown
    <3>. QED  BY <1>0, <2>2, <3>2, <3>3 DEF Contract!contractVars, Shown
  <2>5. CASE Expire(t)
    <3>1. request'[t] = request[t] /\ task'[t] = NoTask
          BY <2>5 DEF Expire, Typed, TypeOK
    <3>2. Phase(t)' = Phase(t) /\ Shown(t)' = "none"
          BY <2>1, <3>1 DEF Shown, HasResult, Exists
    <3>3. Contract!Expire(t)
          BY <1>0, <2>2, <3>2 DEF Contract!Expire, Shown
    <3>. QED  BY <3>3 DEF Contract!ContractNext
  <2>. QED  BY <1>4, <2>3, <2>4, <2>5 DEF RequestStep, EnqueueStep
<1>. QED  BY <1>3, <1>4

LEMMA ContractStep ==
    ASSUME Typed, Delivered, Once => ServedOnce /\ NoResultYet, [Next]_vars, Once'
    PROVE  NoResultYet' /\ [Contract!ContractNext]_(Contract!contractVars)
<1>1. /\ \A w \in Workers : ~Crash(w)
      /\ \A t \in Tasks : ~RequestDies(t)
      /\ ServedOnce /\ NoResultYet /\ ServedOnce' /\ claims' = 0
      BY CountersGrow, OnceStep DEF Once, Typed
<1>2. CASE UNCHANGED vars
  <2>1. NoResultYet'
        BY <1>1, <1>2 DEF vars, redis, NoResultYet, HasResult, Exists
  <2>2. Contract!contractVars' = Contract!contractVars
        BY <1>2 DEF vars, redis, Contract!contractVars, Phase, Live, Holds, Serves, At, Ids,
                    HasResult, Exists
  <2>. QED  BY <2>1, <2>2
<1>3. ASSUME NEW w \in Workers, WorkerStep(w)
      PROVE  NoResultYet' /\ Contract!ContractNext
      BY <1>1, <1>3, NoResultByWorker, WorkerContract
<1>4. ASSUME NEW t \in Tasks, RequestStep(t)
      PROVE  NoResultYet' /\ [Contract!ContractNext]_(Contract!contractVars)
      BY <1>1, <1>4, NoResultByRequest, RequestContract
<1>. QED  BY <1>1, <1>2, <1>3, <1>4 DEF Next, RequestStep

-----------------------------------------------------------------------------
(* Theorems                                                                *)

LEMMA AtFirst ==
    Init => Typed /\ Delivered /\ FewLeft /\ AllCovered /\ ServedOnce
<1>. SUFFICES ASSUME Init
              PROVE  Typed /\ Delivered /\ FewLeft /\ AllCovered /\ ServedOnce
     OBVIOUS
<1>1. /\ task = [t \in Tasks |-> NoTask] /\ request = [t \in Tasks |-> "new"]
      /\ worker = [w \in Workers |-> AtRest] /\ calls = [t \in Tasks |-> 0]
      /\ stream = <<>> /\ evicted = 0 /\ delivered = 0 /\ pel = {}
      /\ claims = 0 /\ crashes = 0 /\ aborts = 0 /\ expiries = 0
      BY DEF Init
<1>2. stream \in Seq(Tasks) /\ Len(stream) = 0
      BY <1>1
<1>3. TypeOK
      BY <1>1, <1>2, BoundsAssumption DEF TypeOK
<1>4. \A t \in Tasks : ~Exists(t) /\ request[t] = "new" /\ calls[t] = 0
      BY <1>1 DEF Exists
<1>5. \A w \in Workers :
        At(w, "idle") /\ ~Serves(w) /\ ~Reporting(w) /\ \A i : ~Holds(w, i)
      BY <1>1 DEF At, AtRest, Serves, Holds, Reporting
<1>6. Ids = {}
      BY <1>2 DEF Ids
<1>7. Typed /\ Delivered /\ FewLeft /\ AllCovered
  <2>1. Left = {}
        BY <1>4 DEF Left, LeftForGood
  <2>2. FewLeft
        BY <1>1, <2>1, FS_EmptySet DEF FewLeft
  <2>. QED  BY <1>3, <1>4, <1>5, <2>2 DEF Typed, HasMessage, HasKey, Reported, Delivered,
                                          AllCovered, Awaited
<1>8. Counted
  <2>1. \A t \in Tasks : calls[t] <= 1 + MaxRetries
        BY <1>4, BoundsAssumption
  <2>. QED  BY <1>5, <1>6, <2>1 DEF Counted, WorkerCounts, At, Serves
<1>. QED  BY <1>1, <1>4, <1>5, <1>6, <1>7, <1>8
          DEF ServedOnce, OneHolder, SoleHolder, OneMessage, NotQueuedYet

(* Whatever is reported, claimed, expired or crashed, and in whatever      *)
(* order, the stream, its group and the keys stay what the code takes them *)
(* for: acknowledged messages were delivered, a worker serves a message    *)
(* that is there, its retry count is within the limit.                     *)
THEOREM QueueTypeCorrect == Spec => []TypeOK
<1>1. Init => Typed
      BY AtFirst
<1>2. Typed => TypeOK
      BY DEF Typed
<1>. QED  BY <1>1, <1>2, TypedStep, PTL DEF Spec

(* No completed result stays in Redis for ever but one for each report     *)
(* that was broken off between its HSET and its EXPIRE, for any number of  *)
(* crashes, duplicates and expiries: nothing else writes "completed", and  *)
(* a key that expired and came back under a report is given its TTL by it. *)
THEOREM QueueCompletedResultsExpire == Spec => []CompletedResultsExpire
<1>1. Init => Typed /\ FewLeft
      BY AtFirst
<1>2. FewLeft => CompletedResultsExpire
      BY DEF FewLeft, Left, CompletedResultsExpire
<1>. QED  BY <1>1, <1>2, TypedStep, FewLeftStep, PTL DEF Spec

(* Where no report is refused, nothing loses a task but a claim from a     *)
(* live worker and a crash together: not a crash between any two commands, *)
(* a report whose call or answer is lost, a key that expires and comes     *)
(* back, nor a batch taken while the stream is cut.  Any number of crashes *)
(* is harmless, since what is served stays pending with one holder; and    *)
(* any number of claims is, since every holder settles or requeues.        *)
THEOREM QueueNothingStranded ==
    ASSUME "refused" \notin ReportOutcomes
    PROVE  Spec => []NothingStranded
<1>. DEFINE Safe == Typed /\ Delivered /\ (claims = 0 => SoleHolder) /\ (Mild => AllCovered)
<1>1. Init => Safe
      BY AtFirst DEF ServedOnce, OneHolder
<1>2. Safe /\ [Next]_vars => Safe'
      BY TypedStep, DeliveredStep, SoleAlways, CoveredStep
<1>3. Safe => NothingStranded
      BY CoveredMeans
<1>. QED  BY <1>1, <1>2, <1>3, PTL DEF Spec

(* A task costs one gateway call and MaxRetries more, for any number of    *)
(* tasks, workers and lost reports, while no message was claimed from a    *)
(* live worker and nobody crashed: the retries of a task then form one     *)
(* chain, and each link carries the number of calls made before it.        *)
THEOREM QueueCallsWithinRetries == Spec => []CallsWithinRetries
<1>1. Init => Typed /\ Delivered /\ (Once => ServedOnce)
      BY AtFirst
<1>2. (Once => ServedOnce) => CallsWithinRetries
      BY DEF Once, ServedOnce, Counted, CallsWithinRetries
<1>. QED  BY <1>1, <1>2, TypedStep, DeliveredStep, OnceStep, PTL DEF Spec

(* A task delivered once is called for at most 1 + MaxRetries times, and   *)
(* once nobody is to serve it any more nothing happens to it but the       *)
(* expiry of its key: a retry that was queued, a late report of another    *)
(* worker or a key that came back do not change what a client has read.    *)
THEOREM QueueKeepsContract == Spec => KeepsContract
<1>. DEFINE Inv == Typed /\ Delivered /\ (Once => ServedOnce /\ NoResultYet)
<1>1. Init => Inv /\ Contract!ContractInit
  <2>. SUFFICES ASSUME Init PROVE Inv /\ Contract!ContractInit
       OBVIOUS
  <2>1. \A t \in Tasks : request[t] = "new" /\ ~HasResult(t) /\ Phase(t) = "new"
        BY DEF Init, HasResult, Exists, Phase
  <2>2. Inv
        BY <2>1, AtFirst DEF NoResultYet
  <2>3. Contract!ContractInit
        BY <2>1 DEF Init, Contract!ContractInit
  <2>. QED  BY <2>2, <2>3
<1>2. Inv /\ [Next]_vars => Inv'
      BY TypedStep, DeliveredStep, OnceStep, ContractStep DEF Once
<1>3. Inv /\ [Next]_vars => [claims' = 0 /\ crashes' = 0
                               => [Contract!ContractNext]_(Contract!contractVars)]_vars
      BY ContractStep DEF Once
<1>. QED  BY <1>1, <1>2, <1>3, PTL DEF Spec, KeepsContract
=============================================================================
