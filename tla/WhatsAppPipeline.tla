-------------------------- MODULE WhatsAppPipeline --------------------------
(***************************************************************************)
(* An incoming WhatsApp message, from Meta's webhook to the reply:         *)
(* social-engine/webhooks.py (handle_whatsapp_webhook), redis_dedup.py     *)
(* (duplicates and the sender's cooldown) and wbom_retry.py (messages that *)
(* WBOM did not take, tried again by a background sweep).                  *)
(*                                                                         *)
(* The webhook replies Meta at once and handles the payload in a task of   *)
(* the service's event loop: a task runs undisturbed from one await (an    *)
(* HTTP call) to the next, and everything else happens in between.  Redis  *)
(* and the database survive the process, the tasks do not.                 *)
(***************************************************************************)
EXTENDS Naturals, Sequences, FiniteSets

CONSTANTS
    Deliveries,   \* webhook calls; Meta may deliver a message more than once
    Batch,        \* the messages of each call, in order
    Kind, From,   \* what each message is, and its sender
    SweepSize,    \* items of one sweep: 20
    MaxRetries,   \* _MAX_RETRIES
    MaxFaults     \* lost Redis keys, failed writes and crashes (a bound)

Messages == UNION {{Batch[d][i] : i \in DOMAIN Batch[d]} : d \in Deliveries}
Senders == {From[m] : m \in Messages}

(* text, media: of a customer; send: the owner's approval; chat: anything  *)
(* else the owner writes, his commands aside.                              *)
Kinds == {"text", "media", "send", "chat"}

ASSUME MessagesAssumption ==
    /\ Deliveries # {} /\ IsFiniteSet(Deliveries)
    /\ \A d \in Deliveries : Batch[d] \in Seq(Messages)
    /\ \A m \in Messages : Kind[m] \in Kinds
ASSUME BoundsAssumption ==
    {SweepSize, MaxRetries} \subseteq Nat \ {0} /\ MaxFaults \in Nat

VARIABLES
    task,      \* where the handling of each webhook call stands
    seen,      \* messages whose duplicate key is in Redis
    locked,    \* senders in cooldown
    drafts,    \* the drafts among the outgoing drafts, oldest first
    retry,     \* wbom_retry_queue, its head the next to be popped
    sweep,     \* the retry loop
    stored,    \* messages WBOM has stored
    replies,   \* replies sent to each message without the owner (history)
    dead,      \* messages pushed to the dead letter queue, which none reads
    dropped,   \* messages the program gave up before WBOM had them (history)
    unanswered,\* messages the program leaves without a reply (history)
    forgets,   \* steps in which Redis fails, and expired duplicate keys
    dbFailures,\* INSERTs and UPDATEs that failed
    crashes    \* deaths of the process

bounds == <<forgets, dbFailures, crashes>>
intake == <<retry, sweep, stored, dropped>>
vars == <<task, seen, locked, drafts, replies, dead, unanswered, intake, bounds>>

Calls == {"forward", "brain", "send", "notify", "fallback", "release",
          "download", "ask", "look", "chat"}
Places == {"new", "next", "done", "record", "mark"} \union Calls
Tasks == [pc: Places, at: Nat, row: Nat, ok: BOOLEAN]
Asleep == [pc |-> "sleep"]

Current(d) == Batch[d][task[d].at]
At(d, pc) == task[d].pc = pc
Left(d) == {Batch[d][i] : i \in {j \in DOMAIN Batch[d] : j >= task[d].at}}

Goto(d, pc) == task' = [task EXCEPT ![d].pc = pc]
AtMessage(pc, i) == [pc |-> pc, at |-> i, row |-> 0, ok |-> FALSE]
Advance(d) == task' = [task EXCEPT ![d] = AtMessage("next", @.at + 1)]
Quit(d) == task' = [task EXCEPT ![d] = AtMessage("done", 1)]
Abort(d) == /\ Quit(d)
            /\ unanswered' = unanswered \union Left(d)

MayFail == forgets + dbFailures + crashes < MaxFaults
DbFails == MayFail /\ dbFailures' = dbFailures + 1
RedisFails == MayFail /\ forgets' = forgets + 1

Init ==
    /\ task = [d \in Deliveries |-> AtMessage("new", 1)]
    /\ seen = {} /\ locked = {} /\ drafts = <<>>
    /\ retry = <<>> /\ sweep = Asleep
    /\ stored = {}
    /\ replies = [m \in Messages |-> 0]
    /\ dead = {} /\ dropped = {} /\ unanswered = {}
    /\ forgets = 0 /\ dbFailures = 0 /\ crashes = 0

-----------------------------------------------------------------------------
(* Receiving: duplicates, the incoming row, and what comes next            *)

Receive(d) ==
    /\ At(d, "new")
    /\ Goto(d, "next")
    /\ UNCHANGED <<seen, locked, drafts, replies, dead, unanswered, intake, bounds>>

(* SET NX with a TTL; without Redis, or after the TTL, every message is new. *)
IsNew(m) ==
    \/ m \notin seen /\ UNCHANGED forgets
    \/ /\ m \in seen /\ MayFail
       /\ forgets' = forgets + 1

HasNext(d) == At(d, "next") /\ task[d].at <= Len(Batch[d])

SkipDuplicate(d) ==
    /\ HasNext(d)
    /\ Current(d) \in seen
    /\ Advance(d)
    /\ UNCHANGED <<seen, locked, drafts, replies, dead, unanswered, intake, bounds>>

(* The drafts that await approval; the owner's "send" means the latest.    *)
Pending == {r \in DOMAIN drafts : drafts[r].status = "draft"}
Latest == CHOOSE r \in Pending : \A q \in Pending : q <= r

(* Where the message goes first, with no await on the way.                 *)
Route(d) ==
    CASE Kind[Current(d)] = "text"  -> Goto(d, "forward")
      [] Kind[Current(d)] = "media" -> Goto(d, "download")
      [] Kind[Current(d)] = "chat"  -> Goto(d, "chat")
      [] Kind[Current(d)] = "send" /\ Pending # {} ->
            task' = [task EXCEPT ![d].pc = "release", ![d].row = Latest]
      [] OTHER -> Advance(d)

(* Mistake: the key is written only when a duplicate is found.             *)
StoreIncomingUnmarked(d) ==
    /\ HasNext(d)
    /\ IsNew(Current(d))
    /\ Route(d)
    /\ UNCHANGED <<seen, locked, drafts, replies, dead, unanswered, intake,
                   dbFailures, crashes>>

StoreIncoming(d) ==
    /\ HasNext(d)
    /\ IsNew(Current(d))
    /\ seen' = seen \union {Current(d)}
    /\ Route(d)
    /\ UNCHANGED <<locked, drafts, replies, dead, unanswered, intake, dbFailures, crashes>>

(* The INSERT fails outside any try: the whole payload is given up, with   *)
(* this message already marked as seen.                                    *)
StoreFails(d) ==
    /\ HasNext(d)
    /\ Current(d) \notin seen
    /\ seen' = seen \union {Current(d)}
    /\ DbFails
    /\ Abort(d)
    /\ dropped' = dropped \union {Current(d)}
    /\ UNCHANGED <<locked, drafts, replies, dead, retry, sweep, stored, forgets, crashes>>

Finish(d) ==
    /\ At(d, "next") /\ ~ HasNext(d)
    /\ Quit(d)
    /\ UNCHANGED <<seen, locked, drafts, replies, dead, unanswered, intake, bounds>>

-----------------------------------------------------------------------------
(* A reply in hand                                                         *)

(* reached: its customer has it (history).                                 *)
NewDraft(m) == [msg |-> m, status |-> "draft", reached |-> FALSE]

(* Mistake: the exception is only logged.                                  *)
RaiseQuietly(d) ==
    IF Kind[Current(d)] = "text" THEN Advance(d) /\ UNCHANGED unanswered
                                 ELSE Abort(d)

(* An exception: a customer's text is in a try block, the rest is not.     *)
Raise(d) ==
    IF Kind[Current(d)] = "text" THEN Goto(d, "fallback") /\ UNCHANGED unanswered
                                 ELSE Abort(d)

(* Safe replies, and every reply to the owner, are sent; others are stored *)
(* as a draft that the owner is told of.  Reading the credentials, or      *)
(* storing the draft, may fail.                                            *)
RouteReply(d) ==
    \/ /\ Goto(d, "send")
       /\ UNCHANGED <<drafts, unanswered, dbFailures>>
    \/ /\ Kind[Current(d)] \in {"text", "media"}
       /\ drafts' = Append(drafts, NewDraft(Current(d)))
       /\ Goto(d, "notify")
       /\ UNCHANGED <<unanswered, dbFailures>>
    \/ Raise(d) /\ DbFails /\ UNCHANGED drafts

(* send_message catches everything: whether the reply arrived is only      *)
(* what the stored row says.                                               *)
Reply(m) == replies' = [replies EXCEPT ![m] = @ + 1]

Send(d) ==
    /\ At(d, "send")
    /\ Reply(Current(d))
    /\ Goto(d, "record")
    /\ UNCHANGED <<seen, locked, drafts, dead, unanswered, intake, bounds>>

(* The row of the reply.  A failure here is an exception like any other,   *)
(* although the customer has been answered.                                *)
Record(d) ==
    /\ At(d, "record")
    /\ \/ Advance(d) /\ UNCHANGED <<unanswered, dbFailures>>
       \/ Raise(d) /\ DbFails
    /\ UNCHANGED <<seen, locked, drafts, replies, dead, intake, forgets, crashes>>

(* For a text the credentials are read again.                              *)
Notify(d) ==
    /\ At(d, "notify")
    /\ \/ Advance(d) /\ UNCHANGED <<unanswered, dbFailures>>
       \/ Kind[Current(d)] = "text" /\ Raise(d) /\ DbFails
    /\ UNCHANGED <<seen, locked, drafts, replies, dead, intake, forgets, crashes>>

(* "Always reply": a fixed text, unless the credentials cannot be read     *)
(* (which is only logged), and a dead letter, unless Redis fails.          *)
Fallback(d) ==
    /\ At(d, "fallback")
    /\ \/ Reply(Current(d)) /\ UNCHANGED dbFailures
       \/ DbFails /\ UNCHANGED replies
    /\ \/ dead' = dead \union {Current(d)} /\ UNCHANGED forgets
       \/ RedisFails /\ UNCHANGED dead
    /\ Advance(d)
    /\ UNCHANGED <<seen, locked, drafts, unanswered, intake, crashes>>

-----------------------------------------------------------------------------
(* A customer's text: forwarded to WBOM, then answered                     *)

Item(m) == [msg |-> m, count |-> 0]

(* stored: done; late: done, but the caller timed out; refused: an error   *)
(* or no connection; rejected: a 4xx status, which counts as delivered.    *)
PostOutcomes == {"stored", "late", "refused", "rejected"}
Answered(o) == o \in {"stored", "rejected"}
Post(m, o) == stored' = IF o \in {"stored", "late"} THEN stored \union {m} ELSE stored

(* What was not answered goes to the retry queue.                          *)
EnqueueFailed(m, o) == retry' = IF Answered(o) THEN retry ELSE Append(retry, Item(m))

(* A cached reply is used at once; a sender in cooldown is ignored; else   *)
(* the sender is locked while the brain is asked.                          *)
Prepare(d) ==
    LET m == Current(d) IN
    \/ RouteReply(d) /\ UNCHANGED locked
    \/ /\ From[m] \in locked
       /\ Advance(d)
       /\ unanswered' = unanswered \union {m}
       /\ UNCHANGED <<locked, drafts, dbFailures>>
    \/ /\ From[m] \notin locked
       /\ locked' = locked \union {From[m]}
       /\ Goto(d, "brain")
       /\ UNCHANGED <<drafts, unanswered, dbFailures>>

(* Without Redis nobody seems to be in cooldown, and nobody is locked.     *)
PrepareUnlocked(d) ==
    /\ locked' \in {locked, locked \union {From[Current(d)]}}
    /\ Goto(d, "brain")
    /\ UNCHANGED <<drafts, unanswered, dbFailures>>

(* Where Redis fails the message may miss the retry queue, which is only   *)
(* logged, and the lock may not be seen or not be set.                     *)
Forward(d) ==
    LET m == Current(d) IN
    /\ At(d, "forward")
    /\ \E o \in PostOutcomes :
        /\ Post(m, o)
        /\ dropped' = IF o = "rejected" THEN dropped \union {m} ELSE dropped
        /\ \/ EnqueueFailed(m, o) /\ Prepare(d) /\ UNCHANGED forgets
           \/ /\ RedisFails
              /\ EnqueueFailed(m, o) \/ UNCHANGED retry
              /\ Prepare(d) \/ PrepareUnlocked(d)
    /\ UNCHANGED <<seen, replies, dead, sweep, crashes>>

(* Mistake: only a real reply unlocks the sender.                          *)
UnlockAnswered(d) ==
    \/ dead' = dead /\ locked' = locked \ {From[Current(d)]} /\ UNCHANGED forgets
    \/ dead' = dead \union {Current(d)} /\ UNCHANGED <<locked, forgets>>
    \/ RedisFails /\ UNCHANGED <<locked, dead>>

(* The lock is deleted whoever holds it by now, or is left where Redis     *)
(* fails.  An empty answer leaves a dead letter.                           *)
Unlock(d) ==
    \/ /\ dead' \in {dead, dead \union {Current(d)}}
       /\ locked' = locked \ {From[Current(d)]}
       /\ UNCHANGED forgets
    \/ /\ RedisFails
       /\ dead' \in {dead, dead \union {Current(d)}}
       /\ UNCHANGED locked

(* An empty answer is replaced by a fixed text.                            *)
AskBrain(d) ==
    /\ At(d, "brain")
    /\ Unlock(d)
    /\ RouteReply(d)
    /\ UNCHANGED <<seen, replies, intake, crashes>>

(* The lock lives 2 seconds, the brain's answer may take 55.               *)
LockExpires(s) ==
    /\ s \in locked
    /\ locked' = locked \ {s}
    /\ UNCHANGED <<task, seen, drafts, replies, dead, unanswered, intake, bounds>>

-----------------------------------------------------------------------------
(* Media, and the owner                                                    *)

(* Without the file (or the credentials) there is no reply; a file that    *)
(* cannot be read well is asked for again.                                 *)
Download(d) ==
    /\ At(d, "download")
    /\ \/ Advance(d) /\ unanswered' = unanswered \union {Current(d)} /\ UNCHANGED dbFailures
       \/ \E pc \in {"ask", "look"} : Goto(d, pc) /\ UNCHANGED <<unanswered, dbFailures>>
       \/ Raise(d) /\ DbFails
    /\ UNCHANGED <<seen, locked, drafts, replies, dead, intake, forgets, crashes>>

AskAgain(d) ==
    /\ At(d, "ask")
    /\ Reply(Current(d))
    /\ Advance(d)
    /\ UNCHANGED <<seen, locked, drafts, dead, unanswered, intake, bounds>>

(* POST /chat/multimodal: an empty answer is replaced.                     *)
AskAboutMedia(d) ==
    /\ At(d, "look")
    /\ RouteReply(d)
    /\ UNCHANGED <<seen, locked, replies, dead, intake, forgets, crashes>>

(* POST /chat/owner: an empty answer is replaced.                          *)
AskOwnerChat(d) ==
    /\ At(d, "chat")
    /\ RouteReply(d)
    /\ UNCHANGED <<seen, locked, replies, dead, intake, forgets, crashes>>

(* The outcomes of sending: Meta's answer may be lost on its way back.     *)
SendOutcomes == {[reached |-> TRUE, ok |-> TRUE], [reached |-> TRUE, ok |-> FALSE],
                 [reached |-> FALSE, ok |-> FALSE]}

(* The owner's "send": the draft that was picked goes to its customer,     *)
(* unless the credentials cannot be read...                                *)
Release(d) ==
    /\ At(d, "release")
    /\ \/ /\ \E o \in SendOutcomes :
             /\ drafts' = [drafts EXCEPT ![task[d].row].reached = @ \/ o.reached]
             /\ task' = [task EXCEPT ![d].pc = "mark", ![d].ok = o.ok]
          /\ UNCHANGED dbFailures
       \/ DbFails /\ Advance(d) /\ UNCHANGED drafts
    /\ UNCHANGED <<seen, locked, replies, dead, unanswered, intake, forgets, crashes>>

(* Mistake: the draft to mark is looked up again.                          *)
MarkLatest(d) ==
    /\ At(d, "mark")
    /\ \/ /\ drafts' = IF Pending = {} THEN drafts
                     ELSE [drafts EXCEPT ![Latest].status =
                             IF task[d].ok THEN "sent" ELSE "failed"]
          /\ UNCHANGED dbFailures
       \/ DbFails /\ UNCHANGED drafts
    /\ Advance(d)
    /\ UNCHANGED <<seen, locked, replies, dead, unanswered, intake, forgets, crashes>>

(* ... and is marked by its id; a failure to mark is only logged.          *)
Mark(d) ==
    /\ At(d, "mark")
    /\ \/ /\ drafts' = [drafts EXCEPT ![task[d].row].status =
                         IF task[d].ok THEN "sent" ELSE "failed"]
          /\ UNCHANGED dbFailures
       \/ DbFails /\ UNCHANGED drafts
    /\ Advance(d)
    /\ UNCHANGED <<seen, locked, replies, dead, unanswered, intake, forgets, crashes>>

-----------------------------------------------------------------------------
(* The retry loop                                                          *)

(* RPOP, unless the sweep has done its share or the queue is empty.        *)
Pop(queue, left) ==
    IF left = 0 \/ queue = <<>>
    THEN sweep' = Asleep /\ retry' = queue
    ELSE /\ sweep' = [pc |-> "send", item |-> Head(queue), left |-> left - 1]
         /\ retry' = Tail(queue)

(* An RPOP whose answer is lost takes an item all the same.                *)
StartSweep ==
    /\ sweep = Asleep /\ retry # <<>>
    /\ \/ /\ Pop(retry, IF Len(retry) < SweepSize THEN Len(retry) ELSE SweepSize)
          /\ UNCHANGED forgets
       \/ RedisFails /\ retry' = Tail(retry) /\ UNCHANGED sweep
    /\ UNCHANGED <<task, seen, locked, drafts, replies, dead, unanswered, stored, dropped,
                   dbFailures, crashes>>

(* Mistake: one retry too many.                                            *)
MayRetryOnceMore(item) == item.count <= MaxRetries

MayRetry(item) == item.count < MaxRetries

(* Mistake: the last item of a sweep is not put back.                      *)
PutBackUnlessLast(again, item) ==
    IF again /\ sweep.left > 0 THEN Append(retry, item) ELSE retry

PutBack(again, item) == IF again THEN Append(retry, item) ELSE retry

(* Redis fails at the LPUSH, which may have been applied, or at the next   *)
(* RPOP, which may have been as well: the sweep ends there.                *)
BreakOff(again, queue) ==
    /\ RedisFails
    /\ sweep' = Asleep
    /\ \/ again /\ retry' \in {retry, queue}
       \/ sweep.left > 0 /\ retry' \in {queue} \union {Tail(q) : q \in {queue} \ {<<>>}}

RetryItem ==
    /\ sweep # Asleep
    /\ \E o \in PostOutcomes :
       LET item == [sweep.item EXCEPT !.count = @ + 1]
           again == ~ Answered(o) /\ MayRetry(item) IN
       /\ Post(item.msg, o)
       /\ dropped' = IF o = "stored" \/ again THEN dropped
                                               ELSE dropped \union {item.msg}
       /\ \/ Pop(PutBack(again, item), sweep.left) /\ UNCHANGED forgets
          \/ BreakOff(again, PutBack(again, item))
    /\ UNCHANGED <<task, seen, locked, drafts, replies, dead, unanswered, dbFailures, crashes>>

-----------------------------------------------------------------------------
(* The process dies: its tasks go, and with them the item being retried.   *)
Crash ==
    /\ MayFail
    /\ crashes' = crashes + 1
    /\ LET running == {d \in Deliveries : task[d].pc \notin {"new", "done"}} IN
       /\ task' = [d \in Deliveries |-> IF d \in running THEN AtMessage("done", 1) ELSE task[d]]
       /\ unanswered' = unanswered \union UNION {Left(d) : d \in running}
       /\ dropped' = dropped \union {Current(d) : d \in {e \in running : At(e, "forward")}}
                             \union {sweep.item.msg : x \in {sweep} \ {Asleep}}
    /\ sweep' = Asleep
    /\ UNCHANGED <<seen, locked, drafts, replies, dead, retry, stored, forgets, dbFailures>>

Continue(d) ==
    \/ SkipDuplicate(d) \/ StoreIncoming(d) \/ StoreFails(d) \/ Finish(d)
    \/ Send(d) \/ Record(d) \/ Notify(d) \/ Fallback(d)
    \/ Forward(d) \/ AskBrain(d) \/ Download(d) \/ AskAgain(d)
    \/ AskAboutMedia(d) \/ AskOwnerChat(d) \/ Release(d) \/ Mark(d)

Next ==
    \/ \E d \in Deliveries : Receive(d) \/ Continue(d)
    \/ \E s \in Senders : LockExpires(s)
    \/ StartSweep \/ RetryItem
    \/ Crash

Spec == Init /\ [][Next]_vars

-----------------------------------------------------------------------------
(* Properties                                                              *)

(* The type invariant of the webhook tasks, the queues and the drafts.     *)
TypeOK ==
    /\ task \in [Deliveries -> Tasks]
    /\ {seen, dead, dropped, unanswered, stored} \subseteq SUBSET Messages
    /\ locked \subseteq Senders
    /\ drafts \in Seq([msg: Messages, status: {"draft", "sent", "failed"},
                       reached: BOOLEAN])
    /\ retry \in Seq([msg: Messages, count: 0..MaxRetries - 1])
    /\ sweep = Asleep \/ sweep \in [pc: {"send"}, item: [msg: Messages, count: 0..MaxRetries - 1],
                                    left: 0..SweepSize]
    /\ replies \in [Messages -> Nat]

(* However often Meta delivers a message, its customer gets one reply or   *)
(* the owner one draft, except when the duplicate key was lost or a row    *)
(* could not be written after the reply had been sent.                     *)
AnsweredOnce ==
    \A m \in Messages :
        replies[m] + Cardinality({r \in DOMAIN drafts : drafts[r].msg = m})
            <= 1 + forgets + dbFailures

Handling(d) == task[d].pc \notin {"new", "next", "done"}
InHand(m) == \E d \in Deliveries : Handling(d) /\ Current(d) = m

(* Messages that were seen and left nothing: no task is at them, no reply  *)
(* was sent, no draft or dead letter is there, and they are none of those  *)
(* the program ignores (cooldown, no file, a payload given up, a crash).   *)
Forgotten ==
    {m \in seen : /\ Kind[m] # "send" /\ ~ InHand(m)
                  /\ replies[m] = 0 /\ m \notin dead \union unanswered
                  /\ \A r \in DOMAIN drafts : drafts[r].msg # m}

(* "Always reply" takes three failures to break: each forgotten message    *)
(* cost a failed statement, a second one in the fallback, and Redis at the *)
(* dead letter; no other order of outages and duplicates forgets one.      *)
ForgettingTakesThree ==
    /\ 2 * Cardinality(Forgotten) <= dbFailures
    /\ Cardinality(Forgotten) <= forgets

(* Locked senders none of whose messages is being answered.                *)
LockedOut == {s \in locked : \A d \in Deliveries : At(d, "brain") => From[Current(d)] # s}

(* A sender in cooldown is ignored only because one of his messages is     *)
(* being answered: a path that leaves him locked out (for 2 s) failed to   *)
(* reach Redis, once per sender, or the process died.                      *)
LockedMeansAnswering == crashes = 0 => Cardinality(LockedOut) <= forgets

(* A row that says "sent" was received: approvals that overlap, or a draft *)
(* that arrives during one, never mark a reply that no customer has seen.  *)
SentWasReceived == \A r \in DOMAIN drafts : drafts[r].status = "sent" => drafts[r].reached

(* Texts that are neither on their way to WBOM, stored, queued or being    *)
(* retried, nor dropped (a 4xx answer, five failures, a failed INSERT, a   *)
(* crash).                                                                 *)
Strayed ==
    {m \in seen : /\ Kind[m] = "text"
                  /\ ~ \E d \in Deliveries : At(d, "forward") /\ Current(d) = m
                  /\ m \notin stored \union dropped
                  /\ ~ (sweep # Asleep /\ sweep.item.msg = m)
                  /\ \A i \in DOMAIN retry : retry[i].msg # m}

(* Between the webhook and WBOM a text strays only where Redis fails under *)
(* a push or a pop, one text each time: overlapping calls, sweeps and lost *)
(* answers lose none.                                                      *)
IntakeAccounted == Cardinality(Strayed) <= forgets
=============================================================================
