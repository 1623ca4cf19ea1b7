----------------------- MODULE WhatsAppPipelineProofs -----------------------
(***************************************************************************)
(* What is proved of WhatsAppPipeline, for any webhook calls, messages,    *)
(* senders, retries and faults.                                            *)
(*                                                                         *)
(* Each takes an invariant of its own.  SentWasReceived: a call's own      *)
(* draft was received if Meta said so (Picked).  AnsweredOnce: the replies *)
(* still due are counted too, and paid for when they become due (Paid).    *)
(* LockedMeansAnswering, IntakeAccounted and ForgettingTakesThree count    *)
(* senders and messages against failures: a step adds one to the set only  *)
(* with a failure of Redis (OnePerFault).  For the last, a message is in   *)
(* hand until it is settled, and settled before the row of its reply is    *)
(* written (Remembered); a call in the fallback has paid one failed        *)
(* statement, and one whose message is forgotten there pays the second     *)
(* (Charged).                                                              *)
(***************************************************************************)
EXTENDS WhatsAppPipeline, SequenceTheorems, FiniteSetTheorems, WellFoundedInduction, TLAPS

(* The handling of a call is at a message of its batch.                    *)
Placed ==
    \A d \in Deliveries :
        /\ task[d].at \in Nat \ {0}
        /\ Handling(d) => task[d].at \in DOMAIN Batch[d]
        /\ task[d].pc \in {"release", "mark"} => Kind[Current(d)] = "send"

Counted == forgets \in Nat /\ dbFailures \in Nat /\ crashes \in Nat

Typed == TypeOK /\ Placed /\ Counted

-----------------------------------------------------------------------------
(* Counting against failures                                               *)

LEMMA OneMore ==
    ASSUME NEW A, IsFiniteSet(A), NEW B, NEW x, B \subseteq A \union {x}
    PROVE  /\ IsFiniteSet(B) /\ Cardinality(B) \in Nat /\ Cardinality(A) \in Nat
           /\ Cardinality(B) <= Cardinality(A) + 1
<1>1. /\ IsFiniteSet(A \union {x}) /\ Cardinality(A) \in Nat
      /\ Cardinality(A \union {x}) =
            IF x \in A THEN Cardinality(A) ELSE Cardinality(A) + 1
      BY FS_AddElement, FS_CardinalityType
<1>2. /\ IsFiniteSet(B) /\ Cardinality(B) \in Nat /\ Cardinality(A \union {x}) \in Nat
      /\ Cardinality(B) <= Cardinality(A \union {x})
      BY <1>1, FS_Subset, FS_CardinalityType
<1>. QED  BY <1>1, <1>2

(* A set that only grows by one at a time, with a failure each time.       *)
LEMMA OnePerFault ==
    ASSUME NEW A, NEW B, NEW n \in Nat, NEW k \in {n, n + 1},
           IsFiniteSet(A), Cardinality(A) <= n,
           B \subseteq A \/ (k = n + 1 /\ \E x : B \subseteq A \union {x})
    PROVE  IsFiniteSet(B) /\ Cardinality(B) <= k
<1>1. CASE B \subseteq A
  <2>1. /\ IsFiniteSet(B) /\ Cardinality(B) \in Nat /\ Cardinality(A) \in Nat
        /\ Cardinality(B) <= Cardinality(A)
        BY <1>1, FS_Subset, FS_CardinalityType
  <2>. QED  BY <2>1
<1>2. ASSUME k = n + 1, NEW x, B \subseteq A \union {x}
      PROVE  IsFiniteSet(B) /\ Cardinality(B) <= k
  <2>1. /\ IsFiniteSet(B) /\ Cardinality(B) \in Nat /\ Cardinality(A) \in Nat
        /\ Cardinality(B) <= Cardinality(A) + 1
        BY <1>2, OneMore
  <2>. QED  BY <1>2, <2>1
<1>. QED  BY <1>1, <1>2

-----------------------------------------------------------------------------
(* Places                                                                  *)

LEMMA BatchType ==
    ASSUME NEW d \in Deliveries
    PROVE  Batch[d] \in Seq(Messages) /\ Len(Batch[d]) \in Nat
           /\ DOMAIN Batch[d] = 1..Len(Batch[d])
BY MessagesAssumption, LenProperties

LEMMA CurrentIs ==
    ASSUME NEW d \in Deliveries, task[d].at \in DOMAIN Batch[d]
    PROVE  /\ Current(d) \in Messages /\ Current(d) \in Left(d)
           /\ From[Current(d)] \in Senders /\ Kind[Current(d)] \in Kinds
<1>1. Current(d) \in Messages
      BY BatchType, ElementOfSeq DEF Current
<1>2. Current(d) \in Left(d)
  <2>1. task[d].at \in {j \in DOMAIN Batch[d] : j >= task[d].at}
        BY BatchType
  <2>. QED  BY <2>1 DEF Left, Current
<1>. QED  BY <1>1, <1>2, MessagesAssumption DEF Senders

LEMMA LeftType == ASSUME NEW d \in Deliveries PROVE Left(d) \subseteq Messages
BY BatchType, ElementOfSeq DEF Left

LEMMA NextIsCurrent ==
    ASSUME Typed, NEW d \in Deliveries, HasNext(d)
    PROVE  task[d].at \in DOMAIN Batch[d]
BY BatchType DEF Typed, Placed, HasNext

(* Where a step of a call leaves it: at the same message, or past it.      *)
Moved(d, pc) ==
    /\ task' \in [Deliveries -> Tasks]
    /\ \A e \in Deliveries \ {d} : task'[e] = task[e]
    /\ task'[d].pc = pc /\ task'[d].at = task[d].at

Passed(d) ==
    /\ task' \in [Deliveries -> Tasks]
    /\ \A e \in Deliveries \ {d} : task'[e] = task[e]
    /\ task'[d].pc \in {"next", "done"} /\ task'[d].at \in Nat \ {0}

LEMMA GotoMoves ==
    ASSUME Typed, NEW d \in Deliveries, NEW pc \in Places, Goto(d, pc)
    PROVE  Moved(d, pc) /\ task'[d].row = task[d].row /\ task'[d].ok = task[d].ok
BY DEF Typed, TypeOK, Goto, Moved, Tasks

LEMMA AdvancePasses ==
    ASSUME Typed, NEW d \in Deliveries, Advance(d)
    PROVE  Passed(d)
<1>1. task[d].at \in Nat /\ task \in [Deliveries -> Tasks]
      BY DEF Typed, TypeOK, Placed
<1>2. AtMessage("next", task[d].at + 1) \in Tasks
      BY <1>1 DEF AtMessage, Tasks, Places
<1>3. task' = [task EXCEPT ![d] = AtMessage("next", task[d].at + 1)]
      BY <1>1 DEF Advance
<1>. QED  BY <1>1, <1>2, <1>3 DEF Passed, AtMessage

LEMMA AbortPasses ==
    ASSUME Typed, NEW d \in Deliveries, Quit(d)
    PROVE  Passed(d) /\ task'[d].pc = "done"
<1>1. AtMessage("done", 1) \in Tasks
      BY DEF AtMessage, Tasks, Places
<1>. QED  BY <1>1 DEF Quit, Passed, AtMessage, Typed, TypeOK

LEMMA RaiseMoves ==
    ASSUME Typed, NEW d \in Deliveries, Raise(d)
    PROVE  \/ Moved(d, "fallback") /\ unanswered' = unanswered
           \/ Passed(d) /\ unanswered' = unanswered \union Left(d)
BY GotoMoves, AbortPasses DEF Raise, Abort, Places, Calls

(* A reply is sent, drafted, or lost to an exception.                      *)
LEMMA RouteReplyMoves ==
    ASSUME Typed, NEW d \in Deliveries, RouteReply(d)
    PROVE  \/ Moved(d, "send") /\ UNCHANGED <<drafts, unanswered, dbFailures>>
           \/ /\ Moved(d, "notify") /\ drafts' = Append(drafts, NewDraft(Current(d)))
              /\ UNCHANGED <<unanswered, dbFailures>>
           \/ /\ DbFails /\ UNCHANGED drafts
              /\ \/ Moved(d, "fallback") /\ unanswered' = unanswered
                 \/ Passed(d) /\ unanswered' = unanswered \union Left(d)
BY GotoMoves, RaiseMoves DEF RouteReply, Places, Calls

(* The draft the owner approves is one of the drafts.                      *)
LEMMA LatestIs ==
    ASSUME DOMAIN drafts \subseteq Nat \ {0}, NEW n \in Nat, \A r \in DOMAIN drafts : r <= n,
           Pending # {}
    PROVE  Latest \in Pending
<1>. DEFINE above == {k \in Nat : \A q \in Pending : q <= k}
<1>1. n \in above
      BY DEF Pending
<1>2. \E j \in above : \A k \in above : ~(<<k, j>> \in OpToRel(<, Nat))
      BY <1>1, NatLessThanWellFounded, WFMin
<1>3. PICK j \in above : \A k \in above : ~(<<k, j>> \in OpToRel(<, Nat))
      BY <1>2
<1>4. j \in Pending
  <2>. SUFFICES ASSUME j \notin Pending PROVE FALSE
       OBVIOUS
  <2>1. j \in Nat /\ j # 0 /\ j - 1 \in Nat /\ j - 1 < j
    <3>1. PICK q \in Pending : TRUE
          OBVIOUS
    <3>2. q \in Nat \ {0} /\ q <= j /\ j \in Nat
          BY <3>1 DEF Pending
    <3>. QED  BY <3>2
  <2>2. \A q \in Pending : q <= j - 1
    <3>. SUFFICES ASSUME NEW q \in Pending PROVE q <= j - 1
         OBVIOUS
    <3>1. q \in Nat /\ q <= j /\ q # j
          BY DEF Pending
    <3>. QED  BY <2>1, <3>1
  <2>3. j - 1 \in above
        BY <2>1, <2>2
  <2>4. <<j - 1, j>> \in OpToRel(<, Nat)
        BY <2>1 DEF OpToRel
  <2>. QED  BY <1>3, <2>3, <2>4
<1>. QED  BY <1>4 DEF Latest

DraftRows == [msg : Messages, status : {"draft", "sent", "failed"}, reached : BOOLEAN]
Items == [msg : Messages, count : 0..MaxRetries - 1]

LEMMA DraftsAre ==
    ASSUME TypeOK
    PROVE  /\ drafts \in Seq(DraftRows) /\ Len(drafts) \in Nat
           /\ DOMAIN drafts = 1..Len(drafts)
           /\ \A r \in DOMAIN drafts : drafts[r] \in DraftRows
<1>1. drafts \in Seq(DraftRows)
      BY DEF TypeOK, DraftRows
<1>. QED  BY <1>1, LenProperties, ElementOfSeq

(* Where a new message goes.                                               *)
LEMMA RouteMoves ==
    ASSUME Typed, NEW d \in Deliveries, task[d].at \in DOMAIN Batch[d], Route(d)
    PROVE  \/ Moved(d, "forward") /\ Kind[Current(d)] = "text"
           \/ Moved(d, "download") \/ Moved(d, "chat")
           \/ /\ Moved(d, "release") /\ Kind[Current(d)] = "send"
              /\ task'[d].row \in DOMAIN drafts
           \/ Passed(d) /\ Kind[Current(d)] = "send"
<1>1. Kind[Current(d)] \in Kinds
      BY CurrentIs
<1>2. CASE Kind[Current(d)] = "text"
      BY <1>2, GotoMoves DEF Route, Places, Calls
<1>3. CASE Kind[Current(d)] = "media"
      BY <1>3, GotoMoves DEF Route, Places, Calls
<1>4. CASE Kind[Current(d)] = "chat"
      BY <1>4, GotoMoves DEF Route, Places, Calls
<1>5. CASE Kind[Current(d)] = "send" /\ Pending # {}
  <2>1. Latest \in DOMAIN drafts /\ Latest \in Nat
    <3>1. DOMAIN drafts \subseteq Nat \ {0} /\ \A r \in DOMAIN drafts : r <= Len(drafts)
          BY DraftsAre DEF Typed
    <3>2. Latest \in Pending
          BY <1>5, <3>1, LatestIs, DraftsAre DEF Typed
    <3>. QED  BY <3>1, <3>2 DEF Pending
  <2>2. task' = [task EXCEPT ![d].pc = "release", ![d].row = Latest]
        BY <1>5 DEF Route
  <2>. QED  BY <1>5, <2>1, <2>2 DEF Moved, Typed, TypeOK, Tasks, Places, Calls
<1>6. CASE Kind[Current(d)] = "send" /\ Pending = {}
  <2>1. Advance(d)
        BY <1>6 DEF Route
  <2>. QED  BY <1>6, <2>1, AdvancePasses
<1>. QED  BY <1>1, <1>2, <1>3, <1>4, <1>5, <1>6 DEF Kinds

-----------------------------------------------------------------------------
(* Types                                                                   *)

SetsOK ==
    /\ seen \subseteq Messages /\ dead \subseteq Messages /\ dropped \subseteq Messages
    /\ unanswered \subseteq Messages /\ stored \subseteq Messages
    /\ locked \subseteq Senders
QueuesOK ==
    /\ retry \in Seq(Items)
    /\ sweep = Asleep \/ sweep \in [pc : {"send"}, item : Items, left : 0..SweepSize]

LEMMA TypeParts ==
    TypeOK <=> /\ task \in [Deliveries -> Tasks] /\ SetsOK /\ QueuesOK
               /\ drafts \in Seq(DraftRows) /\ replies \in [Messages -> Nat]
BY DEF TypeOK, SetsOK, QueuesOK, DraftRows, Items

LEMMA TypesNext ==
    ASSUME task' \in [Deliveries -> Tasks], SetsOK', QueuesOK',
           drafts' \in Seq(DraftRows), replies' \in [Messages -> Nat]
    PROVE  TypeOK'
BY DEF TypeOK, SetsOK, QueuesOK, DraftRows, Items

LEMMA MovedPlaced ==
    ASSUME Typed, NEW d \in Deliveries, NEW pc, Moved(d, pc),
           pc \notin {"new", "next", "done"} => task[d].at \in DOMAIN Batch[d],
           pc \in {"release", "mark"} => Kind[Current(d)] = "send"
    PROVE  Placed'
<1>. SUFFICES ASSUME NEW e \in Deliveries
     PROVE  /\ task'[e].at \in Nat \ {0}
            /\ Handling(e)' => task'[e].at \in DOMAIN Batch[e]
            /\ task'[e].pc \in {"release", "mark"} => Kind[Current(e)'] = "send"
     BY DEF Placed
<1>. QED  BY DEF Typed, Placed, Moved, Handling, Current

LEMMA PassedPlaced ==
    ASSUME Typed, NEW d \in Deliveries, Passed(d)
    PROVE  Placed'
<1>. SUFFICES ASSUME NEW e \in Deliveries
     PROVE  /\ task'[e].at \in Nat \ {0}
            /\ Handling(e)' => task'[e].at \in DOMAIN Batch[e]
            /\ task'[e].pc \in {"release", "mark"} => Kind[Current(e)'] = "send"
     BY DEF Placed
<1>. QED  BY DEF Typed, Placed, Passed, Handling, Current

(* Whoever handles a message has one.                                      *)
LEMMA Handled ==
    ASSUME Typed, NEW d \in Deliveries, Handling(d)
    PROVE  task[d].at \in DOMAIN Batch[d]
BY DEF Typed, Placed

(* One draft is added, and one is changed.                                 *)
LEMMA DraftAdded ==
    ASSUME Typed, NEW m \in Messages, drafts' = Append(drafts, NewDraft(m))
    PROVE  /\ drafts' \in Seq(DraftRows)
           /\ DOMAIN drafts' = 1..Len(drafts) + 1
           /\ \A r \in DOMAIN drafts : drafts'[r] = drafts[r]
           /\ drafts'[Len(drafts) + 1] = NewDraft(m)
<1>1. NewDraft(m) \in DraftRows
      BY DEF NewDraft, DraftRows
<1>2. Len(Append(drafts, NewDraft(m))) = Len(drafts) + 1
      BY <1>1, AppendProperties, DraftsAre DEF Typed
<1>. QED  BY <1>1, <1>2, AppendProperties, LenProperties, DraftsAre DEF Typed

LEMMA DraftChanged ==
    ASSUME Typed, NEW r \in DOMAIN drafts, NEW w \in DraftRows,
           drafts' = [drafts EXCEPT ![r] = w]
    PROVE  /\ drafts' \in Seq(DraftRows)
           /\ DOMAIN drafts' = DOMAIN drafts
           /\ \A q \in DOMAIN drafts : drafts'[q] = IF q = r THEN w ELSE drafts[q]
<1>1. r \in 1..Len(drafts)
      BY DraftsAre DEF Typed
<1>. QED  BY <1>1, ExceptSeq, DraftsAre DEF Typed

LEMMA RowsType ==
    ASSUME Typed, NEW d \in Deliveries,
           \/ drafts' = drafts
           \/ \E o \in SendOutcomes :
                drafts' = [drafts EXCEPT ![task[d].row].reached = @ \/ o.reached]
           \/ drafts' = [drafts EXCEPT ![task[d].row].status =
                          IF task[d].ok THEN "sent" ELSE "failed"]
    PROVE  drafts' \in Seq(DraftRows)
<1>. DEFINE r == task[d].row
<1>1. CASE r \notin DOMAIN drafts
  <2>1. drafts \in [1..Len(drafts) -> DraftRows]
        BY DraftsAre, LenProperties DEF Typed
  <2>2. \A w : [drafts EXCEPT ![r] = w] = drafts
        BY <1>1, <2>1
  <2>3. drafts' = drafts
    <3>1. CASE drafts' = drafts
          BY <3>1
    <3>2. ASSUME NEW o \in SendOutcomes,
                 drafts' = [drafts EXCEPT ![r].reached = @ \/ o.reached]
          PROVE  drafts' = drafts
      <4>1. drafts' = [drafts EXCEPT ![r] =
                         [drafts[r] EXCEPT !.reached = drafts[r].reached \/ o.reached]]
            BY <3>2, Zenon
      <4>. QED  BY <2>2, <4>1, Zenon
    <3>3. ASSUME drafts' = [drafts EXCEPT ![r].status =
                              IF task[d].ok THEN "sent" ELSE "failed"]
          PROVE  drafts' = drafts
      <4>1. drafts' = [drafts EXCEPT ![r] =
                         [drafts[r] EXCEPT !.status = IF task[d].ok THEN "sent" ELSE "failed"]]
            BY <3>3, Zenon
      <4>. QED  BY <2>2, <4>1, Zenon
    <3>. QED  BY <3>1, <3>2, <3>3
  <2>. QED  BY <2>3, DraftsAre DEF Typed
<1>2. CASE r \in DOMAIN drafts
  <2>1. drafts[r] \in DraftRows
        BY <1>2, DraftsAre DEF Typed
  <2>2. ASSUME NEW o \in SendOutcomes,
               drafts' = [drafts EXCEPT ![r].reached = @ \/ o.reached]
        PROVE  drafts' \in Seq(DraftRows)
    <3>. DEFINE w == [drafts[r] EXCEPT !.reached = drafts[r].reached \/ o.reached]
    <3>1. w \in DraftRows
          BY <2>1 DEF DraftRows
    <3>2. drafts' = [drafts EXCEPT ![r] = w]
          BY <2>2
    <3>. QED  BY <1>2, <3>1, <3>2, DraftChanged
  <2>3. ASSUME drafts' = [drafts EXCEPT ![r].status = IF task[d].ok THEN "sent" ELSE "failed"]
        PROVE  drafts' \in Seq(DraftRows)
    <3>. DEFINE w == [drafts[r] EXCEPT !.status = IF task[d].ok THEN "sent" ELSE "failed"]
    <3>1. w \in DraftRows
          BY <2>1 DEF DraftRows
    <3>2. drafts' = [drafts EXCEPT ![r] = w]
          BY <2>3
    <3>. QED  BY <1>2, <3>1, <3>2, DraftChanged
  <2>4. CASE drafts' = drafts
        BY <2>4, DraftsAre DEF Typed
  <2>. QED  BY <2>2, <2>3, <2>4
<1>. QED  BY <1>1, <1>2

(* The retry queue.                                                        *)
LEMMA PopType ==
    ASSUME NEW queue \in Seq(Items), NEW left \in 0..SweepSize, Pop(queue, left)
    PROVE  QueuesOK'
<1>1. CASE left = 0 \/ queue = <<>>
      BY <1>1 DEF Pop, QueuesOK
<1>2. CASE left # 0 /\ queue # <<>>
  <2>1. Head(queue) \in Items /\ Tail(queue) \in Seq(Items)
        BY <1>2, HeadTailProperties
  <2>2. left - 1 \in 0..SweepSize
        BY <1>2, BoundsAssumption
  <2>. QED  BY <1>2, <2>1, <2>2 DEF Pop, QueuesOK
<1>. QED  BY <1>1, <1>2

LEMMA AskedAgain ==
    ASSUME QueuesOK, sweep # Asleep,
           sweep.item.count + 1 < MaxRetries
    PROVE  [sweep.item EXCEPT !.count = @ + 1] \in Items
<1>1. sweep.item \in Items /\ MaxRetries \in Nat
      BY BoundsAssumption DEF QueuesOK
<1>2. sweep.item.count + 1 \in 0..MaxRetries - 1
      BY <1>1 DEF Items
<1>. QED  BY <1>1, <1>2 DEF Items

(* An item that is tried goes to WBOM, is dropped, or is put back.         *)
LEMMA TriedIs ==
    ASSUME Typed, RetryItem
    PROVE  /\ sweep # Asleep /\ sweep.item \in Items /\ sweep.left \in 0..SweepSize
           /\ \E o \in PostOutcomes, again \in BOOLEAN, queue \in Seq(Items) :
                /\ Post(sweep.item.msg, o)
                /\ dropped' = IF o = "stored" \/ again THEN dropped
                                                        ELSE dropped \union {sweep.item.msg}
                /\ again => \E x \in Items :
                              x.msg = sweep.item.msg /\ queue = Append(retry, x)
                /\ ~again => queue = retry
                /\ \/ Pop(queue, sweep.left) /\ UNCHANGED forgets
                   \/ BreakOff(again, queue)
<1>. DEFINE item == [sweep.item EXCEPT !.count = @ + 1]
<1>1. sweep # Asleep /\ QueuesOK
      BY TypeParts DEF Typed, RetryItem
<1>2. sweep.item \in Items /\ sweep.left \in 0..SweepSize /\ item.msg = sweep.item.msg
      BY <1>1 DEF QueuesOK, Items
<1>3. PICK o \in PostOutcomes :
        LET again == ~ Answered(o) /\ MayRetry(item) IN
        /\ Post(item.msg, o)
        /\ dropped' = IF o = "stored" \/ again THEN dropped ELSE dropped \union {item.msg}
        /\ \/ Pop(PutBack(again, item), sweep.left) /\ UNCHANGED forgets
           \/ BreakOff(again, PutBack(again, item))
      BY DEF RetryItem
<1>. DEFINE again == ~ Answered(o) /\ MayRetry(item)
            queue == PutBack(again, item)
<1>4. again \in BOOLEAN
      BY DEF Answered, MayRetry
<1>5. again => item \in Items
  <2>1. MayRetry(item) => sweep.item.count + 1 < MaxRetries
        BY <1>2 DEF MayRetry, Items
  <2>. QED  BY <1>1, <2>1, AskedAgain
<1>6. /\ queue \in Seq(Items)
      /\ again => queue = Append(retry, item)
      /\ ~again => queue = retry
      BY <1>1, <1>5, AppendProperties DEF QueuesOK, PutBack
<1>7. \/ Pop(queue, sweep.left) /\ UNCHANGED forgets
      \/ BreakOff(again, queue)
      BY <1>3
<1>8. /\ Post(sweep.item.msg, o)
      /\ dropped' = IF o = "stored" \/ again THEN dropped ELSE dropped \union {sweep.item.msg}
      BY <1>2, <1>3
<1>. HIDE DEF again, queue, item
<1>. QED  BY <1>1, <1>2, <1>4, <1>5, <1>6, <1>7, <1>8

(* A sweep that breaks off leaves the queue as it was, as it should have   *)
(* become, or without its head.                                            *)
LEMMA BrokenOff ==
    ASSUME retry \in Seq(Items), NEW queue \in Seq(Items), NEW again, BreakOff(again, queue)
    PROVE  /\ sweep' = Asleep /\ forgets' = forgets + 1 /\ retry' \in Seq(Items)
           /\ \/ again /\ retry' = retry
              \/ retry' = queue
              \/ queue # <<>> /\ retry' = Tail(queue)
<1>1. \/ again /\ retry' = retry
      \/ retry' = queue
      \/ queue # <<>> /\ retry' = Tail(queue)
      BY DEF BreakOff
<1>2. queue # <<>> => Tail(queue) \in Seq(Items)
      BY HeadTailProperties
<1>. QED  BY <1>1, <1>2 DEF BreakOff, RedisFails

LEMMA RetriesType ==
    ASSUME Typed, StartSweep \/ RetryItem
    PROVE  TypeOK'
<1>0. SetsOK /\ QueuesOK
      BY TypeParts DEF Typed
<1>1. CASE StartSweep
  <2>1. (IF Len(retry) < SweepSize THEN Len(retry) ELSE SweepSize) \in 0..SweepSize
        BY <1>0, LenProperties, BoundsAssumption DEF QueuesOK
  <2>2. QueuesOK'
    <3>1. CASE Pop(retry, IF Len(retry) < SweepSize THEN Len(retry) ELSE SweepSize)
          BY <1>0, <2>1, <3>1, PopType DEF QueuesOK
    <3>2. CASE retry' = Tail(retry) /\ UNCHANGED sweep
      <4>1. Tail(retry) \in Seq(Items)
            BY <1>0, <1>1, HeadTailProperties DEF QueuesOK, StartSweep
      <4>. QED  BY <1>0, <3>2, <4>1 DEF QueuesOK
    <3>. QED  BY <1>1, <3>1, <3>2 DEF StartSweep
  <2>. QED  BY <1>1, <2>2, TypeParts, TypesNext DEF StartSweep, Typed, SetsOK
<1>2. CASE RetryItem
  <2>1. PICK o \in PostOutcomes, again \in BOOLEAN, queue \in Seq(Items) :
          /\ Post(sweep.item.msg, o)
          /\ dropped' = IF o = "stored" \/ again THEN dropped
                                                  ELSE dropped \union {sweep.item.msg}
          /\ \/ Pop(queue, sweep.left) /\ UNCHANGED forgets
             \/ BreakOff(again, queue)
        BY <1>2, TriedIs
  <2>2. sweep.item.msg \in Messages /\ sweep.left \in 0..SweepSize
        BY <1>2, TriedIs DEF Items
  <2>3. QueuesOK'
    <3>1. CASE Pop(queue, sweep.left)
          BY <2>2, <3>1, PopType
    <3>2. CASE BreakOff(again, queue)
          BY <1>0, <3>2, BrokenOff DEF QueuesOK
    <3>. QED  BY <2>1, <3>1, <3>2
  <2>4. SetsOK'
        BY <1>0, <1>2, <2>1, <2>2 DEF SetsOK, RetryItem, Post
  <2>. QED  BY <1>2, <2>3, <2>4, TypeParts, TypesNext DEF RetryItem, Typed
<1>. QED  BY <1>1, <1>2

(* The places a step leaves.                                               *)
LEMMA CallTypes ==
    ASSUME Typed, NEW d \in Deliveries, Receive(d) \/ Continue(d)
    PROVE  TypeOK' /\ Placed'
<1>. DEFINE m == Current(d)
            TypesKept == SetsOK' /\ QueuesOK' /\ drafts' \in Seq(DraftRows)
                         /\ replies' \in [Messages -> Nat]
<1>0. /\ SetsOK /\ QueuesOK /\ drafts \in Seq(DraftRows) /\ replies \in [Messages -> Nat]
      /\ Left(d) \subseteq Messages
      /\ Handling(d) \/ HasNext(d) =>
            /\ task[d].at \in DOMAIN Batch[d] /\ m \in Messages
            /\ From[m] \in Senders /\ Kind[m] \in Kinds /\ m \in Left(d)
      BY TypeParts, LeftType, NextIsCurrent, Handled, CurrentIs DEF Typed
<1>1. ASSUME TypesKept,
             \/ \E pc : /\ Moved(d, pc)
                        /\ pc \notin {"new", "next", "done"} => task[d].at \in DOMAIN Batch[d]
                        /\ pc \in {"release", "mark"} => Kind[m] = "send"
             \/ Passed(d)
      PROVE  TypeOK' /\ Placed'
      BY <1>1, MovedPlaced, PassedPlaced, TypesNext DEF Typed, Moved, Passed
<1>2. CASE Receive(d)
  <2>1. Moved(d, "next")
        BY <1>2, GotoMoves DEF Receive, Places
  <2>2. TypesKept
        BY <1>0, <1>2 DEF Receive, SetsOK, QueuesOK, intake
  <2>. QED  BY <1>1, <2>1, <2>2
<1>3. CASE SkipDuplicate(d)
  <2>1. TypesKept
        BY <1>0, <1>3 DEF SkipDuplicate, SetsOK, QueuesOK, intake
  <2>. QED  BY <1>1, <1>3, <2>1, AdvancePasses DEF SkipDuplicate
<1>4. CASE StoreIncoming(d)
  <2>1. HasNext(d) /\ Route(d)
        BY <1>4 DEF StoreIncoming
  <2>2. TypesKept
        BY <1>0, <1>4, <2>1 DEF StoreIncoming, SetsOK, QueuesOK, intake
  <2>3. CASE Passed(d)
        BY <1>1, <2>2, <2>3
  <2>4. ASSUME NEW pc \in {"forward", "download", "chat", "release"}, Moved(d, pc),
               pc = "release" => Kind[m] = "send"
        PROVE  TypeOK' /\ Placed'
        BY <1>0, <1>1, <2>1, <2>2, <2>4
  <2>. QED  BY <1>0, <2>1, <2>3, <2>4, RouteMoves
<1>5. CASE StoreFails(d)
  <2>1. TypesKept
        BY <1>0, <1>5 DEF StoreFails, Abort, SetsOK, QueuesOK
  <2>. QED  BY <1>1, <1>5, <2>1, AbortPasses DEF StoreFails, Abort
<1>6. CASE Finish(d)
  <2>1. TypesKept
        BY <1>0, <1>6 DEF Finish, SetsOK, QueuesOK, intake
  <2>. QED  BY <1>1, <1>6, <2>1, AbortPasses DEF Finish
<1>7. CASE Send(d)
  <2>1. Handling(d) /\ Moved(d, "record")
        BY <1>7, GotoMoves DEF Send, At, Handling, Places
  <2>2. TypesKept
        BY <1>0, <1>7, <2>1 DEF Send, Reply, SetsOK, QueuesOK, intake
  <2>. QED  BY <1>0, <1>1, <2>1, <2>2
<1>8. CASE Record(d) \/ Notify(d)
  <2>1. Handling(d)
        BY <1>8 DEF Record, Notify, At, Handling
  <2>2. \/ Advance(d) /\ unanswered' = unanswered
        \/ Raise(d)
        BY <1>8 DEF Record, Notify
  <2>3. \/ Passed(d) /\ unanswered' \in {unanswered, unanswered \union Left(d)}
        \/ Moved(d, "fallback") /\ unanswered' = unanswered
        BY <2>2, AdvancePasses, RaiseMoves
  <2>4. TypesKept
        BY <1>0, <1>8, <2>3 DEF Record, Notify, SetsOK, QueuesOK, intake
  <2>5. CASE Passed(d)
        BY <1>1, <2>4, <2>5
  <2>6. CASE Moved(d, "fallback")
        BY <1>0, <1>1, <2>1, <2>4, <2>6
  <2>. QED  BY <2>3, <2>5, <2>6
<1>9. CASE Fallback(d)
  <2>1. Handling(d)
        BY <1>9 DEF Fallback, At, Handling
  <2>2. TypesKept
        BY <1>0, <1>9, <2>1 DEF Fallback, Reply, SetsOK, QueuesOK, intake
  <2>. QED  BY <1>1, <1>9, <2>2, AdvancePasses DEF Fallback
<1>10. ASSUME Handling(d), RouteReply(d)
       PROVE  /\ unanswered' \subseteq Messages /\ drafts' \in Seq(DraftRows)
              /\ \/ \E pc : /\ Moved(d, pc) /\ task[d].at \in DOMAIN Batch[d]
                            /\ pc \notin {"release", "mark"}
                 \/ Passed(d)
  <2>1. unanswered \subseteq Messages /\ Left(d) \subseteq Messages
        BY <1>0 DEF SetsOK
  <2>2. drafts' = Append(drafts, NewDraft(m)) => drafts' \in Seq(DraftRows)
        BY <1>0, <1>10, DraftAdded
  <2>. QED  BY <1>0, <1>10, <2>1, <2>2, RouteReplyMoves
<1>11. CASE Forward(d)
  <2>1. Handling(d)
        BY <1>11 DEF Forward, At, Handling
  <2>2. Item(m) \in Items
        BY <1>0, <2>1, BoundsAssumption DEF Item, Items
  <2>3. QueuesOK'
    <3>1. (retry' = retry \/ retry' = Append(retry, Item(m))) /\ sweep' = sweep
          BY <1>11 DEF EnqueueFailed, Forward
    <3>2. Append(retry, Item(m)) \in Seq(Items)
          BY <1>0, <2>2, AppendProperties DEF QueuesOK
    <3>. QED  BY <1>0, <3>1, <3>2 DEF QueuesOK
  <2>4. stored' \subseteq Messages /\ dropped' \subseteq Messages
        BY <1>0, <1>11, <2>1 DEF Forward, SetsOK, Post
  <2>5. CASE RouteReply(d) /\ UNCHANGED locked
    <3>1. TypesKept
          BY <1>0, <1>10, <1>11, <2>1, <2>3, <2>4, <2>5 DEF Forward, SetsOK
    <3>. QED  BY <1>1, <1>10, <2>1, <2>5, <3>1
  <2>6. CASE Advance(d) /\ unanswered' = unanswered \union {m} /\ UNCHANGED <<locked, drafts>>
    <3>1. TypesKept
          BY <1>0, <1>11, <2>1, <2>3, <2>4, <2>6 DEF Forward, SetsOK
    <3>. QED  BY <1>1, <2>6, <3>1, AdvancePasses
  <2>7. CASE /\ locked' \in {locked, locked \union {From[m]}} /\ Goto(d, "brain")
             /\ UNCHANGED <<drafts, unanswered>>
    <3>1. TypesKept
          BY <1>0, <1>11, <2>1, <2>3, <2>4, <2>7 DEF Forward, SetsOK
    <3>. QED  BY <1>0, <1>1, <2>1, <2>7, <3>1, GotoMoves DEF Places, Calls
  <2>. QED  BY <1>11, <2>5, <2>6, <2>7 DEF Forward, Prepare, PrepareUnlocked
<1>12. CASE AskBrain(d) \/ AskAboutMedia(d) \/ AskOwnerChat(d)
  <2>1. Handling(d) /\ RouteReply(d)
        BY <1>12 DEF AskBrain, AskAboutMedia, AskOwnerChat, At, Handling
  <2>2. TypesKept
        BY <1>0, <1>10, <1>12, <2>1
           DEF AskBrain, Unlock, AskAboutMedia, AskOwnerChat, SetsOK, QueuesOK, intake
  <2>. QED  BY <1>1, <1>10, <2>1, <2>2
<1>13. CASE Download(d)
  <2>1. Handling(d)
        BY <1>13 DEF Download, At, Handling
  <2>2. \/ Passed(d) /\ unanswered' \in {unanswered \union {m}, unanswered \union Left(d)}
        \/ \E pc \in {"ask", "look", "fallback"} : Moved(d, pc) /\ unanswered' = unanswered
        BY <1>13, AdvancePasses, GotoMoves, RaiseMoves DEF Download, Places, Calls
  <2>3. TypesKept
        BY <1>0, <1>13, <2>1, <2>2 DEF Download, SetsOK, QueuesOK, intake
  <2>. QED  BY <1>0, <1>1, <2>1, <2>2, <2>3
<1>14. CASE AskAgain(d)
  <2>1. Handling(d)
        BY <1>14 DEF AskAgain, At, Handling
  <2>2. TypesKept
        BY <1>0, <1>14, <2>1 DEF AskAgain, Reply, SetsOK, QueuesOK, intake
  <2>. QED  BY <1>1, <1>14, <2>2, AdvancePasses DEF AskAgain
<1>15. CASE Release(d) \/ Mark(d)
  <2>1. Handling(d) /\ Kind[m] = "send"
        BY <1>15 DEF Release, Mark, At, Handling, Typed, Placed
  <2>2. \/ Passed(d)
        \/ Moved(d, "mark")
    <3>1. ASSUME NEW o \in SendOutcomes,
                 task' = [task EXCEPT ![d].pc = "mark", ![d].ok = o.ok]
          PROVE  Moved(d, "mark")
      <4>1. o.ok \in BOOLEAN
        <5>1. SendOutcomes \subseteq [reached : BOOLEAN, ok : BOOLEAN]
              BY DEF SendOutcomes
        <5>. QED  BY <5>1
      <4>. QED  BY <3>1, <4>1 DEF Typed, TypeOK, Moved, Tasks, Places
    <3>. QED  BY <1>15, <3>1, AdvancePasses DEF Release, Mark
  <2>3. drafts' \in Seq(DraftRows)
        BY <1>0, <1>15, RowsType DEF Release, Mark
  <2>4. TypesKept
        BY <1>0, <1>15, <2>3 DEF Release, Mark, SetsOK, QueuesOK, intake
  <2>. QED  BY <1>0, <1>1, <2>1, <2>2, <2>4
<1>. QED  BY <1>2, <1>3, <1>4, <1>5, <1>6, <1>7, <1>8, <1>9, <1>11, <1>12, <1>13, <1>14, <1>15
          DEF Continue

(* The clock and the end of the process                                    *)
LEMMA WorldTypes ==
    ASSUME Typed, (\E s \in Senders : LockExpires(s)) \/ Crash
    PROVE  TypeOK' /\ Placed'
<1>0. /\ SetsOK /\ QueuesOK /\ drafts \in Seq(DraftRows) /\ replies \in [Messages -> Nat]
      /\ task \in [Deliveries -> Tasks]
      BY TypeParts DEF Typed
<1>1. ASSUME NEW s \in Senders, LockExpires(s)
      PROVE  TypeOK' /\ Placed'
  <2>1. task' = task /\ drafts' = drafts /\ replies' = replies
        BY <1>1 DEF LockExpires
  <2>2. SetsOK' /\ QueuesOK'
        BY <1>0, <1>1 DEF LockExpires, SetsOK, QueuesOK, intake
  <2>3. Placed'
        BY <2>1 DEF Typed, Placed, Handling, Current
  <2>. QED  BY <1>0, <2>1, <2>2, <2>3, TypesNext DEF Typed
<1>2. CASE Crash
  <2>. DEFINE running == {d \in Deliveries : task[d].pc \notin {"new", "done"}}
  <2>1. AtMessage("done", 1) \in Tasks
        BY DEF AtMessage, Tasks, Places
  <2>2. task' = [d \in Deliveries |-> IF d \in running THEN AtMessage("done", 1) ELSE task[d]]
        BY <1>2 DEF Crash
  <2>3. task' \in [Deliveries -> Tasks]
        BY <1>0, <2>1, <2>2
  <2>4. Placed'
    <3>. SUFFICES ASSUME NEW d \in Deliveries
         PROVE  /\ task'[d].at \in Nat \ {0} /\ task'[d].pc \in {"new", "done"}
         BY DEF Placed, Handling
    <3>. QED  BY <2>2 DEF Typed, Placed, AtMessage
  <2>5. {Current(d) : d \in {e \in running : At(e, "forward")}} \subseteq Messages
    <3>. SUFFICES ASSUME NEW d \in Deliveries, At(d, "forward") PROVE Current(d) \in Messages
         OBVIOUS
    <3>. QED  BY Handled, CurrentIs DEF Handling, At
  <2>6. {sweep.item.msg : x \in {sweep} \ {Asleep}} \subseteq Messages
        BY <1>0 DEF QueuesOK, Items
  <2>7. UNION {Left(d) : d \in running} \subseteq Messages
        BY LeftType
  <2>8. SetsOK'
        BY <1>0, <1>2, <2>5, <2>6, <2>7 DEF Crash, SetsOK
  <2>9. QueuesOK'
        BY <1>0, <1>2 DEF Crash, QueuesOK
  <2>. QED  BY <1>0, <1>2, <2>3, <2>4, <2>8, <2>9, TypesNext DEF Crash, Typed
<1>. QED  BY <1>1, <1>2

(* Faults are counted one by one.                                          *)
LEMMA FaultsGrow ==
    ASSUME Typed, [Next]_vars
    PROVE  /\ forgets' \in {forgets, forgets + 1}
           /\ dbFailures' \in {dbFailures, dbFailures + 1}
           /\ crashes' \in {crashes, crashes + 1}
<1>1. forgets' \in {forgets, forgets + 1}
  <2>1. ASSUME NEW d \in Deliveries, Receive(d) \/ Continue(d)
        PROVE  forgets' \in {forgets, forgets + 1}
        BY <2>1 DEF Continue, Receive, SkipDuplicate, StoreIncoming, IsNew, StoreFails, Finish,
                    bounds, Send, Record, Notify, Fallback, Forward, AskBrain, Unlock, Download,
                    AskAgain, AskAboutMedia, AskOwnerChat, Release, Mark, RedisFails
  <2>2. CASE (\E x \in Senders : LockExpires(x)) \/ StartSweep \/ RetryItem \/ Crash
             \/ UNCHANGED vars
        BY <2>2 DEF LockExpires, StartSweep, RetryItem, BreakOff, RedisFails, Crash, vars, bounds
  <2>. QED  BY <2>1, <2>2 DEF Next
<1>2. dbFailures' \in {dbFailures, dbFailures + 1}
  <2>1. ASSUME NEW d \in Deliveries, Receive(d) \/ Continue(d)
        PROVE  dbFailures' \in {dbFailures, dbFailures + 1}
    <3>1. RouteReply(d) => dbFailures' \in {dbFailures, dbFailures + 1}
          BY DEF RouteReply, DbFails
    <3>2. CASE Forward(d) \/ AskBrain(d) \/ AskAboutMedia(d) \/ AskOwnerChat(d)
          BY <3>1, <3>2 DEF Forward, Prepare, PrepareUnlocked, AskBrain, AskAboutMedia,
                            AskOwnerChat
    <3>3. CASE ~(Forward(d) \/ AskBrain(d) \/ AskAboutMedia(d) \/ AskOwnerChat(d))
          BY <2>1, <3>3 DEF Continue, Receive, SkipDuplicate, StoreIncoming, StoreFails, Finish,
                            bounds, Send, Record, Notify, Fallback, Download, AskAgain, Release,
                            Mark, DbFails
    <3>. QED  BY <3>2, <3>3
  <2>2. CASE (\E x \in Senders : LockExpires(x)) \/ StartSweep \/ RetryItem \/ Crash
             \/ UNCHANGED vars
        BY <2>2 DEF LockExpires, StartSweep, RetryItem, Crash, vars, bounds
  <2>. QED  BY <2>1, <2>2 DEF Next
<1>3. crashes' \in {crashes, crashes + 1}
  <2>1. ASSUME NEW d \in Deliveries, Receive(d) \/ Continue(d)
        PROVE  crashes' = crashes
        BY <2>1 DEF Continue, Receive, SkipDuplicate, StoreIncoming, StoreFails, Finish, bounds,
                    Forward, AskBrain, Send, Record, Notify, Fallback, Download, AskAgain,
                    AskAboutMedia, AskOwnerChat, Release, Mark
  <2>2. CASE (\E x \in Senders : LockExpires(x)) \/ StartSweep \/ RetryItem \/ Crash
             \/ UNCHANGED vars
        BY <2>2 DEF LockExpires, StartSweep, RetryItem, Crash, vars, bounds
  <2>. QED  BY <2>1, <2>2 DEF Next
<1>. QED  BY <1>1, <1>2, <1>3

LEMMA CountedStep == Typed /\ [Next]_vars => Counted'
BY FaultsGrow DEF Typed, Counted

LEMMA TypedStep == Typed /\ [Next]_vars => Typed'
<1>. SUFFICES ASSUME Typed, [Next]_vars PROVE Typed'
     OBVIOUS
<1>1. CASE StartSweep \/ RetryItem
  <2>1. task' = task
        BY <1>1 DEF StartSweep, RetryItem
  <2>2. Placed'
        BY <2>1 DEF Typed, Placed, Handling, Current
  <2>. QED  BY <1>1, <2>2, RetriesType, CountedStep DEF Typed
<1>2. CASE UNCHANGED vars
  <2>1. Placed'
        BY <1>2 DEF vars, Typed, Placed, Handling, Current
  <2>. QED  BY <1>2, <2>1, CountedStep DEF vars, intake, Typed, TypeOK
<1>. QED  BY <1>1, <1>2, CallTypes, WorldTypes, CountedStep DEF Next, Typed

-----------------------------------------------------------------------------
(* Drafts                                                                  *)

(* The draft an approval works on is there, and was received if Meta said  *)
(* so, until it is marked.                                                 *)
Picked ==
    \A d \in Deliveries : task[d].pc \in {"release", "mark"} =>
        /\ task[d].row \in DOMAIN drafts
        /\ At(d, "mark") /\ task[d].ok => drafts[task[d].row].reached

DraftsInv == Picked /\ SentWasReceived

(* What a step of a call does to its place and to the drafts.              *)
LEMMA CallMoves ==
    ASSUME Typed, NEW d \in Deliveries, Receive(d) \/ Continue(d)
    PROVE  \/ Passed(d) /\ drafts' = drafts
           \/ \E pc \in Places \ {"release", "mark"} : Moved(d, pc) /\ drafts' = drafts
           \/ /\ Handling(d) /\ Moved(d, "notify")
              /\ drafts' = Append(drafts, NewDraft(Current(d)))
           \/ /\ Moved(d, "release") /\ task'[d].row \in DOMAIN drafts
              /\ drafts' = drafts
           \/ Release(d) \/ Mark(d)
<1>1. CASE Receive(d) \/ Send(d)
      BY <1>1, GotoMoves DEF Receive, Send, Places
<1>2. CASE SkipDuplicate(d) \/ StoreFails(d) \/ Finish(d) \/ Fallback(d) \/ AskAgain(d)
      BY <1>2, AdvancePasses, AbortPasses
         DEF SkipDuplicate, StoreFails, Abort, Finish, Fallback, AskAgain
<1>3. CASE StoreIncoming(d)
      BY <1>3, NextIsCurrent, RouteMoves DEF StoreIncoming, Places, Calls
<1>4. CASE Record(d) \/ Notify(d)
      BY <1>4, AdvancePasses, RaiseMoves DEF Record, Notify, Places, Calls
<1>5. CASE Download(d)
      BY <1>5, AdvancePasses, GotoMoves, RaiseMoves DEF Download, Places, Calls
<1>6. ASSUME RouteReply(d), Handling(d)
      PROVE  \/ Passed(d) /\ drafts' = drafts
             \/ \E pc \in Places \ {"release", "mark"} : Moved(d, pc) /\ drafts' = drafts
             \/ /\ Handling(d) /\ Moved(d, "notify")
                /\ drafts' = Append(drafts, NewDraft(Current(d)))
      BY <1>6, RouteReplyMoves DEF Places, Calls
<1>7. CASE Forward(d)
  <2>1. Handling(d)
        BY <1>7 DEF Forward, At, Handling
  <2>. QED  BY <1>6, <1>7, <2>1, AdvancePasses, GotoMoves
            DEF Forward, Prepare, PrepareUnlocked, Places, Calls
<1>8. CASE AskBrain(d) \/ AskAboutMedia(d) \/ AskOwnerChat(d)
      BY <1>6, <1>8 DEF AskBrain, AskAboutMedia, AskOwnerChat, At, Handling
<1>. QED  BY <1>1, <1>2, <1>3, <1>4, <1>5, <1>7, <1>8 DEF Continue

(* An approval sends the draft it picked, and marks it.                    *)
LEMMA OutcomeIs ==
    \A o \in SendOutcomes :
        o.ok \in BOOLEAN /\ o.reached \in BOOLEAN /\ (o.ok => o.reached)
<1>1. SendOutcomes \subseteq {o \in [reached : BOOLEAN, ok : BOOLEAN] : o.ok => o.reached}
      BY DEF SendOutcomes
<1>. QED  BY <1>1

LEMMA ReleaseMoves ==
    ASSUME Typed, NEW d \in Deliveries, Release(d)
    PROVE  \/ Passed(d) /\ drafts' = drafts
           \/ \E o \in SendOutcomes :
                /\ Moved(d, "mark") /\ task'[d].row = task[d].row /\ task'[d].ok = o.ok
                /\ drafts' = [drafts EXCEPT ![task[d].row].reached = @ \/ o.reached]
<1>1. ASSUME NEW o \in SendOutcomes,
             task' = [task EXCEPT ![d].pc = "mark", ![d].ok = o.ok]
      PROVE  Moved(d, "mark") /\ task'[d].row = task[d].row /\ task'[d].ok = o.ok
  <2>1. o.ok \in BOOLEAN
        BY OutcomeIs
  <2>. QED  BY <1>1, <2>1 DEF Typed, TypeOK, Moved, Tasks, Places
<1>. QED  BY <1>1, AdvancePasses DEF Release

LEMMA OthersStay ==
    ASSUME Typed, NEW d \in Deliveries, Receive(d) \/ Continue(d)
    PROVE  \A e \in Deliveries \ {d} : task'[e] = task[e]
<1>1. CASE Release(d) \/ Mark(d)
      BY <1>1, ReleaseMoves, AdvancePasses DEF Mark, Passed, Moved
<1>. QED  BY <1>1, CallMoves DEF Passed, Moved

(* Whatever happened before is still so of the drafts there were.          *)
LEMMA DraftsGrow ==
    ASSUME Typed, DraftsInv, NEW d \in Deliveries,
           \/ Passed(d)
           \/ \E pc \in Places \ {"release", "mark"} : Moved(d, pc)
           \/ Moved(d, "release") /\ task'[d].row \in DOMAIN drafts,
           \A r \in DOMAIN drafts : r \in DOMAIN drafts' /\ drafts'[r] = drafts[r],
           \A r \in DOMAIN drafts' \ DOMAIN drafts : drafts'[r].status # "sent"
    PROVE  DraftsInv'
<1>1. SentWasReceived'
      BY DEF DraftsInv, SentWasReceived
<1>2. ASSUME NEW e \in Deliveries, task'[e].pc \in {"release", "mark"}
      PROVE  /\ task'[e].row \in DOMAIN drafts'
             /\ task'[e].pc = "mark" /\ task'[e].ok => drafts'[task'[e].row].reached
  <2>1. CASE e # d
    <3>1. task'[e] = task[e]
          BY <2>1 DEF Passed, Moved
    <3>. QED  BY <1>2, <3>1 DEF DraftsInv, Picked, At
  <2>2. CASE e = d
        BY <1>2, <2>2 DEF Passed, Moved
  <2>. QED  BY <2>1, <2>2
<1>. QED  BY <1>1, <1>2 DEF DraftsInv, Picked, At

LEMMA DraftsStep == Typed /\ DraftsInv /\ [Next]_vars => DraftsInv'
<1>. SUFFICES ASSUME Typed, DraftsInv, [Next]_vars PROVE DraftsInv'
     OBVIOUS
<1>1. ASSUME drafts' = drafts,
             \A e \in Deliveries : task'[e] = task[e] \/ task'[e].pc = "done"
      PROVE  DraftsInv'
  <2>1. ASSUME NEW e \in Deliveries, task'[e].pc \in {"release", "mark"}
        PROVE  task'[e] = task[e]
        BY <1>1, <2>1
  <2>. QED  BY <1>1, <2>1 DEF DraftsInv, Picked, SentWasReceived, At
<1>2. ASSUME NEW d \in Deliveries, Receive(d) \/ Continue(d), ~Release(d), ~Mark(d)
      PROVE  DraftsInv'
  <2>1. CASE drafts' = drafts
        BY <1>2, <2>1, CallMoves, DraftsGrow
  <2>2. CASE /\ Handling(d) /\ Moved(d, "notify")
             /\ drafts' = Append(drafts, NewDraft(Current(d)))
    <3>1. Current(d) \in Messages
          BY <2>2, Handled, CurrentIs
    <3>2. /\ DOMAIN drafts' = 1..Len(drafts) + 1 /\ DOMAIN drafts = 1..Len(drafts)
          /\ Len(drafts) \in Nat
          /\ \A r \in DOMAIN drafts : drafts'[r] = drafts[r]
          /\ drafts'[Len(drafts) + 1] = NewDraft(Current(d))
          BY <2>2, <3>1, DraftAdded, DraftsAre DEF Typed
    <3>3. \A r \in DOMAIN drafts' \ DOMAIN drafts : drafts'[r].status # "sent"
          BY <3>2 DEF NewDraft
    <3>4. \A r \in DOMAIN drafts : r \in DOMAIN drafts'
          BY <3>2
    <3>. QED  BY <2>2, <3>2, <3>3, <3>4, DraftsGrow DEF Places, Calls
  <2>. QED  BY <1>2, <2>1, <2>2, CallMoves
<1>3. ASSUME NEW d \in Deliveries, Release(d)
      PROVE  DraftsInv'
  <2>. DEFINE r == task[d].row
  <2>1. CASE Passed(d) /\ drafts' = drafts
        BY <2>1, DraftsGrow
  <2>2. ASSUME NEW o \in SendOutcomes,
               Moved(d, "mark"), task'[d].row = r, task'[d].ok = o.ok,
               drafts' = [drafts EXCEPT ![r].reached = @ \/ o.reached]
        PROVE  DraftsInv'
    <3>1. r \in DOMAIN drafts /\ drafts[r] \in DraftRows
          BY <1>3, DraftsAre DEF Release, At, DraftsInv, Picked, Typed
    <3>2. o.ok => o.reached
          BY OutcomeIs
    <3>3. /\ DOMAIN drafts' = DOMAIN drafts
          /\ \A q \in DOMAIN drafts \ {r} : drafts'[q] = drafts[q]
          /\ drafts'[r].reached = (drafts[r].reached \/ o.reached)
          /\ drafts'[r].status = drafts[r].status
          BY <2>2, <3>1 DEF DraftRows
    <3>4. SentWasReceived'
          BY <3>3 DEF DraftsInv, SentWasReceived
    <3>5. ASSUME NEW e \in Deliveries, task'[e].pc \in {"release", "mark"}
          PROVE  /\ task'[e].row \in DOMAIN drafts'
                 /\ task'[e].pc = "mark" /\ task'[e].ok => drafts'[task'[e].row].reached
      <4>1. CASE e # d
        <5>1. task'[e] = task[e]
              BY <2>2, <4>1 DEF Moved
        <5>. QED  BY <3>3, <3>5, <5>1 DEF DraftsInv, Picked, At
      <4>2. CASE e = d
            BY <2>2, <3>1, <3>2, <3>3, <4>2
      <4>. QED  BY <4>1, <4>2
    <3>. QED  BY <3>4, <3>5 DEF DraftsInv, Picked, At
  <2>. QED  BY <1>3, <2>1, <2>2, ReleaseMoves
<1>4. ASSUME NEW d \in Deliveries, Mark(d)
      PROVE  DraftsInv'
  <2>. DEFINE r == task[d].row
  <2>1. Passed(d)
        BY <1>4, AdvancePasses DEF Mark
  <2>2. CASE drafts' = drafts
        BY <2>1, <2>2, DraftsGrow
  <2>3. CASE drafts' = [drafts EXCEPT ![r].status = IF task[d].ok THEN "sent" ELSE "failed"]
    <3>1. r \in DOMAIN drafts /\ drafts[r] \in DraftRows
          BY <1>4, DraftsAre DEF Mark, At, DraftsInv, Picked, Typed
    <3>2. /\ DOMAIN drafts' = DOMAIN drafts
          /\ \A q \in DOMAIN drafts \ {r} : drafts'[q] = drafts[q]
          /\ drafts'[r].reached = drafts[r].reached
          /\ drafts'[r].status = "sent" => task[d].ok
          BY <2>3, <3>1 DEF DraftRows
    <3>3. task[d].ok => drafts[r].reached
          BY <1>4 DEF Mark, DraftsInv, Picked, At
    <3>4. SentWasReceived'
          BY <3>2, <3>3 DEF DraftsInv, SentWasReceived
    <3>5. ASSUME NEW e \in Deliveries, task'[e].pc \in {"release", "mark"}
          PROVE  /\ task'[e].row \in DOMAIN drafts'
                 /\ task'[e].pc = "mark" /\ task'[e].ok => drafts'[task'[e].row].reached
      <4>1. task'[e] = task[e]
            BY <2>1, <3>5 DEF Passed
      <4>. QED  BY <3>2, <3>5, <4>1 DEF DraftsInv, Picked, At
    <3>. QED  BY <3>4, <3>5 DEF DraftsInv, Picked, At
  <2>. QED  BY <1>4, <2>2, <2>3 DEF Mark
<1>5. CASE (\E s \in Senders : LockExpires(s)) \/ StartSweep \/ RetryItem \/ UNCHANGED vars
      BY <1>1, <1>5 DEF LockExpires, StartSweep, RetryItem, vars
<1>6. CASE Crash
      BY <1>1, <1>6 DEF Crash, AtMessage
<1>. QED  BY <1>2, <1>3, <1>4, <1>5, <1>6 DEF Next

-----------------------------------------------------------------------------
(* Locks                                                                   *)

Answers(s) == \E d \in Deliveries : At(d, "brain") /\ From[Current(d)] = s

LockedFew == crashes = 0 => IsFiniteSet(LockedOut) /\ Cardinality(LockedOut) <= forgets

(* Whoever is locked while one of his messages is being answered stays so, *)
(* unless the call that answers is the one that moves.                     *)
LEMMA AnswersStay ==
    ASSUME Typed, NEW d \in Deliveries, Receive(d) \/ Continue(d), NEW s, Answers(s),
           At(d, "brain") => From[Current(d)] # s
    PROVE  Answers(s)'
<1>1. PICK e \in Deliveries : At(e, "brain") /\ From[Current(e)] = s
      BY DEF Answers
<1>2. e # d /\ task'[e] = task[e]
      BY <1>1, OthersStay
<1>. QED  BY <1>1, <1>2 DEF Answers, At, Current

LEMMA LockMoves ==
    ASSUME Typed, NEW d \in Deliveries, Receive(d) \/ Continue(d)
    PROVE  \/ LockedOut' \subseteq LockedOut
           \/ forgets' = forgets + 1 /\ LockedOut' \subseteq LockedOut \union {From[Current(d)]}
<1>0. /\ LockedOut = {s \in locked : ~Answers(s)}
      /\ LockedOut' = {s \in locked' : ~Answers(s)'}
      BY DEF LockedOut, Answers
<1>1. CASE Forward(d)
  <2>1. At(d, "forward")
        BY <1>1 DEF Forward
  <2>2. ASSUME NEW s \in LockedOut', s \notin locked
        PROVE  FALSE
    <3>1. Goto(d, "brain") /\ s = From[Current(d)]
          BY <1>0, <1>1, <2>2 DEF Forward, Prepare, PrepareUnlocked
    <3>2. Moved(d, "brain")
          BY <3>1, GotoMoves DEF Places, Calls
    <3>3. Answers(s)'
          BY <3>1, <3>2 DEF Answers, At, Current, Moved
    <3>. QED  BY <1>0, <3>3
  <2>3. ASSUME NEW s \in LockedOut', s \in locked
        PROVE  s \in LockedOut
        BY <1>0, <1>1, <2>1, <2>3, AnswersStay DEF Continue, At
  <2>. QED  BY <2>2, <2>3
<1>2. CASE AskBrain(d)
  <2>1. ASSUME NEW s \in LockedOut', s # From[Current(d)]
        PROVE  s \in LockedOut
        BY <1>0, <1>2, <2>1, AnswersStay DEF Continue, AskBrain, Unlock
  <2>2. From[Current(d)] \notin locked' \/ forgets' = forgets + 1
        BY <1>2 DEF AskBrain, Unlock, RedisFails
  <2>. QED  BY <1>0, <2>1, <2>2
<1>3. CASE ~Forward(d) /\ ~AskBrain(d)
  <2>1. ~At(d, "brain") /\ locked' = locked
        BY <1>3 DEF Continue, At, HasNext, Receive, SkipDuplicate, StoreIncoming, StoreFails,
                    Finish, Send, Record, Notify, Fallback, Download, AskAgain,
                    AskAboutMedia, AskOwnerChat, Release, Mark
  <2>. QED  BY <1>0, <2>1, AnswersStay
<1>. QED  BY <1>1, <1>2, <1>3

LEMMA LockStep == Typed /\ LockedFew /\ [Next]_vars => LockedFew'
<1>. SUFFICES ASSUME Typed, LockedFew, [Next]_vars, crashes' = 0
     PROVE  IsFiniteSet(LockedOut') /\ Cardinality(LockedOut') <= forgets'
     BY DEF LockedFew
<1>1. crashes = 0 /\ forgets \in Nat /\ forgets' \in {forgets, forgets + 1}
      BY FaultsGrow DEF Typed, Counted
<1>2. IsFiniteSet(LockedOut) /\ Cardinality(LockedOut) <= forgets
      BY <1>1 DEF LockedFew
<1>3. \/ LockedOut' \subseteq LockedOut
      \/ forgets' = forgets + 1 /\ \E x : LockedOut' \subseteq LockedOut \union {x}
  <2>1. ASSUME NEW d \in Deliveries, Receive(d) \/ Continue(d)
        PROVE  \/ LockedOut' \subseteq LockedOut
               \/ forgets' = forgets + 1 /\ \E x : LockedOut' \subseteq LockedOut \union {x}
        BY <2>1, LockMoves
  <2>2. CASE (\E x \in Senders : LockExpires(x)) \/ StartSweep \/ RetryItem \/ UNCHANGED vars
    <3>1. task' = task /\ locked' \subseteq locked
          BY <2>2 DEF LockExpires, StartSweep, RetryItem, vars
    <3>. QED  BY <3>1 DEF LockedOut, At, Current
  <2>3. CASE Crash
        BY <1>1, <2>3 DEF Crash
  <2>. QED  BY <2>1, <2>2, <2>3 DEF Next
<1>. QED  BY <1>1, <1>2, <1>3, OnePerFault

-----------------------------------------------------------------------------
(* The way to WBOM                                                         *)

Within(queue, m) == \E i \in DOMAIN queue : queue[i].msg = m
Queued(m) == Within(retry, m)
Retried(m) == sweep # Asleep /\ sweep.item.msg = m
Forwards(m) == \E d \in Deliveries : At(d, "forward") /\ Current(d) = m
OnItsWay(m) == Forwards(m) \/ m \in stored \/ m \in dropped \/ Retried(m) \/ Queued(m)

(* A step loses nothing on its way to WBOM, or one text to a failure.      *)
Keeps(x) == \A m : OnItsWay(m) /\ m # x => OnItsWay(m)'
KeepsAll == \A m : OnItsWay(m) => OnItsWay(m)'
LosesFew == KeepsAll \/ (forgets' = forgets + 1 /\ \E x : Keeps(x))

(* Nothing that waits is overlooked.                                       *)
LEMMA PopKeeps ==
    ASSUME NEW queue \in Seq(Items), NEW left, Pop(queue, left),
           NEW i \in DOMAIN queue
    PROVE  LET m == queue[i].msg IN Retried(m)' \/ Queued(m)'
<1>. DEFINE m == queue[i].msg
<1>1. CASE left = 0 \/ queue = <<>>
      BY <1>1 DEF Pop, Queued, Within
<1>2. CASE left # 0 /\ queue # <<>>
  <2>1. /\ Tail(queue) \in Seq(Items) /\ Len(Tail(queue)) = Len(queue) - 1
        /\ \A j \in 1..Len(Tail(queue)) : Tail(queue)[j] = queue[j + 1]
        BY <1>2, HeadTailProperties
  <2>2. i \in 1..Len(queue) /\ Len(queue) \in Nat /\ DOMAIN Tail(queue) = 1..Len(Tail(queue))
        BY <2>1, LenProperties
  <2>3. /\ sweep' = [pc |-> "send", item |-> Head(queue), left |-> left - 1]
        /\ retry' = Tail(queue)
        BY <1>2 DEF Pop
  <2>4. CASE i = 1
    <3>1. Head(queue) = queue[1] /\ sweep' # Asleep
          BY <2>3 DEF Asleep
    <3>. QED  BY <2>3, <2>4, <3>1 DEF Retried
  <2>5. CASE i # 1
    <3>1. i - 1 \in 1..Len(Tail(queue)) /\ Tail(queue)[i - 1] = queue[(i - 1) + 1]
          BY <2>1, <2>2, <2>5
    <3>2. (i - 1) + 1 = i
          BY <2>2
    <3>. QED  BY <2>2, <2>3, <3>1, <3>2 DEF Queued, Within
  <2>. QED  BY <2>4, <2>5
<1>. QED  BY <1>1, <1>2

LEMMA PushKeeps ==
    ASSUME NEW queue \in Seq(Items), NEW x \in Items
    PROVE  LET longer == Append(queue, x) IN
           /\ longer \in Seq(Items)
           /\ \A i \in DOMAIN queue : i \in DOMAIN longer /\ longer[i] = queue[i]
           /\ \E i \in DOMAIN longer : longer[i] = x
<1>1. /\ Append(queue, x) \in Seq(Items) /\ Len(queue) \in Nat
      /\ Len(Append(queue, x)) = Len(queue) + 1
      /\ \A i \in 1..Len(queue) : Append(queue, x)[i] = queue[i]
      /\ Append(queue, x)[Len(queue) + 1] = x
      BY AppendProperties, LenProperties
<1>2. DOMAIN queue = 1..Len(queue) /\ DOMAIN Append(queue, x) = 1..Len(queue) + 1
      BY <1>1, LenProperties
<1>. QED  BY <1>1, <1>2

LEMMA TailKeeps ==
    ASSUME NEW queue \in Seq(Items), queue # <<>>, NEW m, Within(queue, m), m # queue[1].msg
    PROVE  Within(Tail(queue), m)
<1>1. PICK i \in DOMAIN queue : queue[i].msg = m
      BY DEF Within
<1>2. /\ Tail(queue) \in Seq(Items) /\ Len(Tail(queue)) = Len(queue) - 1
      /\ \A j \in 1..Len(Tail(queue)) : Tail(queue)[j] = queue[j + 1]
      BY HeadTailProperties
<1>3. i \in 1..Len(queue) /\ Len(queue) \in Nat /\ DOMAIN Tail(queue) = 1..Len(Tail(queue))
      BY <1>2, LenProperties
<1>4. i - 1 \in 1..Len(Tail(queue)) /\ (i - 1) + 1 = i
      BY <1>1, <1>2, <1>3
<1>5. Tail(queue)[i - 1] = queue[i]
      BY <1>2, <1>4
<1>. QED  BY <1>1, <1>3, <1>4, <1>5 DEF Within

(* One item is tried: it is stored, dropped or put back, unless Redis      *)
(* fails under it, or under the next one.                                  *)
LEMMA RetryKeeps ==
    ASSUME Typed, RetryItem
    PROVE  LosesFew
<1>0. sweep # Asleep /\ retry \in Seq(Items) /\ task' = task
      BY TypeParts DEF Typed, RetryItem, QueuesOK
<1>1. PICK o \in PostOutcomes, again \in BOOLEAN, queue \in Seq(Items) :
        /\ Post(sweep.item.msg, o)
        /\ dropped' = IF o = "stored" \/ again THEN dropped
                                                ELSE dropped \union {sweep.item.msg}
        /\ again => \E x \in Items : x.msg = sweep.item.msg /\ queue = Append(retry, x)
        /\ ~again => queue = retry
        /\ \/ Pop(queue, sweep.left) /\ UNCHANGED forgets
           \/ BreakOff(again, queue)
      BY TriedIs
<1>2. stored \subseteq stored' /\ dropped \subseteq dropped' /\ \A m : Forwards(m)' = Forwards(m)
      BY <1>0, <1>1 DEF Post, Forwards, At, Current
<1>3. ASSUME NEW m, OnItsWay(m)
      PROVE  m \in stored' \/ m \in dropped' \/ Forwards(m)' \/ Within(queue, m)
  <2>1. CASE again
    <3>1. PICK x \in Items : x.msg = sweep.item.msg /\ queue = Append(retry, x)
          BY <1>1, <2>1
    <3>2. /\ \A i \in DOMAIN retry : i \in DOMAIN queue /\ queue[i] = retry[i]
          /\ \E i \in DOMAIN queue : queue[i] = x
          BY <1>0, <3>1, PushKeeps
    <3>. QED  BY <1>2, <1>3, <3>1, <3>2 DEF OnItsWay, Retried, Queued, Within
  <2>2. CASE ~again
    <3>1. Retried(m) => m \in stored' \/ m \in dropped'
          BY <1>1, <2>2 DEF Retried, Post
    <3>. QED  BY <1>1, <1>2, <1>3, <2>2, <3>1 DEF OnItsWay, Queued
  <2>. QED  BY <2>1, <2>2
<1>4. CASE Pop(queue, sweep.left)
  <2>1. ASSUME NEW m, OnItsWay(m)
        PROVE  OnItsWay(m)'
    <3>1. CASE Within(queue, m)
      <4>1. PICK i \in DOMAIN queue : queue[i].msg = m
            BY <3>1 DEF Within
      <4>. QED  BY <1>4, <4>1, PopKeeps DEF OnItsWay
    <3>. QED  BY <1>3, <2>1, <3>1 DEF OnItsWay
  <2>. QED  BY <2>1 DEF LosesFew, KeepsAll
<1>5. CASE BreakOff(again, queue)
  <2>1. /\ forgets' = forgets + 1
        /\ \/ again /\ retry' = retry
           \/ retry' = queue
           \/ queue # <<>> /\ retry' = Tail(queue)
        BY <1>0, <1>5, BrokenOff
  <2>2. CASE retry' = retry
    <3>1. Keeps(sweep.item.msg)
          BY <1>2, <2>2 DEF Keeps, OnItsWay, Retried, Queued, Within
    <3>. QED  BY <2>1, <3>1 DEF LosesFew
  <2>3. CASE retry' = queue
        BY <1>3, <2>3 DEF LosesFew, KeepsAll, OnItsWay, Queued, Within
  <2>4. CASE queue # <<>> /\ retry' = Tail(queue)
    <3>1. Keeps(queue[1].msg)
          BY <1>3, <2>4, TailKeeps DEF Keeps, OnItsWay, Queued, Within
    <3>. QED  BY <2>1, <3>1 DEF LosesFew
  <2>. QED  BY <2>1, <2>2, <2>3, <2>4
<1>. QED  BY <1>1, <1>4, <1>5

LEMMA SweepKeeps ==
    ASSUME Typed, StartSweep
    PROVE  LosesFew
<1>1. /\ sweep = Asleep /\ retry \in Seq(Items) /\ retry # <<>>
      /\ task' = task /\ stored' = stored /\ dropped' = dropped
      BY TypeParts DEF Typed, StartSweep, QueuesOK
<1>2. ASSUME NEW left, Pop(retry, left), NEW m, OnItsWay(m)
      PROVE  OnItsWay(m)'
  <2>1. Queued(m) => Retried(m)' \/ Queued(m)'
        BY <1>1, <1>2, PopKeeps DEF Queued, Within
  <2>. QED  BY <1>1, <1>2, <2>1 DEF OnItsWay, Retried, Forwards, At, Current
<1>3. ASSUME RedisFails, retry' = Tail(retry)
      PROVE  LosesFew
  <2>1. ASSUME NEW m, m # retry[1].msg, Within(retry, m)
        PROVE  Within(retry, m)'
        BY <1>1, <1>3, <2>1, TailKeeps DEF Within
  <2>2. Keeps(retry[1].msg)
        BY <1>1, <2>1 DEF Keeps, OnItsWay, Queued, Retried, Forwards, At, Current
  <2>. QED  BY <1>3, <2>2 DEF LosesFew, RedisFails
<1>. QED  BY <1>2, <1>3 DEF StartSweep, LosesFew, KeepsAll

(* What the process has in hand is lost with it.                           *)
LEMMA CrashDrops ==
    ASSUME Crash
    PROVE  LosesFew
<1>. DEFINE running == {d \in Deliveries : task[d].pc \notin {"new", "done"}}
            lost == {Current(d) : d \in {e \in running : At(e, "forward")}}
<1>. SUFFICES ASSUME NEW m, OnItsWay(m) PROVE OnItsWay(m)'
     BY DEF LosesFew, KeepsAll
<1>1. /\ dropped' = dropped \union lost \union {sweep.item.msg : x \in {sweep} \ {Asleep}}
      /\ stored' = stored /\ retry' = retry
      BY DEF Crash
<1>2. Forwards(m) => m \in lost
      BY DEF Forwards, At
<1>3. Retried(m) => m \in dropped'
      BY <1>1 DEF Retried
<1>. QED  BY <1>1, <1>2, <1>3 DEF OnItsWay, Queued, Within

(* A forwarded text is stored, queued or dropped, unless Redis fails at    *)
(* the push.                                                               *)
LEMMA CallKeeps ==
    ASSUME Typed, NEW d \in Deliveries, Receive(d) \/ Continue(d)
    PROVE  LosesFew
<1>1. ASSUME NEW m, OnItsWay(m), stored \subseteq stored', dropped \subseteq dropped',
             sweep' = sweep, Queued(m) => Queued(m)', ~(At(d, "forward") /\ Current(d) = m)
      PROVE  OnItsWay(m)'
  <2>1. Forwards(m) => Forwards(m)'
    <3>1. \A e \in Deliveries \ {d} : task'[e] = task[e]
          BY OthersStay
    <3>. QED  BY <1>1, <3>1 DEF Forwards, At, Current
  <2>. QED  BY <1>1, <2>1 DEF OnItsWay, Retried
<1>2. CASE ~Forward(d)
  <2>1. ~At(d, "forward") /\ stored' = stored /\ sweep' = sweep /\ retry' = retry
        /\ dropped \subseteq dropped'
        BY <1>2 DEF Continue, At, HasNext, intake, Receive, SkipDuplicate, StoreIncoming,
                    StoreFails, Finish, Send, Record, Notify, Fallback, AskBrain, Download,
                    AskAgain, AskAboutMedia, AskOwnerChat, Release, Mark
  <2>. QED  BY <1>1, <2>1 DEF Queued, Within, LosesFew, KeepsAll
<1>3. CASE Forward(d)
  <2>0. PICK n : n = Current(d)
        OBVIOUS
  <2>1. PICK o \in PostOutcomes :
          /\ Post(n, o)
          /\ dropped' = IF o = "rejected" THEN dropped \union {n} ELSE dropped
          /\ EnqueueFailed(n, o) \/ (forgets' = forgets + 1 /\ retry' = retry)
        BY <1>3, <2>0 DEF Forward, RedisFails
  <2>2. n \in Messages /\ retry \in Seq(Items) /\ Item(n) \in Items
    <3>1. n \in Messages
          BY <1>3, <2>0, Handled, CurrentIs DEF Forward, At, Handling
    <3>. QED  BY <3>1, TypeParts, BoundsAssumption DEF Typed, QueuesOK, Item, Items
  <2>3. stored \subseteq stored' /\ dropped \subseteq dropped' /\ sweep' = sweep
        BY <1>3, <2>1 DEF Forward, Post
  <2>4. \A m : Queued(m) => Queued(m)'
    <3>1. retry' = retry \/ retry' = Append(retry, Item(n))
          BY <2>1 DEF EnqueueFailed
    <3>. QED  BY <2>2, <3>1, PushKeeps DEF Queued, Within
  <2>5. Keeps(n)
        BY <1>1, <2>0, <2>3, <2>4 DEF Keeps
  <2>6. OnItsWay(n)' \/ forgets' = forgets + 1
    <3>1. CASE o \in {"stored", "late"}
          BY <2>1, <3>1 DEF Post, OnItsWay
    <3>2. CASE o = "rejected"
          BY <2>1, <3>2 DEF OnItsWay
    <3>3. CASE o = "refused" /\ EnqueueFailed(n, o)
      <4>1. retry' = Append(retry, Item(n))
            BY <3>3 DEF EnqueueFailed, Answered
      <4>2. \E i \in DOMAIN retry' : retry'[i] = Item(n)
            BY <2>2, <4>1, PushKeeps
      <4>3. Queued(n)'
            BY <4>2 DEF Item, Queued, Within
      <4>. QED  BY <4>3 DEF OnItsWay
    <3>. QED  BY <2>1, <3>1, <3>2, <3>3 DEF PostOutcomes
  <2>. QED  BY <2>5, <2>6 DEF Keeps, LosesFew, KeepsAll
<1>. QED  BY <1>2, <1>3

StrayedFew == IsFiniteSet(Strayed) /\ Cardinality(Strayed) <= forgets

LEMMA StrayedIs == Strayed = {m \in seen : Kind[m] = "text" /\ ~OnItsWay(m)}
BY DEF Strayed, OnItsWay, Forwards, Retried, Queued, Within

(* A new text is forwarded or dropped.                                     *)
LEMMA NewOnItsWay ==
    ASSUME Typed, [Next]_vars, NEW m \in seen' \ seen, Kind[m] = "text"
    PROVE  OnItsWay(m)'
<1>1. PICK d \in Deliveries : (StoreIncoming(d) \/ StoreFails(d)) /\ m = Current(d)
  <2>1. ASSUME NEW d \in Deliveries, Receive(d) \/ Continue(d)
        PROVE  (StoreIncoming(d) \/ StoreFails(d)) /\ m = Current(d)
        BY <2>1 DEF Continue, Receive, SkipDuplicate, StoreIncoming, StoreFails, Finish,
              Forward, Send, Record, Notify, Fallback, AskBrain, Download, AskAgain,
              AskAboutMedia, AskOwnerChat, Release, Mark
  <2>2. ~((\E x \in Senders : LockExpires(x)) \/ StartSweep \/ RetryItem \/ Crash
          \/ UNCHANGED vars)
        BY DEF LockExpires, StartSweep, RetryItem, Crash, vars
  <2>. QED  BY <2>1, <2>2 DEF Next
<1>2. CASE StoreFails(d)
      BY <1>1, <1>2 DEF StoreFails, OnItsWay
<1>3. CASE StoreIncoming(d)
  <2>1. Moved(d, "forward")
    <3>1. Route(d) /\ task[d].at \in DOMAIN Batch[d]
          BY <1>3, NextIsCurrent DEF StoreIncoming
    <3>. QED  BY <1>1, <3>1, GotoMoves DEF Route, Places, Calls
  <2>. QED  BY <1>1, <2>1 DEF OnItsWay, Forwards, Moved, At, Current
<1>. QED  BY <1>1, <1>2, <1>3

LEMMA IntakeStep == Typed /\ StrayedFew /\ [Next]_vars => StrayedFew'
<1>. SUFFICES ASSUME Typed, StrayedFew, [Next]_vars PROVE StrayedFew'
     OBVIOUS
<1>1. forgets \in Nat /\ forgets' \in {forgets, forgets + 1}
      BY FaultsGrow DEF Typed, Counted
<1>2. LosesFew
  <2>1. CASE (\E x \in Senders : LockExpires(x)) \/ UNCHANGED vars
        BY <2>1 DEF LockExpires, vars, intake, LosesFew, KeepsAll, OnItsWay, Forwards, Retried,
                    Queued, Within, At, Current
  <2>. QED  BY <2>1, CallKeeps, SweepKeeps, RetryKeeps, CrashDrops DEF Next
<1>3. Strayed' = {m \in seen' : Kind[m] = "text" /\ ~OnItsWay(m)'}
      BY DEF Strayed, OnItsWay, Forwards, Retried, Queued, Within
<1>4. ASSUME NEW m \in Strayed', OnItsWay(m) => OnItsWay(m)'
      PROVE  m \in Strayed
      BY <1>3, <1>4, NewOnItsWay, StrayedIs
<1>5. \/ Strayed' \subseteq Strayed
      \/ forgets' = forgets + 1 /\ \E x : Strayed' \subseteq Strayed \union {x}
  <2>1. CASE KeepsAll
        BY <1>4, <2>1 DEF KeepsAll
  <2>2. ASSUME forgets' = forgets + 1, NEW x, Keeps(x)
        PROVE  forgets' = forgets + 1 /\ Strayed' \subseteq Strayed \union {x}
        BY <1>4, <2>2 DEF Keeps
  <2>. QED  BY <1>2, <2>1, <2>2 DEF LosesFew
<1>6. IsFiniteSet(Strayed) /\ Cardinality(Strayed) <= forgets
      BY DEF StrayedFew
<1>7. IsFiniteSet(Strayed') /\ Cardinality(Strayed') <= forgets'
      BY <1>1, <1>5, <1>6, OnePerFault
<1>. QED  BY <1>7 DEF StrayedFew

-----------------------------------------------------------------------------
(* What is forgotten                                                       *)

Settled(m) ==
    replies[m] > 0 \/ m \in dead \/ m \in unanswered \/ \E r \in DOMAIN drafts : drafts[r].msg = m

(* The row of a reply and the notice of a draft come after the message is  *)
(* settled.                                                                *)
Remembered ==
    \A d \in Deliveries : task[d].pc \in {"record", "notify"} => Settled(Current(d))

LEMMA DraftsKeepMessages ==
    ASSUME Typed, DraftsInv, [Next]_vars
    PROVE  \A r \in DOMAIN drafts : r \in DOMAIN drafts' /\ drafts'[r].msg = drafts[r].msg
<1>1. ASSUME NEW d \in Deliveries, Receive(d) \/ Continue(d), ~Release(d), ~Mark(d)
      PROVE  \A r \in DOMAIN drafts : r \in DOMAIN drafts' /\ drafts'[r].msg = drafts[r].msg
  <2>1. CASE Handling(d) /\ drafts' = Append(drafts, NewDraft(Current(d)))
    <3>1. Current(d) \in Messages
          BY <2>1, Handled, CurrentIs
    <3>. QED  BY <2>1, <3>1, DraftAdded, DraftsAre DEF Typed
  <2>. QED  BY <1>1, <2>1, CallMoves
<1>2. ASSUME NEW d \in Deliveries, Release(d) \/ Mark(d)
      PROVE  \A r \in DOMAIN drafts : r \in DOMAIN drafts' /\ drafts'[r].msg = drafts[r].msg
  <2>1. task[d].row \in DOMAIN drafts /\ drafts[task[d].row] \in DraftRows
        BY <1>2, DraftsAre DEF Release, Mark, At, DraftsInv, Picked, Typed
  <2>2. ASSUME NEW w, w.msg = drafts[task[d].row].msg, drafts' = [drafts EXCEPT ![task[d].row] = w]
        PROVE  \A r \in DOMAIN drafts : r \in DOMAIN drafts' /\ drafts'[r].msg = drafts[r].msg
        BY <2>2
  <2>3. ASSUME NEW o \in SendOutcomes,
               drafts' = [drafts EXCEPT ![task[d].row].reached = @ \/ o.reached]
        PROVE  \A r \in DOMAIN drafts : r \in DOMAIN drafts' /\ drafts'[r].msg = drafts[r].msg
    <3>. DEFINE w == [drafts[task[d].row] EXCEPT
                        !.reached = drafts[task[d].row].reached \/ o.reached]
    <3>1. w.msg = drafts[task[d].row].msg
          BY <2>1 DEF DraftRows
    <3>2. drafts' = [drafts EXCEPT ![task[d].row] = w]
          BY <2>3
    <3>. HIDE DEF w
    <3>. QED  BY <2>2, <3>1, <3>2
  <2>4. ASSUME drafts' = [drafts EXCEPT ![task[d].row].status =
                            IF task[d].ok THEN "sent" ELSE "failed"]
        PROVE  \A r \in DOMAIN drafts : r \in DOMAIN drafts' /\ drafts'[r].msg = drafts[r].msg
    <3>. DEFINE w == [drafts[task[d].row] EXCEPT !.status =
                        IF task[d].ok THEN "sent" ELSE "failed"]
    <3>1. w.msg = drafts[task[d].row].msg
          BY <2>1 DEF DraftRows
    <3>2. drafts' = [drafts EXCEPT ![task[d].row] = w]
          BY <2>4
    <3>. HIDE DEF w
    <3>. QED  BY <2>2, <3>1, <3>2
  <2>. QED  BY <1>2, <2>3, <2>4 DEF Release, Mark
<1>3. CASE (\E x \in Senders : LockExpires(x)) \/ StartSweep \/ RetryItem \/ Crash
           \/ UNCHANGED vars
      BY <1>3 DEF LockExpires, StartSweep, RetryItem, Crash, vars
<1>. QED  BY <1>1, <1>2, <1>3 DEF Next

LEMMA SettledStays ==
    ASSUME Typed, DraftsInv, [Next]_vars, NEW m \in Messages, Settled(m)
    PROVE  Settled(m)'
<1>1. replies'[m] \in {replies[m], replies[m] + 1} /\ dead \subseteq dead'
      /\ unanswered \subseteq unanswered'
  <2>1. ASSUME NEW d \in Deliveries, Receive(d) \/ Continue(d)
        PROVE  replies'[m] \in {replies[m], replies[m] + 1} /\ dead \subseteq dead'
    <3>1. \/ replies' = replies
          \/ replies' = [replies EXCEPT ![Current(d)] = @ + 1]
          BY <2>1 DEF Continue, Receive, SkipDuplicate, StoreIncoming, StoreFails, Finish,
                      Forward, Send, Record, Notify, Fallback, AskBrain, Download, AskAgain,
                      AskAboutMedia, AskOwnerChat, Release, Mark, Reply
    <3>2. replies \in [Messages -> Nat]
          BY TypeParts DEF Typed
    <3>3. dead \subseteq dead'
          BY <2>1 DEF Continue, Receive, SkipDuplicate, StoreIncoming, StoreFails, Finish,
                      Forward, Send, Record, Notify, Fallback, AskBrain, Unlock, Download,
                      AskAgain, AskAboutMedia, AskOwnerChat, Release, Mark
    <3>. QED  BY <3>1, <3>2, <3>3
  <2>2. ASSUME NEW d \in Deliveries, Receive(d) \/ Continue(d)
        PROVE  unanswered \subseteq unanswered'
    <3>1. RouteReply(d) => unanswered \subseteq unanswered'
          BY DEF RouteReply, Raise, Abort
    <3>2. CASE Forward(d) \/ AskBrain(d) \/ AskAboutMedia(d) \/ AskOwnerChat(d)
          BY <3>1, <3>2 DEF Forward, Prepare, PrepareUnlocked, AskBrain, AskAboutMedia,
                            AskOwnerChat
    <3>3. CASE ~(Forward(d) \/ AskBrain(d) \/ AskAboutMedia(d) \/ AskOwnerChat(d))
          BY <2>2, <3>3 DEF Continue, Receive, SkipDuplicate, StoreIncoming, StoreFails, Finish,
                            Send, Record, Notify, Fallback, Download, AskAgain, Release,
                            Mark, Raise, Abort
    <3>. QED  BY <3>2, <3>3
  <2>3. CASE (\E x \in Senders : LockExpires(x)) \/ StartSweep \/ RetryItem \/ Crash
             \/ UNCHANGED vars
        BY <2>3 DEF LockExpires, StartSweep, RetryItem, Crash, vars
  <2>. QED  BY <2>1, <2>2, <2>3 DEF Next
<1>2. replies[m] \in Nat
      BY TypeParts DEF Typed
<1>3. replies[m] > 0 => replies'[m] > 0
      BY <1>1, <1>2
<1>. QED  BY <1>1, <1>3, DraftsKeepMessages DEF Settled

LEMMA RepliedSettles ==
    ASSUME Typed, NEW m \in Messages, Reply(m)
    PROVE  Settled(m)'
<1>1. replies \in [Messages -> Nat]
      BY TypeParts DEF Typed
<1>. QED  BY <1>1 DEF Reply, Settled

(* What a call leaves is settled, and what it takes up is at hand, unless  *)
(* a fallback can neither reply nor leave a dead letter.                   *)
Resolved(d, m) == Kind[m] = "send" \/ Settled(m) \/ (Handling(d) /\ Current(d) = m)
Late(d, m) == task[d].pc \in {"record", "notify"} /\ Current(d) = m
Cut(d, m) ==
    /\ At(d, "fallback") /\ Current(d) = m /\ Passed(d)
    /\ dbFailures' = dbFailures + 1 /\ forgets' = forgets + 1
Settles(d, m) ==
    /\ (Handling(d) /\ Current(d) = m) \/ m \in seen' \ seen => Resolved(d, m)' \/ Cut(d, m)
    /\ Late(d, m)' => Settled(m)'

LEMMA CallSettles ==
    ASSUME Typed, DraftsInv, Remembered, NEW d \in Deliveries, Receive(d) \/ Continue(d),
           NEW m \in Messages
    PROVE  Settles(d, m)
<1>0. /\ Handling(d) \/ HasNext(d) => task[d].at \in DOMAIN Batch[d] /\ Current(d) \in Left(d)
      /\ replies \in [Messages -> Nat]
      BY NextIsCurrent, Handled, CurrentIs, TypeParts DEF Typed
<1>1. ASSUME ~Handling(d), seen' = seen, task'[d].pc \in {"next", "done"}
      PROVE  Settles(d, m)
      BY <1>1 DEF Settles, Late
<1>2. ASSUME Handling(d), seen' = seen, Current(d) = m => Settled(m)',
             Passed(d) \/ (\E pc : Moved(d, pc))
      PROVE  Settles(d, m)
  <2>1. CASE Passed(d)
        BY <1>2, <2>1 DEF Passed, Settles, Late, Resolved
  <2>2. CASE \E pc : Moved(d, pc)
        BY <1>2, <2>2 DEF Moved, Current, Settles, Late, Resolved
  <2>. QED  BY <1>2, <2>1, <2>2
<1>3. ASSUME seen' = seen, NEW pc \in Calls \ {"notify"}, Moved(d, pc)
      PROVE  Settles(d, m)
      BY <1>3 DEF Moved, Handling, Current, Calls, Settles, Late, Resolved
<1>4. ASSUME Handling(d), seen' = seen, Passed(d), unanswered' = unanswered \union Left(d)
      PROVE  Settles(d, m)
      BY <1>0, <1>2, <1>4 DEF Settled
<1>5. CASE Receive(d) \/ SkipDuplicate(d) \/ Finish(d)
  <2>1. ~Handling(d) /\ seen' = seen
        BY <1>5 DEF Receive, SkipDuplicate, Finish, HasNext, At, Handling
  <2>2. task'[d].pc \in {"next", "done"}
        BY <1>5, GotoMoves, AdvancePasses, AbortPasses
           DEF Receive, SkipDuplicate, Finish, Moved, Passed, Places
  <2>. QED  BY <1>1, <2>1, <2>2
<1>6. CASE StoreIncoming(d)
  <2>1. ~Handling(d) /\ seen' = seen \union {Current(d)} /\ HasNext(d) /\ Route(d)
        BY <1>6 DEF StoreIncoming, HasNext, At, Handling
  <2>2. CASE Passed(d) /\ Kind[Current(d)] = "send"
        BY <2>1, <2>2 DEF Passed, Settles, Late, Resolved
  <2>3. ASSUME NEW pc \in {"forward", "download", "chat", "release"}, Moved(d, pc)
        PROVE  Settles(d, m)
        BY <2>1, <2>3 DEF Moved, Handling, Current, Settles, Late, Resolved
  <2>. QED  BY <1>0, <2>1, <2>2, <2>3, RouteMoves
<1>7. CASE StoreFails(d)
  <2>1. ~Handling(d) /\ seen' = seen \union {Current(d)} /\ HasNext(d) /\ Quit(d)
        /\ unanswered' = unanswered \union Left(d)
        BY <1>7 DEF StoreFails, Abort, HasNext, At, Handling
  <2>2. Current(d) = m => Settled(m)'
        BY <1>0, <2>1 DEF Settled
  <2>3. task'[d].pc = "done"
        BY <2>1, AbortPasses
  <2>. QED  BY <2>1, <2>2, <2>3 DEF Settles, Late, Resolved
<1>8. CASE Send(d) \/ AskAgain(d)
  <2>1. Handling(d) /\ seen' = seen /\ Reply(Current(d))
        BY <1>8 DEF Send, AskAgain, At, Handling
  <2>2. Current(d) = m => Settled(m)'
        BY <2>1, RepliedSettles
  <2>3. Passed(d) \/ (\E pc : Moved(d, pc))
        BY <1>8, GotoMoves, AdvancePasses DEF Send, AskAgain, Places
  <2>. QED  BY <1>2, <2>1, <2>2, <2>3
<1>16. CASE Fallback(d)
  <2>1. Handling(d) /\ seen' = seen /\ At(d, "fallback") /\ Passed(d)
        BY <1>16, AdvancePasses DEF Fallback, At, Handling
  <2>2. CASE Reply(Current(d))
        BY <1>2, <2>1, <2>2, RepliedSettles
  <2>3. CASE dead' = dead \union {Current(d)}
        BY <1>2, <2>1, <2>3 DEF Settled
  <2>4. CASE dbFailures' = dbFailures + 1 /\ forgets' = forgets + 1
        BY <2>1, <2>4 DEF Settles, Late, Cut, Passed
  <2>. QED  BY <1>16, <2>2, <2>3, <2>4 DEF Fallback, DbFails, RedisFails
<1>9. CASE Record(d) \/ Notify(d)
  <2>1. Handling(d) /\ seen' = seen /\ Settled(Current(d))
        BY <1>9 DEF Record, Notify, At, Handling, Remembered
  <2>2. Next
        BY <1>9 DEF Next, Continue
  <2>3. Current(d) = m => Settled(m)
        BY <2>1
  <2>4. Current(d) = m => Settled(m)'
        BY <2>2, <2>3, SettledStays
  <2>5. Passed(d) \/ (\E pc : Moved(d, pc))
        BY <1>9, RaiseMoves, AdvancePasses DEF Record, Notify
  <2>. QED  BY <1>2, <2>1, <2>4, <2>5
<1>10. ASSUME Handling(d), seen' = seen, RouteReply(d)
       PROVE  Settles(d, m)
  <2>1. CASE Moved(d, "notify") /\ drafts' = Append(drafts, NewDraft(Current(d)))
    <3>1. Current(d) \in Messages
          BY <1>0, <1>10, CurrentIs
    <3>2. /\ Len(drafts) + 1 \in DOMAIN drafts'
          /\ drafts'[Len(drafts) + 1].msg = Current(d)
          BY <2>1, <3>1, DraftAdded, DraftsAre DEF Typed, NewDraft
    <3>3. Current(d) = m => Settled(m)'
          BY <3>2 DEF Settled
    <3>. QED  BY <1>2, <1>10, <2>1, <3>3
  <2>2. CASE Moved(d, "send") \/ Moved(d, "fallback")
        BY <1>3, <1>10, <2>2 DEF Calls
  <2>3. CASE Passed(d) /\ unanswered' = unanswered \union Left(d)
        BY <1>4, <1>10, <2>3
  <2>. QED  BY <1>10, <2>1, <2>2, <2>3, RouteReplyMoves
<1>11. ASSUME Handling(d), seen' = seen, Advance(d),
              unanswered' = unanswered \union {Current(d)}
       PROVE  Settles(d, m)
  <2>1. Current(d) = m => Settled(m)'
        BY <1>11 DEF Settled
  <2>. QED  BY <1>2, <1>11, <2>1, AdvancePasses
<1>12. CASE Forward(d)
  <2>1. Handling(d) /\ seen' = seen /\ (Prepare(d) \/ Goto(d, "brain"))
        BY <1>12 DEF Forward, PrepareUnlocked, At, Handling
  <2>2. CASE Goto(d, "brain")
        BY <1>3, <2>1, <2>2, GotoMoves DEF Places, Calls
  <2>. QED  BY <1>10, <1>11, <2>1, <2>2 DEF Prepare
<1>13. CASE AskBrain(d) \/ AskAboutMedia(d) \/ AskOwnerChat(d)
       BY <1>10, <1>13 DEF AskBrain, AskAboutMedia, AskOwnerChat, At, Handling
<1>14. CASE Download(d)
  <2>1. Handling(d) /\ seen' = seen
        BY <1>14 DEF Download, At, Handling
  <2>2. CASE \E pc \in {"ask", "look"} : Goto(d, pc)
        BY <1>3, <2>1, <2>2, GotoMoves DEF Places, Calls
  <2>3. CASE Raise(d)
        BY <1>3, <1>4, <2>1, <2>3, RaiseMoves DEF Calls
  <2>. QED  BY <1>11, <1>14, <2>1, <2>2, <2>3 DEF Download
<1>15. CASE Release(d) \/ Mark(d)
  <2>1. Kind[Current(d)] = "send" /\ seen' = seen
        BY <1>15 DEF Release, Mark, At, Typed, Placed
  <2>2. task'[d].pc \notin {"record", "notify"}
        BY <1>15, ReleaseMoves, AdvancePasses DEF Mark, Moved, Passed
  <2>. QED  BY <2>1, <2>2 DEF Settles, Late, Resolved
<1>. QED  BY <1>5, <1>6, <1>7, <1>8, <1>9, <1>12, <1>13, <1>14, <1>15, <1>16 DEF Continue

LEMMA RememberedStep == Typed /\ DraftsInv /\ Remembered /\ [Next]_vars => Remembered'
<1>. SUFFICES ASSUME Typed, DraftsInv, Remembered, [Next]_vars PROVE Remembered'
     OBVIOUS
<1>0. Typed' /\ SetsOK'
      BY TypedStep, TypeParts DEF Typed, TypeOK, SetsOK
<1>2. ASSUME NEW e \in Deliveries, task'[e].pc \in {"record", "notify"},
             NEW m, m = Current(e)'
      PROVE  Settled(m)'
  <2>1. m \in Messages
    <3>1. task'[e].at \in DOMAIN Batch[e]
          BY <1>0, <1>2 DEF Typed, Placed, Handling
    <3>. QED  BY <1>2, <3>1, BatchType, ElementOfSeq DEF Current
  <2>2. ASSUME task'[e] = task[e]
        PROVE  Settled(m)'
    <3>1. task[e].pc \in {"record", "notify"} /\ m = Current(e)
          BY <1>2, <2>2 DEF Current
    <3>2. Settled(m)
          BY <3>1 DEF Remembered
    <3>. QED  BY <2>1, <3>2, SettledStays
  <2>3. ASSUME NEW d \in Deliveries, Receive(d) \/ Continue(d)
        PROVE  Settled(m)'
    <3>1. CASE e = d
          BY <1>2, <2>1, <2>3, <3>1, CallSettles DEF Settles, Late
    <3>2. CASE e # d
          BY <2>2, <2>3, <3>2, OthersStay
    <3>. QED  BY <3>1, <3>2
  <2>4. CASE (\E x \in Senders : LockExpires(x)) \/ StartSweep \/ RetryItem \/ UNCHANGED vars
        BY <2>2, <2>4 DEF LockExpires, StartSweep, RetryItem, vars
  <2>5. CASE Crash
        BY <1>2, <2>2, <2>5 DEF Crash, AtMessage
  <2>. QED  BY <2>3, <2>4, <2>5 DEF Next
<1>3. ASSUME NEW e \in Deliveries, task'[e].pc \in {"record", "notify"}
      PROVE  Settled(Current(e))'
      BY <1>2, <1>3 DEF Settled
<1>. QED  BY <1>3 DEF Remembered

(* A step forgets one message at most, that of a call which is cut off in  *)
(* the fallback.                                                           *)
LEMMA ForgottenIs ==
    ASSUME Typed
    PROVE  Forgotten = {m \in seen : Kind[m] # "send" /\ ~InHand(m) /\ ~Settled(m)}
<1>1. ASSUME NEW m \in seen
      PROVE  replies[m] \in Nat
      BY TypeParts DEF Typed, SetsOK
<1>2. ASSUME NEW m \in seen
      PROVE  Settled(m) <=> ~(/\ replies[m] = 0 /\ m \notin dead \union unanswered
                              /\ \A r \in DOMAIN drafts : drafts[r].msg # m)
      BY <1>1 DEF Settled
<1>. QED  BY <1>2 DEF Forgotten

LEMMA CallForgets ==
    ASSUME Typed, DraftsInv, Remembered, NEW d \in Deliveries, Receive(d) \/ Continue(d)
    PROVE  \/ Forgotten' \subseteq Forgotten
           \/ Cut(d, Current(d)) /\ Forgotten' \subseteq Forgotten \union {Current(d)}
<1>0. /\ Next /\ Typed' /\ SetsOK'
      /\ Forgotten = {m \in seen : Kind[m] # "send" /\ ~InHand(m) /\ ~Settled(m)}
      /\ Forgotten' = {m \in seen' : Kind[m] # "send" /\ ~InHand(m)' /\ ~Settled(m)'}
  <2>1. Typed' /\ Next
        BY TypedStep DEF Next
  <2>2. SetsOK' /\ replies' \in [Messages -> Nat]
        BY <2>1 DEF Typed, TypeOK, SetsOK
  <2>3. ASSUME NEW m \in seen'
        PROVE  Settled(m)' <=> ~(/\ replies'[m] = 0 /\ m \notin dead' \union unanswered'
                                 /\ \A r \in DOMAIN drafts' : drafts'[r].msg # m)
    <3>1. replies'[m] \in Nat
          BY <2>2 DEF SetsOK
    <3>. QED  BY <3>1 DEF Settled
  <2>4. Forgotten' = {m \in seen' : Kind[m] # "send" /\ ~InHand(m)' /\ ~Settled(m)'}
        BY <2>3 DEF Forgotten
  <2>. QED  BY <2>1, <2>2, <2>4, ForgottenIs
<1>1. ASSUME NEW m \in Forgotten', m \notin Forgotten
      PROVE  Cut(d, m)
  <2>1. m \in Messages /\ ~Settled(m)' /\ ~InHand(m)' /\ Kind[m] # "send" /\ m \in seen'
        BY <1>0 DEF SetsOK
  <2>2. ~Resolved(d, m)'
        BY <2>1 DEF Resolved, InHand
  <2>3. Settles(d, m)
        BY <2>1, CallSettles
  <2>4. CASE m \notin seen
        BY <2>1, <2>2, <2>3, <2>4 DEF Settles
  <2>5. CASE m \in seen
    <3>1. ~Settled(m)
          BY <1>0, <2>1, SettledStays
    <3>2. PICK e \in Deliveries : Handling(e) /\ Current(e) = m
          BY <1>0, <1>1, <2>1, <2>5, <3>1 DEF InHand
    <3>3. CASE e = d
          BY <2>2, <2>3, <3>2, <3>3 DEF Settles
    <3>4. CASE e # d
      <4>1. task'[e] = task[e]
            BY <3>4, OthersStay
      <4>. QED  BY <2>1, <3>2, <4>1 DEF InHand, Handling, Current
    <3>. QED  BY <3>3, <3>4
  <2>. QED  BY <2>4, <2>5
<1>2. \A m : Cut(d, m) => m = Current(d)
      BY DEF Cut
<1>. QED  BY <1>1, <1>2

(* No call comes to the fallback but by a failed statement.                *)
LEMMA FallsPay ==
    ASSUME Typed, NEW d \in Deliveries, Receive(d) \/ Continue(d), task'[d].pc = "fallback"
    PROVE  dbFailures' = dbFailures + 1 /\ ~At(d, "fallback")
<1>1. CASE Receive(d) \/ SkipDuplicate(d) \/ StoreFails(d) \/ Finish(d) \/ Send(d)
           \/ Fallback(d) \/ AskAgain(d)
      BY <1>1, GotoMoves, AdvancePasses, AbortPasses
         DEF Receive, SkipDuplicate, StoreFails, Abort, Finish, Send, Fallback, AskAgain,
             Places, Moved, Passed
<1>2. CASE StoreIncoming(d)
      BY <1>2, NextIsCurrent, RouteMoves DEF StoreIncoming, Moved, Passed
<1>3. CASE Record(d) \/ Notify(d)
      BY <1>3, AdvancePasses DEF Record, Notify, DbFails, Passed, At
<1>4. CASE Download(d)
      BY <1>4, AdvancePasses, GotoMoves DEF Download, DbFails, Passed, Moved, At, Places, Calls
<1>5. RouteReply(d) => dbFailures' = dbFailures + 1
      BY RouteReplyMoves DEF Moved, Passed, DbFails
<1>6. CASE Forward(d)
  <2>1. Prepare(d) \/ Goto(d, "brain")
        BY <1>6 DEF Forward, PrepareUnlocked
  <2>. QED  BY <1>5, <1>6, <2>1, AdvancePasses, GotoMoves
            DEF Forward, Prepare, Passed, Moved, At, Places, Calls
<1>7. CASE AskBrain(d) \/ AskAboutMedia(d) \/ AskOwnerChat(d)
      BY <1>5, <1>7 DEF AskBrain, AskAboutMedia, AskOwnerChat, At
<1>8. CASE Release(d) \/ Mark(d)
      BY <1>8, ReleaseMoves, AdvancePasses DEF Mark, Moved, Passed
<1>. QED  BY <1>1, <1>2, <1>3, <1>4, <1>6, <1>7, <1>8 DEF Continue

(* Two failed statements for each message that is forgotten, one for each  *)
(* call in the fallback.                                                   *)
Falling == {d \in Deliveries : At(d, "fallback")}
Charged ==
    /\ IsFiniteSet(Forgotten) /\ Cardinality(Forgotten) <= forgets
    /\ 2 * Cardinality(Forgotten) + Cardinality(Falling) <= dbFailures

LEMMA FallingType == IsFiniteSet(Falling) /\ Cardinality(Falling) \in Nat
<1>1. Falling \subseteq Deliveries
      BY DEF Falling
<1>. QED  BY <1>1, FS_Subset, FS_CardinalityType, MessagesAssumption

LEMMA CallCharges ==
    ASSUME Typed, DraftsInv, Remembered, Charged, NEW d \in Deliveries, Receive(d) \/ Continue(d)
    PROVE  Charged'
<1>. DEFINE F == Cardinality(Forgotten)
            G == Cardinality(Falling)
<1>1. /\ IsFiniteSet(Forgotten) /\ F \in Nat /\ F <= forgets /\ 2 * F + G <= dbFailures
      /\ IsFiniteSet(Falling) /\ G \in Nat
      BY FallingType, FS_CardinalityType DEF Charged
<1>2. /\ forgets \in Nat /\ forgets' \in {forgets, forgets + 1}
      /\ dbFailures \in Nat /\ dbFailures' \in {dbFailures, dbFailures + 1}
      BY FaultsGrow DEF Next, Typed, Counted
<1>3. Falling' \ {d} = Falling \ {d}
      BY OthersStay DEF Falling, At
<1>4. CASE Forgotten' \subseteq Forgotten
  <2>1. IsFiniteSet(Forgotten') /\ Cardinality(Forgotten') \in Nat /\ Cardinality(Forgotten') <= F
        BY <1>1, <1>4, FS_Subset, FS_CardinalityType
  <2>2. CASE d \in Falling' /\ d \notin Falling
    <3>1. dbFailures' = dbFailures + 1
          BY <2>2, FallsPay DEF Falling, At
    <3>2. Falling' \subseteq Falling \union {d}
          BY <1>3
    <3>3. Cardinality(Falling') \in Nat /\ Cardinality(Falling') <= G + 1
          BY <1>1, <3>2, OneMore
    <3>. QED  BY <1>1, <1>2, <2>1, <3>1, <3>3 DEF Charged
  <2>3. CASE ~(d \in Falling' /\ d \notin Falling)
    <3>1. Falling' \subseteq Falling
          BY <1>3, <2>3
    <3>2. Cardinality(Falling') \in Nat /\ Cardinality(Falling') <= G
          BY <1>1, <3>1, FS_Subset, FS_CardinalityType
    <3>. QED  BY <1>1, <1>2, <2>1, <3>2 DEF Charged
  <2>. QED  BY <2>2, <2>3
<1>5. ASSUME Cut(d, Current(d)), NEW m, Forgotten' \subseteq Forgotten \union {m}
      PROVE  Charged'
  <2>1. dbFailures' = dbFailures + 1 /\ forgets' = forgets + 1 /\ d \in Falling /\ d \notin Falling'
        BY <1>5 DEF Cut, Falling, At, Passed
  <2>2. IsFiniteSet(Forgotten') /\ Cardinality(Forgotten') \in Nat
        /\ Cardinality(Forgotten') <= F + 1
        BY <1>1, <1>5, OneMore
  <2>3. Falling' = Falling \ {d}
        BY <1>3, <2>1
  <2>4. Cardinality(Falling') = G - 1
        BY <1>1, <2>1, <2>3, FS_RemoveElement
  <2>. QED  BY <1>1, <1>2, <2>1, <2>2, <2>4 DEF Charged
<1>. QED  BY <1>4, <1>5, CallForgets

LEMMA ChargedStep == Typed /\ DraftsInv /\ Remembered /\ Charged /\ [Next]_vars => Charged'
<1>. SUFFICES ASSUME Typed, DraftsInv, Remembered, Charged, [Next]_vars PROVE Charged'
     OBVIOUS
<1>1. ASSUME UNCHANGED <<seen, replies, drafts, dead, forgets, dbFailures>>,
             unanswered \subseteq unanswered', Falling' \subseteq Falling,
             \A m : InHand(m) => InHand(m)' \/ m \in unanswered'
      PROVE  Charged'
  <2>1. Forgotten' \subseteq Forgotten
        BY <1>1 DEF Forgotten
  <2>2. /\ IsFiniteSet(Forgotten') /\ Cardinality(Forgotten') \in Nat
        /\ Cardinality(Forgotten) \in Nat /\ Cardinality(Forgotten') <= Cardinality(Forgotten)
        BY <2>1, FS_Subset, FS_CardinalityType DEF Charged
  <2>3. /\ Cardinality(Falling') \in Nat /\ Cardinality(Falling) \in Nat
        /\ Cardinality(Falling') <= Cardinality(Falling)
        BY <1>1, FallingType, FS_Subset, FS_CardinalityType
  <2>. QED  BY <1>1, <2>2, <2>3 DEF Charged, Typed, Counted
<1>2. CASE (\E x \in Senders : LockExpires(x)) \/ UNCHANGED vars
      BY <1>1, <1>2 DEF LockExpires, vars, bounds, Falling, At, InHand, Handling, Current
<1>3. CASE StartSweep \/ RetryItem
  <2>1. /\ UNCHANGED <<task, seen, replies, drafts, dead, unanswered, dbFailures>>
        /\ forgets \in Nat /\ forgets' \in {forgets, forgets + 1}
        BY <1>3, FaultsGrow DEF StartSweep, RetryItem, Typed, Counted
  <2>2. Forgotten' = Forgotten /\ Falling' = Falling
        BY <2>1 DEF Forgotten, InHand, Handling, Current, Falling, At
  <2>3. Cardinality(Forgotten) \in Nat
        BY FS_CardinalityType DEF Charged
  <2>. QED  BY <2>1, <2>2, <2>3 DEF Charged
<1>4. CASE Crash
  <2>1. ASSUME NEW m, InHand(m)
        PROVE  m \in unanswered'
    <3>1. PICK d \in Deliveries : Handling(d) /\ Current(d) = m
          BY <2>1 DEF InHand
    <3>2. m \in Left(d)
          BY <3>1, Handled, CurrentIs
    <3>3. unanswered' = unanswered \union
            UNION {Left(e) : e \in {x \in Deliveries : task[x].pc \notin {"new", "done"}}}
          BY <1>4 DEF Crash
    <3>4. task[d].pc \notin {"new", "done"}
          BY <3>1 DEF Handling
    <3>. QED  BY <3>2, <3>3, <3>4
  <2>2. Falling' \subseteq Falling
        BY <1>4 DEF Crash, Falling, At, AtMessage
  <2>3. /\ UNCHANGED <<seen, replies, drafts, dead, forgets, dbFailures>>
        /\ unanswered \subseteq unanswered'
        BY <1>4 DEF Crash
  <2>. QED  BY <1>1, <2>1, <2>2, <2>3
<1>. QED  BY <1>2, <1>3, <1>4, CallCharges DEF Next

-----------------------------------------------------------------------------
(* None is answered twice                                                  *)

(* The calls that have yet to answer a message, and its drafts             *)
Answering == {"forward", "brain", "send", "download", "ask", "look", "chat", "fallback"}
Due(m) == {d \in Deliveries : task[d].pc \in Answering /\ Current(d) = m}
DraftsOf(m) == {r \in DOMAIN drafts : drafts[r].msg = m}

(* Every answer, given or due, was paid for by the message being new, or   *)
(* by a fault.                                                             *)
Spent(m) == replies[m] + Cardinality(DraftsOf(m)) + Cardinality(Due(m))
Budget(m) == (IF m \in seen THEN 1 ELSE 0) + forgets + dbFailures
Paid == \A m \in Messages : Spent(m) <= Budget(m)

LEMMA Counts ==
    ASSUME Typed, NEW m \in Messages
    PROVE  /\ IsFiniteSet(DraftsOf(m)) /\ Cardinality(DraftsOf(m)) \in Nat
           /\ IsFiniteSet(Due(m)) /\ Cardinality(Due(m)) \in Nat
           /\ replies[m] \in Nat /\ forgets \in Nat /\ dbFailures \in Nat
<1>1. IsFiniteSet(DraftsOf(m))
  <2>1. IsFiniteSet(1..Len(drafts)) /\ DraftsOf(m) \subseteq 1..Len(drafts)
        BY FS_Interval, DraftsAre DEF Typed, DraftsOf
  <2>. QED  BY <2>1, FS_Subset
<1>2. IsFiniteSet(Due(m))
  <2>1. Due(m) \subseteq Deliveries
        BY DEF Due
  <2>. QED  BY <2>1, FS_Subset, MessagesAssumption
<1>. QED  BY <1>1, <1>2, FS_CardinalityType, TypeParts DEF Typed, Counted

(* What one step of a call is to the count of a message.                   *)
Idles(d, m) ==
    /\ replies'[m] = replies[m] /\ DraftsOf(m)' = DraftsOf(m)
    /\ d \in Due(m)' => d \in Due(m)
Pays(d, m) ==
    /\ replies'[m] = replies[m] /\ DraftsOf(m)' = DraftsOf(m)
    /\ \/ m \notin seen /\ m \in seen'
       \/ forgets' = forgets + 1
       \/ dbFailures' = dbFailures + 1
Replies1(d, m) ==
    /\ d \in Due(m) /\ d \notin Due(m)'
    /\ replies'[m] = replies[m] + 1 /\ DraftsOf(m)' = DraftsOf(m)
Drafts1(d, m) ==
    /\ d \in Due(m) /\ d \notin Due(m)'
    /\ replies'[m] = replies[m] /\ \E r : DraftsOf(m)' = DraftsOf(m) \union {r}
Counting(d, m) == Idles(d, m) \/ Pays(d, m) \/ Replies1(d, m) \/ Drafts1(d, m)

LEMMA CallCounts ==
    ASSUME Typed, DraftsInv, NEW d \in Deliveries, Receive(d) \/ Continue(d),
           NEW m \in Messages
    PROVE  Counting(d, m)
<1>0. /\ replies \in [Messages -> Nat]
      /\ Passed(d) => d \notin Due(m)'
      /\ \A pc : Moved(d, pc) /\ pc \notin Answering => d \notin Due(m)'
      /\ \A pc : Moved(d, pc) /\ task[d].pc \in Answering => (d \in Due(m)' => d \in Due(m))
      /\ \A pc : Moved(d, pc) /\ Current(d) # m => d \notin Due(m)'
      BY TypeParts DEF Typed, Passed, Moved, Due, Answering, Current
<1>1. drafts' = drafts => DraftsOf(m)' = DraftsOf(m)
      BY DEF DraftsOf
<1>2. CASE Receive(d) \/ SkipDuplicate(d) \/ StoreFails(d) \/ Finish(d)
  <2>1. replies' = replies /\ drafts' = drafts
        BY <1>2 DEF Receive, SkipDuplicate, StoreFails, Finish
  <2>2. d \notin Due(m)'
        BY <1>0, <1>2, GotoMoves, AdvancePasses, AbortPasses
           DEF Receive, SkipDuplicate, StoreFails, Abort, Finish, Places, Answering
  <2>. QED  BY <1>1, <2>1, <2>2 DEF Counting, Idles
<1>3. CASE StoreIncoming(d)
  <2>1. /\ replies' = replies /\ drafts' = drafts /\ seen' = seen \union {Current(d)}
        /\ Current(d) \notin seen \/ forgets' = forgets + 1
        BY <1>3 DEF StoreIncoming, IsNew
  <2>2. CASE Current(d) = m
        BY <1>1, <2>1, <2>2 DEF Counting, Pays
  <2>3. CASE Current(d) # m
    <3>1. d \notin Due(m)'
          BY <1>0, <1>3, <2>3, NextIsCurrent, RouteMoves DEF StoreIncoming
    <3>. QED  BY <1>1, <2>1, <3>1 DEF Counting, Idles
  <2>. QED  BY <2>2, <2>3
<1>4. CASE Send(d) \/ Fallback(d) \/ AskAgain(d)
  <2>1. /\ task[d].pc \in Answering /\ drafts' = drafts
        /\ Reply(Current(d)) \/ replies' = replies
        BY <1>4 DEF Send, Fallback, AskAgain, At, Answering
  <2>2. d \notin Due(m)'
        BY <1>0, <1>4, GotoMoves, AdvancePasses
           DEF Send, Fallback, AskAgain, Places, Answering
  <2>5. CASE replies' = replies
        BY <1>1, <2>1, <2>2, <2>5 DEF Counting, Idles
  <2>3. CASE Current(d) = m /\ Reply(Current(d))
    <3>1. d \in Due(m) /\ replies'[m] = replies[m] + 1
          BY <1>0, <2>1, <2>3 DEF Due, Reply
    <3>. QED  BY <1>1, <2>1, <2>2, <3>1 DEF Counting, Replies1
  <2>4. CASE Current(d) # m /\ Reply(Current(d))
    <3>1. replies'[m] = replies[m]
          BY <1>0, <2>1, <2>4 DEF Reply
    <3>. QED  BY <1>1, <2>1, <2>2, <3>1 DEF Counting, Idles
  <2>. QED  BY <2>1, <2>3, <2>4, <2>5
<1>5. CASE Record(d) \/ Notify(d)
  <2>1. replies' = replies /\ drafts' = drafts
        BY <1>5 DEF Record, Notify
  <2>2. Advance(d) \/ dbFailures' = dbFailures + 1
        BY <1>5 DEF Record, Notify, DbFails
  <2>. QED  BY <1>0, <1>1, <2>1, <2>2, AdvancePasses DEF Counting, Idles, Pays
<1>6. ASSUME task[d].pc \in Answering, replies' = replies, RouteReply(d)
      PROVE  Counting(d, m)
  <2>1. CASE (Moved(d, "send") \/ Moved(d, "fallback") \/ Passed(d)) /\ drafts' = drafts
        BY <1>0, <1>1, <1>6, <2>1 DEF Counting, Idles
  <2>2. CASE Moved(d, "notify") /\ drafts' = Append(drafts, NewDraft(Current(d)))
    <3>1. Current(d) \in Messages
          BY <1>6, Handled, CurrentIs DEF Handling, Answering
    <3>2. /\ DOMAIN drafts' = 1..Len(drafts) + 1 /\ DOMAIN drafts = 1..Len(drafts)
          /\ Len(drafts) \in Nat
          /\ \A r \in DOMAIN drafts : drafts'[r] = drafts[r]
          /\ drafts'[Len(drafts) + 1].msg = Current(d)
          BY <2>2, <3>1, DraftAdded, DraftsAre DEF Typed, NewDraft
    <3>3. DOMAIN drafts' = DOMAIN drafts \union {Len(drafts) + 1}
          BY <3>2
    <3>4. d \notin Due(m)'
          BY <1>0, <2>2 DEF Answering
    <3>5. CASE Current(d) = m
      <4>1. DraftsOf(m)' = DraftsOf(m) \union {Len(drafts) + 1}
            BY <3>2, <3>3, <3>5 DEF DraftsOf
      <4>2. d \in Due(m)
            BY <1>6, <3>5 DEF Due
      <4>. QED  BY <1>6, <3>4, <4>1, <4>2 DEF Counting, Drafts1
    <3>6. CASE Current(d) # m
      <4>1. DraftsOf(m)' = DraftsOf(m)
            BY <3>2, <3>3, <3>6 DEF DraftsOf
      <4>. QED  BY <1>6, <3>4, <4>1 DEF Counting, Idles
    <3>. QED  BY <3>5, <3>6
  <2>. QED  BY <1>6, <2>1, <2>2, RouteReplyMoves
<1>7. CASE Forward(d)
  <2>1. /\ task[d].pc \in Answering /\ replies' = replies
        /\ Prepare(d) \/ (Goto(d, "brain") /\ drafts' = drafts)
        BY <1>7 DEF Forward, PrepareUnlocked, At, Answering
  <2>2. CASE (Advance(d) \/ Goto(d, "brain")) /\ drafts' = drafts
        BY <1>0, <1>1, <2>1, <2>2, AdvancePasses, GotoMoves
           DEF Counting, Idles, Places, Calls
  <2>. QED  BY <1>6, <2>1, <2>2 DEF Prepare
<1>8. CASE AskBrain(d) \/ AskAboutMedia(d) \/ AskOwnerChat(d)
  <2>1. task[d].pc \in Answering /\ replies' = replies /\ RouteReply(d)
        BY <1>8 DEF AskBrain, AskAboutMedia, AskOwnerChat, At, Answering
  <2>. QED  BY <1>6, <2>1
<1>9. CASE Download(d)
  <2>1. task[d].pc \in Answering /\ replies' = replies /\ drafts' = drafts
        BY <1>9 DEF Download, At, Answering
  <2>2. Passed(d) \/ \E pc : Moved(d, pc)
        BY <1>9, AdvancePasses, GotoMoves, RaiseMoves DEF Download, Places, Calls
  <2>. QED  BY <1>0, <1>1, <2>1, <2>2 DEF Counting, Idles
<1>10. CASE Release(d) \/ Mark(d)
  <2>1. replies' = replies
        BY <1>10 DEF Release, Mark
  <2>2. d \notin Due(m)'
        BY <1>0, <1>10, ReleaseMoves, AdvancePasses DEF Mark, Answering
  <2>3. DOMAIN drafts' = DOMAIN drafts
        BY <1>10 DEF Release, Mark
  <2>4. \A r \in DOMAIN drafts : drafts'[r].msg = drafts[r].msg
        BY <1>10, DraftsKeepMessages DEF Next, Continue
  <2>. QED  BY <2>1, <2>2, <2>3, <2>4 DEF Counting, Idles, DraftsOf
<1>. QED  BY <1>2, <1>3, <1>4, <1>5, <1>7, <1>8, <1>9, <1>10 DEF Continue

(* A duplicate key that is lost is not taken out of seen: see forgets.     *)
LEMMA SeenGrows == ASSUME Typed, [Next]_vars PROVE seen \subseteq seen'
<1>1. ASSUME NEW d \in Deliveries, Receive(d) \/ Continue(d)
      PROVE  seen \subseteq seen'
      BY <1>1 DEF Continue, Receive, SkipDuplicate, StoreIncoming, StoreFails, Finish,
                  Forward, AskBrain, Send, Record, Notify, Fallback, Download, AskAgain,
                  AskAboutMedia, AskOwnerChat, Release, Mark
<1>2. CASE (\E x \in Senders : LockExpires(x)) \/ StartSweep \/ RetryItem \/ Crash
           \/ UNCHANGED vars
      BY <1>2 DEF LockExpires, StartSweep, RetryItem, Crash, vars
<1>. QED  BY <1>1, <1>2 DEF Next

LEMMA CallPays ==
    ASSUME Typed, DraftsInv, NEW d \in Deliveries, Receive(d) \/ Continue(d),
           NEW m \in Messages, Spent(m) <= Budget(m)
    PROVE  Spent(m)' <= Budget(m)'
<1>0. [Next]_vars /\ Typed'
      BY TypedStep DEF Next
<1>1. /\ IsFiniteSet(DraftsOf(m)) /\ Cardinality(DraftsOf(m)) \in Nat
      /\ IsFiniteSet(Due(m)) /\ Cardinality(Due(m)) \in Nat
      /\ replies[m] \in Nat /\ forgets \in Nat /\ dbFailures \in Nat
      BY Counts
<1>2. /\ Cardinality(DraftsOf(m)') \in Nat
      /\ IsFiniteSet(Due(m)') /\ Cardinality(Due(m)') \in Nat
      /\ replies'[m] \in Nat /\ forgets' \in Nat /\ dbFailures' \in Nat
  <2>1. /\ IsFiniteSet(DraftsOf(m)') /\ IsFiniteSet(Due(m)')
        /\ replies'[m] \in Nat /\ forgets' \in Nat /\ dbFailures' \in Nat
    <3>1. IsFiniteSet(DraftsOf(m)')
      <4>1. /\ DraftsOf(m)' \subseteq DOMAIN drafts' /\ Len(drafts') \in Nat
            /\ DOMAIN drafts' = 1..Len(drafts')
            BY <1>0, LenProperties DEF Typed, TypeOK, DraftsOf
      <4>2. IsFiniteSet(1..Len(drafts'))
            BY <4>1, FS_Interval
      <4>. QED  BY <4>1, <4>2, FS_Subset
    <3>2. Due(m)' \subseteq Deliveries
          BY DEF Due
    <3>. QED  BY <1>0, <3>1, <3>2, FS_Subset, MessagesAssumption DEF Typed, TypeOK, Counted
  <2>. QED  BY <2>1, FS_CardinalityType
<1>3. Budget(m) \in Nat /\ Budget(m)' \in Nat /\ Budget(m) <= Budget(m)'
  <2>1. forgets <= forgets' /\ dbFailures <= dbFailures'
        BY <1>0, <1>1, FaultsGrow
  <2>2. seen \subseteq seen'
        BY <1>0, SeenGrows
  <2>3. {forgets, forgets', dbFailures, dbFailures'} \subseteq Nat
        BY <1>1, <1>2
  <2>4. CASE m \in seen
    <3>1. Budget(m) = 1 + forgets + dbFailures /\ Budget(m)' = 1 + forgets' + dbFailures'
          BY <2>2, <2>4 DEF Budget
    <3>. QED  BY <2>1, <2>3, <3>1
  <2>5. CASE m \notin seen
    <3>1. /\ Budget(m) = 0 + forgets + dbFailures
          /\ \E n \in {0, 1} : Budget(m)' = n + forgets' + dbFailures'
          BY <2>5 DEF Budget
    <3>. QED  BY <2>1, <2>3, <3>1
  <2>. QED  BY <2>4, <2>5
<1>4. Due(m)' \ {d} = Due(m) \ {d}
      BY OthersStay DEF Due, Current
<1>5. CASE Idles(d, m)
  <2>1. Due(m)' \in SUBSET Due(m)
        BY <1>4, <1>5 DEF Idles
  <2>2. Cardinality(Due(m)') <= Cardinality(Due(m))
        BY <1>1, <2>1, FS_Subset
  <2>. QED  BY <1>1, <1>2, <1>3, <1>5, <2>2 DEF Idles, Spent
<1>6. CASE Pays(d, m)
  <2>1. Due(m)' \in SUBSET (Due(m) \union {d})
        BY <1>4
  <2>2. /\ IsFiniteSet(Due(m) \union {d})
        /\ Cardinality(Due(m) \union {d}) \in Nat
        /\ Cardinality(Due(m) \union {d}) <= Cardinality(Due(m)) + 1
    <3>1. /\ IsFiniteSet(Due(m) \union {d})
          /\ Cardinality(Due(m) \union {d}) =
                IF d \in Due(m) THEN Cardinality(Due(m)) ELSE Cardinality(Due(m)) + 1
          BY <1>1, FS_AddElement
    <3>. QED  BY <1>1, <3>1
  <2>3. Cardinality(Due(m)') <= Cardinality(Due(m)) + 1
        BY <1>1, <1>2, <2>1, <2>2, FS_Subset
  <2>4. Budget(m)' >= Budget(m) + 1
    <3>1. /\ forgets' \in {forgets, forgets + 1}
          /\ dbFailures' \in {dbFailures, dbFailures + 1}
          /\ seen \subseteq seen'
          BY <1>0, FaultsGrow, SeenGrows
    <3>. QED  BY <1>1, <1>2, <1>6, <3>1 DEF Pays, Budget
  <2>. QED  BY <1>1, <1>2, <1>3, <1>6, <2>3, <2>4 DEF Pays, Spent
<1>7. ASSUME d \in Due(m), d \notin Due(m)'
      PROVE  Cardinality(Due(m)') = Cardinality(Due(m)) - 1
  <2>1. Due(m)' = Due(m) \ {d}
        BY <1>4, <1>7
  <2>. QED  BY <1>1, <1>7, <2>1, FS_RemoveElement
<1>8. CASE Replies1(d, m)
      BY <1>1, <1>2, <1>3, <1>7, <1>8 DEF Replies1, Spent
<1>9. CASE Drafts1(d, m)
  <2>1. PICK r : DraftsOf(m)' = DraftsOf(m) \union {r}
        BY <1>9 DEF Drafts1
  <2>2. Cardinality(DraftsOf(m) \union {r}) =
          IF r \in DraftsOf(m) THEN Cardinality(DraftsOf(m)) ELSE Cardinality(DraftsOf(m)) + 1
        BY <1>1, FS_AddElement
  <2>3. Cardinality(DraftsOf(m)') <= Cardinality(DraftsOf(m)) + 1
        BY <1>1, <2>1, <2>2
  <2>. QED  BY <1>1, <1>2, <1>3, <1>7, <1>9, <2>3 DEF Drafts1, Spent
<1>. QED  BY <1>5, <1>6, <1>8, <1>9, CallCounts DEF Counting

LEMMA PaidStep == Typed /\ DraftsInv /\ Paid /\ [Next]_vars => Paid'
<1>. SUFFICES ASSUME Typed, DraftsInv, Paid, [Next]_vars, NEW m \in Messages
              PROVE  Spent(m)' <= Budget(m)'
     BY DEF Paid
<1>1. Spent(m) <= Budget(m)
      BY DEF Paid
<1>2. ASSUME NEW d \in Deliveries, Receive(d) \/ Continue(d)
      PROVE  Spent(m)' <= Budget(m)'
      BY <1>1, <1>2, CallPays
<1>3. CASE (\E x \in Senders : LockExpires(x)) \/ StartSweep \/ RetryItem \/ UNCHANGED vars
  <2>1. UNCHANGED <<task, seen, drafts, replies, dbFailures>>
        BY <1>3 DEF LockExpires, StartSweep, RetryItem, vars, bounds
  <2>2. Spent(m)' = Spent(m)
        BY <2>1 DEF Spent, DraftsOf, Due, Current
  <2>3. /\ Spent(m) \in Nat /\ Budget(m) \in Nat /\ Budget(m)' \in {Budget(m), Budget(m) + 1}
    <3>1. forgets' \in {forgets, forgets + 1}
          BY FaultsGrow
    <3>. QED  BY <2>1, <3>1, Counts DEF Spent, Budget
  <2>. QED  BY <1>1, <2>2, <2>3
<1>4. CASE Crash
  <2>1. UNCHANGED <<seen, drafts, replies, forgets, dbFailures>>
        BY <1>4 DEF Crash
  <2>2. Due(m)' \in SUBSET Due(m)
        BY <1>4 DEF Crash, Due, Answering, AtMessage, Current
  <2>3. /\ IsFiniteSet(Due(m)) /\ Cardinality(Due(m)) \in Nat
        /\ Cardinality(DraftsOf(m)) \in Nat
        /\ replies[m] \in Nat /\ forgets \in Nat /\ dbFailures \in Nat
        BY Counts
  <2>4. Cardinality(Due(m)') <= Cardinality(Due(m)) /\ Cardinality(Due(m)') \in Nat
        BY <2>2, <2>3, FS_Subset, FS_CardinalityType
  <2>5. DraftsOf(m)' = DraftsOf(m) /\ Budget(m)' = Budget(m)
        BY <2>1 DEF DraftsOf, Budget
  <2>6. Budget(m) \in Nat
        BY <2>3 DEF Budget
  <2>. QED  BY <1>1, <2>1, <2>3, <2>4, <2>5, <2>6 DEF Spent
<1>. QED  BY <1>2, <1>3, <1>4 DEF Next

-----------------------------------------------------------------------------
(* The theorems                                                            *)

PipelineInv ==
    /\ Typed /\ DraftsInv
    /\ LockedFew /\ StrayedFew /\ Remembered /\ Charged /\ Paid

LEMMA InitialInv == Init => PipelineInv
<1>. SUFFICES ASSUME Init PROVE PipelineInv
     OBVIOUS
<1>1. TypeOK
  <2>1. AtMessage("new", 1) \in Tasks
        BY DEF AtMessage, Tasks, Places
  <2>2. task \in [Deliveries -> Tasks]
        BY <2>1 DEF Init
  <2>3. drafts = <<>> /\ retry = <<>>
        BY DEF Init
  <2>4. \A S : <<>> \in Seq(S)
        BY EmptySeq
  <2>. QED  BY <2>2, <2>3, <2>4 DEF Init, TypeOK
<1>2. Placed /\ Counted
      BY DEF Init, Placed, Counted, Handling, AtMessage
<1>3. DraftsInv
      BY DEF Init, DraftsInv, Picked, SentWasReceived, AtMessage
<1>4. LockedFew /\ StrayedFew /\ Remembered /\ Charged
  <2>1. LockedOut = {} /\ Strayed = {} /\ Forgotten = {} /\ Falling = {}
        BY DEF Init, LockedOut, Strayed, Forgotten, Falling, At, AtMessage
  <2>2. Remembered
        BY DEF Init, Remembered, AtMessage
  <2>. QED  BY <2>1, <2>2, FS_EmptySet DEF Init, LockedFew, StrayedFew, Charged
<1>5. Paid
  <2>. SUFFICES ASSUME NEW m \in Messages PROVE Spent(m) <= Budget(m)
       BY DEF Paid
  <2>1. DraftsOf(m) = {} /\ Due(m) = {}
        BY DEF Init, DraftsOf, Due, AtMessage, Answering
  <2>. QED  BY <2>1, FS_EmptySet DEF Init, Spent, Budget
<1>. QED  BY <1>1, <1>2, <1>3, <1>4, <1>5 DEF PipelineInv, Typed

LEMMA PipelineInvariant == Spec => []PipelineInv
<1>1. PipelineInv /\ [Next]_vars => PipelineInv'
      BY TypedStep, DraftsStep, LockStep, IntakeStep, RememberedStep, ChargedStep, PaidStep
         DEF PipelineInv
<1>. QED  BY <1>1, InitialInv, PTL DEF Spec

(* The tasks, drafts and queues have their types, an item in the retry     *)
(* queue has been tried less than _MAX_RETRIES times, and a sweep never    *)
(* exceeds its size, however many calls, messages and faults there are.    *)
THEOREM PipelineTypeCorrect == Spec => []TypeOK
<1>1. PipelineInv => TypeOK
      BY DEF PipelineInv, Typed
<1>. QED  BY <1>1, PipelineInvariant, PTL

(* However often and in whatever order calls bring a message, it gets one  *)
(* reply or one draft, and one more at most for each lost duplicate key    *)
(* and each failed statement.                                              *)
THEOREM PipelineAnsweredOnce == Spec => []AnsweredOnce
<1>1. ASSUME PipelineInv PROVE AnsweredOnce
  <2>. SUFFICES ASSUME NEW m \in Messages
       PROVE  replies[m] + Cardinality(DraftsOf(m)) <= 1 + forgets + dbFailures
       BY DEF AnsweredOnce, DraftsOf
  <2>1. Spent(m) <= Budget(m)
        BY <1>1 DEF PipelineInv, Paid
  <2>2. /\ Cardinality(DraftsOf(m)) \in Nat /\ Cardinality(Due(m)) \in Nat
        /\ replies[m] \in Nat /\ forgets \in Nat /\ dbFailures \in Nat
        BY <1>1, Counts DEF PipelineInv
  <2>. QED  BY <2>1, <2>2 DEF Spent, Budget
<1>. QED  BY <1>1, PipelineInvariant, PTL

(* However calls, duplicates, outages and crashes mix, each message that   *)
(* is seen and then forgotten cost two failed statements and a failure of  *)
(* Redis: "always reply" holds up to there, and no further.                *)
THEOREM PipelineForgettingTakesThree == Spec => []ForgettingTakesThree
<1>1. ASSUME PipelineInv PROVE ForgettingTakesThree
  <2>1. Charged
        BY <1>1 DEF PipelineInv
  <2>2. /\ Cardinality(Falling) \in Nat /\ Cardinality(Forgotten) \in Nat
        /\ forgets \in Nat /\ dbFailures \in Nat
        BY <1>1, <2>1, FallingType, FS_CardinalityType DEF Charged, PipelineInv, Typed, Counted
  <2>. QED  BY <2>1, <2>2 DEF Charged, ForgettingTakesThree
<1>. QED  BY <1>1, PipelineInvariant, PTL

(* Until a first crash, a sender in cooldown is one whose message is with  *)
(* the brain, but for one sender at most for each time Redis failed: no    *)
(* path through the handler leaves another one locked.                     *)
THEOREM PipelineLockedMeansAnswering == Spec => []LockedMeansAnswering
<1>1. PipelineInv => LockedMeansAnswering
      BY DEF PipelineInv, LockedFew, LockedMeansAnswering
<1>. QED  BY <1>1, PipelineInvariant, PTL

(* Approvals overlap each other, new drafts and faults, and a draft that   *)
(* is marked sent has reached its customer all the same.                   *)
THEOREM PipelineSentWasReceived == Spec => []SentWasReceived
<1>1. PipelineInv => SentWasReceived
      BY DEF PipelineInv, DraftsInv
<1>. QED  BY <1>1, PipelineInvariant, PTL

(* A customer's text on its way to WBOM is stored, queued, being retried,  *)
(* or was dropped where the code drops it, but for one text at most for    *)
(* each time Redis failed.                                                 *)
THEOREM PipelineIntakeAccounted == Spec => []IntakeAccounted
<1>1. PipelineInv => IntakeAccounted
      BY DEF PipelineInv, StrayedFew, IntakeAccounted
<1>. QED  BY <1>1, PipelineInvariant, PTL
=============================================================================
