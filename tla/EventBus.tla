------------------------------ MODULE EventBus ------------------------------
(***************************************************************************)
(* The event bus (src/EventBus.h): post() of the two kinds of events,      *)
(* send(), and the dispatch on the loop.                                   *)
(*                                                                         *)
(* A trivially copyable event is copied into the queue.  Any other is      *)
(* copied into a heap box and the queue holds the pointer; eventLoop()     *)
(* deletes the box when every subscriber has been called.  send(), from a  *)
(* handler only, calls the subscribers at once, inside the handler, so     *)
(* dispatches nest; the stack below holds one frame for each of them.      *)
(*                                                                         *)
(* The subscriber list is built by Application::setup() before the first   *)
(* event and does not change after it; unsubscribe() has no caller.  Each  *)
(* service is in it twice, by Registry::create (through a pointer to the   *)
(* wrong base, which handles nothing, see Boot) and by                     *)
(* TService::subscribe, so what counts is the entries, not the services.   *)
(* Which of them handle an event is theirs to decide: any handler may      *)
(* post, send or just return.                                              *)
(***************************************************************************)
EXTENDS Naturals, Sequences

CONSTANTS
  QueueSize, (* slots of the loop's queue                                  *)
  Entries,   (* length of _subscribers                                     *)
  Event,     (* what can be posted or sent                                 *)
  NoEvent,   (* nothing: the loop is idle, or a box is free                *)
  Box,       (* addresses operator new can return                          *)
  NoBox,     (* a task is not between new and esp_event_post()             *)
  Task,      (* the tasks other than the loop's that post                  *)
  MaxPosts,  (* bound: events accepted in a behaviour                      *)
  MaxDepth   (* bound: dispatches that nest through send()                 *)

ASSUME BusAssumption ==
  /\ {QueueSize, Entries, MaxDepth} \subseteq Nat \ {0}
  /\ MaxPosts \in Nat
  /\ Event \cap Box = {}
  /\ NoEvent \notin Event \cup Box
  /\ NoBox \notin Box

VARIABLES
  queue,    (* events and boxes, oldest first                              *)
  heap,     (* of each box: the event it holds, or NoEvent when it is free *)
  boxOf,    (* of each task: the box it has filled and not yet posted      *)
  stack,    (* the dispatches under way: the loop's first, then send()'s   *)
  failed,   (* a post of the loop has found the queue full                 *)
  accepted, (* history: the events the queue took                          *)
  seen      (* history: the posted events each entry was handed            *)

vars == <<queue, heap, boxOf, stack, failed, accepted, seen>>

(* What handleMessage() is handed for a queue item: a box is read when used. *)
Content(item) == IF item \in Box THEN heap[item] ELSE item

(* A dispatch of item: the entry it has come to, and whether its handler runs. *)
Frame == [item : Event \cup Box, next : 1..(Entries + 1), inHandler : BOOLEAN]

BusTypeOK ==
  /\ queue \in Seq(Event \cup Box) /\ Len(queue) \in 0..QueueSize
  /\ heap \in [Box -> Event \cup {NoEvent}]
  /\ boxOf \in [Task -> Box \cup {NoBox}]
  /\ stack \in Seq(Frame) /\ Len(stack) \in 0..MaxDepth
  /\ failed \in BOOLEAN
  /\ accepted \in Seq(Event)
  /\ seen \in [1..Entries -> Seq(Event)]

BusInit ==
  /\ queue = <<>>
  /\ heap = [b \in Box |-> NoEvent]
  /\ boxOf = [t \in Task |-> NoBox]
  /\ stack = <<>>
  /\ failed = FALSE
  /\ accepted = <<>>
  /\ seen = [i \in 1..Entries |-> <<>>]

-----------------------------------------------------------------------------
(* post(), from another task: it waits for room. *)

HasRoom == Len(queue) < QueueSize

(* The queue takes item, which holds event e. *)
Enqueue(item, e) ==
  /\ Len(accepted) < MaxPosts
  /\ HasRoom
  /\ queue' = Append(queue, item)
  /\ accepted' = Append(accepted, e)

PostCopy(t, e) ==
  /\ boxOf[t] = NoBox
  /\ Enqueue(e, e)
  /\ UNCHANGED <<heap, boxOf, stack, failed, seen>>

(* new T(msg) *)
FillBox(t, e) ==
  /\ boxOf[t] = NoBox
  /\ \E b \in Box :
       /\ heap[b] = NoEvent
       /\ heap' = [heap EXCEPT ![b] = e]
       /\ boxOf' = [boxOf EXCEPT ![t] = b]
  /\ UNCHANGED <<queue, stack, failed, accepted, seen>>

PostBox(t) ==
  /\ boxOf[t] # NoBox
  /\ Enqueue(boxOf[t], heap[boxOf[t]])
  /\ boxOf' = [boxOf EXCEPT ![t] = NoBox]
  /\ UNCHANGED <<heap, stack, failed, seen>>

-----------------------------------------------------------------------------
(* The loop's task. *)

Depth == Len(stack)
Top == stack[Depth]
NewFrame(item) == [item |-> item, next |-> 1, inHandler |-> FALSE]

(* eventLoop() is called with the oldest event. *)
Take ==
  /\ stack = <<>> /\ queue # <<>>
  /\ stack' = <<NewFrame(Head(queue))>>
  /\ queue' = Tail(queue)
  /\ UNCHANGED <<heap, boxOf, failed, accepted, seen>>

(* handleMessage() calls onEventHandle() of the next entry. *)
CallEntry ==
  /\ stack # <<>> /\ ~Top.inHandler /\ Top.next <= Entries
  /\ stack' = [stack EXCEPT ![Depth].inHandler = TRUE]
  /\ seen' = IF Depth = 1
             THEN [seen EXCEPT ![Top.next] = Append(@, Content(Top.item))]
             ELSE seen
  /\ UNCHANGED <<queue, heap, boxOf, failed, accepted>>

(* Mutant: the iteration stops at the first subscriber that took the event. *)
EntryReturnsAndStops ==
  /\ stack # <<>> /\ Top.inHandler
  /\ stack' = [stack EXCEPT ![Depth].inHandler = FALSE, ![Depth].next = Entries + 1]
  /\ UNCHANGED <<queue, heap, boxOf, failed, accepted, seen>>

EntryReturns ==
  /\ stack # <<>> /\ Top.inHandler
  /\ stack' = [stack EXCEPT ![Depth].inHandler = FALSE, ![Depth].next = @ + 1]
  /\ UNCHANGED <<queue, heap, boxOf, failed, accepted, seen>>

(* Mutant: the handler's event jumps the queue. *)
HandlerPostsCopyFirst(e) ==
  /\ stack # <<>> /\ Top.inHandler /\ HasRoom /\ Len(accepted) < MaxPosts
  /\ queue' = <<e>> \o queue
  /\ accepted' = Append(accepted, e)
  /\ UNCHANGED <<heap, boxOf, stack, failed, seen>>

(* Mutant: the handler's event is added to a queue that is full. *)
HandlerPostsCopyAnyway(e) ==
  /\ stack # <<>> /\ Top.inHandler /\ Len(accepted) < MaxPosts
  /\ queue' = Append(queue, e)
  /\ accepted' = Append(accepted, e)
  /\ UNCHANGED <<heap, boxOf, stack, failed, seen>>

(* post() of a handler: without room it fails at once. *)
HandlerPostsCopy(e) ==
  /\ stack # <<>> /\ Top.inHandler
  /\ \/ Enqueue(e, e) /\ UNCHANGED failed
     \/ ~HasRoom /\ failed' = TRUE /\ UNCHANGED <<queue, accepted>>
  /\ UNCHANGED <<heap, boxOf, stack, seen>>

(* The same with a box: when the post fails nothing deletes the box. *)
HandlerPostsBox(e) ==
  /\ stack # <<>> /\ Top.inHandler
  /\ \E b \in Box :
       /\ heap[b] = NoEvent
       /\ heap' = [heap EXCEPT ![b] = e]
       /\ \/ Enqueue(b, e) /\ UNCHANGED failed
          \/ ~HasRoom /\ failed' = TRUE /\ UNCHANGED <<queue, accepted>>
  /\ UNCHANGED <<boxOf, stack, seen>>

(* send(): the running handler waits until every entry has been called. *)
HandlerSends(e) ==
  /\ stack # <<>> /\ Top.inHandler
  /\ Depth < MaxDepth
  /\ stack' = Append(stack, NewFrame(e))
  /\ UNCHANGED <<queue, heap, boxOf, failed, accepted, seen>>

(* send() returns to the handler that called it. *)
SendReturns ==
  /\ Depth > 1 /\ ~Top.inHandler /\ Top.next > Entries
  /\ stack' = SubSeq(stack, 1, Depth - 1)
  /\ UNCHANGED <<queue, heap, boxOf, failed, accepted, seen>>

(* Mutant: the delete is forgotten. *)
EventDoneKeepsBox ==
  /\ Depth = 1 /\ ~Top.inHandler /\ Top.next > Entries
  /\ stack' = <<>>
  /\ UNCHANGED <<queue, heap, boxOf, failed, accepted, seen>>

(* Every entry was called: delete the box and return to the loop. *)
EventDone ==
  /\ Depth = 1 /\ ~Top.inHandler /\ Top.next > Entries
  /\ stack' = <<>>
  /\ heap' = IF Top.item \in Box THEN [heap EXCEPT ![Top.item] = NoEvent] ELSE heap
  /\ UNCHANGED <<queue, boxOf, failed, accepted, seen>>

BusNext ==
  \/ \E t \in Task, e \in Event : PostCopy(t, e)
  \/ \E t \in Task, e \in Event : FillBox(t, e)
  \/ \E t \in Task : PostBox(t)
  \/ Take
  \/ CallEntry
  \/ EntryReturns
  \/ \E e \in Event : HandlerPostsCopy(e)
  \/ \E e \in Event : HandlerPostsBox(e)
  \/ \E e \in Event : HandlerSends(e)
  \/ SendReturns
  \/ EventDone

BusSpec == BusInit /\ [][BusNext]_vars

(* The loop's task runs whenever it can, and no handler runs for ever: *)
(* whatever it posts and sends, a handler of a posted event returns.   *)
BusFairness ==
  /\ WF_vars(Take)
  /\ WF_vars(CallEntry)
  /\ WF_vars(EntryReturns)
  /\ SF_vars(Depth = 1 /\ EntryReturns)
  /\ WF_vars(SendReturns)
  /\ WF_vars(EventDone)

BusFairSpec == BusSpec /\ BusFairness

-----------------------------------------------------------------------------
(* Who holds box b: slots of the queue, tasks about to post it, dispatches. *)
Holders(b) ==
       {<<"slot", i>> : i \in {i \in 1..Len(queue) : queue[i] = b}}
  \cup {<<"task", t>> : t \in {t \in Task : boxOf[t] = b}}
  \cup {<<"dispatch", d>> : d \in {d \in 1..Depth : stack[d].item = b}}

(***************************************************************************)
(* Ownership of the boxes: one that is held is held once and is alive, so  *)
(* no subscriber is handed a deleted or a reused box and none is deleted   *)
(* twice; and as long as no post of the loop has failed, one that is not   *)
(* held has been deleted.                                                  *)
(***************************************************************************)
BoxHasOneOwner ==
  \A b \in Box :
    /\ \A x, y \in Holders(b) : x = y
    /\ Holders(b) # {} => heap[b] # NoEvent
    /\ Holders(b) = {} /\ ~failed => heap[b] = NoEvent

Delivery == INSTANCE EventDelivery

(***************************************************************************)
(* Every accepted event is handed, with the content it was posted with, to *)
(* every entry of the list exactly once and in order, whatever the         *)
(* handlers post or send in between.                                       *)
(***************************************************************************)
DeliversInOrder == Delivery!DeliverySpec

(* And none of them waits for ever. *)
EveryEntryIsServed == Delivery!DeliveryFairness

Loop == INSTANCE SystemLoop WITH
  queue <- [i \in 1..Len(queue) |-> Content(queue[i])],
  current <- IF stack = <<>> THEN NoEvent ELSE Content(stack[1].item),
  dropped <- failed

(***************************************************************************)
(* The bus is the loop the services are modelled on: one event at a time,  *)
(* a bounded queue in posting order, and a loop's own post that fails when *)
(* it is full.                                                             *)
(***************************************************************************)
ImplementsSystemLoop ==
  Loop!LoopInit(<<>>) /\ [][Loop!LoopNext(Event)]_(Loop!loopVars)

=============================================================================
