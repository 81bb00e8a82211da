--------------------------- MODULE EventBusProofs ---------------------------
(***************************************************************************)
(* Proofs about EventBus.                                                  *)
(*                                                                         *)
(* BusInv has three parts.  NestInv: only the loop's own dispatch can be   *)
(* of a box, as send() is given an event.  OwnInv is BoxHasOneOwner said   *)
(* of the three places a box can be in.  SeenInv relates the queue and the *)
(* dispatch under way to the two histories: what waits is the end of       *)
(* accepted, what is dispatched the event before it, and the entries have  *)
(* got all the others.  The refinements follow from it step by step.       *)
(***************************************************************************)
EXTENDS EventBus, SequenceTheorems, TLAPS

Item == Event \cup Box

NestInv ==
  \A d \in 1..Len(stack) :
    /\ d > 1 => stack[d].item \in Event
    /\ stack[d].inHandler => stack[d].next <= Entries

(* The places of box b. *)
Waits(b) == \E i \in 1..Len(queue) : queue[i] = b
Carried(b) == \E t \in Task : boxOf[t] = b
Dispatched(b) == stack # <<>> /\ stack[1].item = b

OwnInv ==
  \A b \in Box :
    /\ \A i, j \in 1..Len(queue) : queue[i] = b /\ queue[j] = b => i = j
    /\ \A t, u \in Task : boxOf[t] = b /\ boxOf[u] = b => t = u
    /\ Waits(b) => ~Carried(b) /\ ~Dispatched(b)
    /\ Carried(b) => ~Dispatched(b)
    /\ Waits(b) \/ Carried(b) \/ Dispatched(b) => heap[b] # NoEvent
    /\ ~Waits(b) /\ ~Carried(b) /\ ~Dispatched(b) /\ ~failed => heap[b] = NoEvent

(* Events that were taken from the queue. *)
Taken == Len(accepted) - Len(queue)

(* Entry i was called in the dispatch of the loop. *)
Called(i) == i < stack[1].next \/ (i = stack[1].next /\ stack[1].inHandler)

SeenInv ==
  /\ Len(queue) <= Len(accepted)
  /\ \A i \in 1..Len(queue) : Content(queue[i]) = accepted[Taken + i]
  /\ stack = <<>> => \A i \in 1..Entries : Len(seen[i]) = Taken
  /\ stack # <<>> =>
       /\ Taken > 0
       /\ Content(stack[1].item) = accepted[Taken]
       /\ \A i \in 1..Entries :
            Len(seen[i]) = IF Called(i) THEN Taken ELSE Taken - 1

BusInv == BusTypeOK /\ NestInv /\ OwnInv /\ SeenInv

-----------------------------------------------------------------------------
(* The constants, one by one. *)
LEMMA ConstantFacts ==
  /\ QueueSize \in Nat /\ QueueSize > 0
  /\ Entries \in Nat /\ Entries > 0
  /\ MaxDepth \in Nat /\ MaxDepth > 0
  /\ \A e \in Event : e \notin Box /\ e # NoEvent
  /\ NoEvent \notin Box /\ NoBox \notin Box
<1>1. {QueueSize, Entries, MaxDepth} \subseteq Nat \ {0}
  BY BusAssumption DEF BusAssumption
<1>2. /\ QueueSize \in Nat \ {0} /\ Entries \in Nat \ {0} /\ MaxDepth \in Nat \ {0}
  BY <1>1
<1>3. Event \cap Box = {} /\ NoEvent \notin Event \cup Box /\ NoBox \notin Box
  BY BusAssumption DEF BusAssumption
<1> QED
  BY <1>2, <1>3

(* The lengths of the queue and of the stack. *)
LEMMA Lengths ==
  ASSUME BusTypeOK
  PROVE  /\ queue \in Seq(Item) /\ Len(queue) \in Nat /\ Len(queue) <= QueueSize
         /\ \A i \in 1..Len(queue) : queue[i] \in Item
         /\ stack \in Seq(Frame) /\ Len(stack) \in Nat /\ Len(stack) <= MaxDepth
         /\ \A d \in 1..Len(stack) : stack[d] \in Frame
         /\ stack = <<>> <=> Len(stack) = 0
         /\ queue = <<>> <=> Len(queue) = 0
         /\ accepted \in Seq(Event) /\ Len(accepted) \in Nat
<1>1. queue \in Seq(Item) /\ stack \in Seq(Frame) /\ accepted \in Seq(Event)
  BY DEF BusTypeOK, Item
<1>2. /\ Len(queue) \in Nat /\ Len(queue) <= QueueSize
      /\ Len(stack) \in Nat /\ Len(stack) <= MaxDepth
  BY ConstantFacts DEF BusTypeOK
<1>3. Len(accepted) \in Nat
  BY <1>1, LenProperties
<1>4. /\ \A i \in 1..Len(queue) : queue[i] \in Item
      /\ \A d \in 1..Len(stack) : stack[d] \in Frame
  BY <1>1, ElementOfSeq
<1>5. /\ stack = <<>> <=> Len(stack) = 0
      /\ queue = <<>> <=> Len(queue) = 0
  BY <1>1, EmptySeq
<1> QED
  BY <1>1, <1>2, <1>3, <1>4, <1>5

(* Whatever is somewhere has an event in it. *)
LEMMA HeldHasContent ==
  ASSUME BusInv
  PROVE  /\ \A i \in 1..Len(queue) : Content(queue[i]) \in Event
         /\ \A d \in 1..Len(stack) : Content(stack[d].item) \in Event
         /\ \A t \in Task : boxOf[t] # NoBox =>
              boxOf[t] \in Box /\ heap[boxOf[t]] \in Event
<1>1. \A b \in Box : heap[b] # NoEvent => heap[b] \in Event
  BY DEF BusInv, BusTypeOK
<1>2. ASSUME NEW i \in 1..Len(queue) PROVE Content(queue[i]) \in Event
  <2>1. queue[i] \in Item
    BY Lengths DEF BusInv
  <2>2. CASE queue[i] \in Box
    <3>1. heap[queue[i]] # NoEvent
      BY <2>2 DEF BusInv, OwnInv, Waits
    <3> QED
      BY <1>1, <2>2, <3>1 DEF Content
  <2>3. CASE queue[i] \notin Box
    BY <2>1, <2>3 DEF Content, Item
  <2> QED
    BY <2>2, <2>3
<1>3. ASSUME NEW d \in 1..Len(stack) PROVE Content(stack[d].item) \in Event
  <2>1. stack[d].item \in Item /\ Len(stack) \in Nat
    BY Lengths DEF BusInv, Frame, Item
  <2>2. CASE stack[d].item \in Box
    <3>1. d = 1
      <4>1. stack[d].item \notin Event
        BY <2>2, ConstantFacts
      <4>2. ~(d > 1)
        BY <4>1 DEF BusInv, NestInv
      <4> QED
        BY <2>1, <4>2
    <3>2. stack # <<>>
      BY <2>1, Lengths DEF BusInv
    <3>3. heap[stack[d].item] # NoEvent
      BY <2>2, <3>1, <3>2 DEF BusInv, OwnInv, Dispatched
    <3> QED
      BY <1>1, <2>2, <3>3 DEF Content
  <2>3. CASE stack[d].item \notin Box
    BY <2>1, <2>3 DEF Content, Item
  <2> QED
    BY <2>2, <2>3
<1>4. ASSUME NEW t \in Task, boxOf[t] # NoBox
      PROVE  boxOf[t] \in Box /\ heap[boxOf[t]] \in Event
  <2>1. boxOf[t] \in Box
    BY <1>4 DEF BusInv, BusTypeOK
  <2>2. heap[boxOf[t]] # NoEvent
    BY <2>1 DEF BusInv, OwnInv, Carried
  <2> QED
    BY <1>1, <2>1, <2>2
<1> QED
  BY <1>2, <1>3, <1>4

(* The queue takes one more. *)
LEMMA EnqueueFacts ==
  ASSUME BusTypeOK, NEW item \in Item, NEW e \in Event, Enqueue(item, e)
  PROVE  /\ Len(queue) < QueueSize
         /\ queue' = Append(queue, item) /\ queue' \in Seq(Item)
         /\ Len(queue') = Len(queue) + 1
         /\ \A i \in 1..Len(queue) : queue'[i] = queue[i]
         /\ queue'[Len(queue) + 1] = item
         /\ accepted' = Append(accepted, e) /\ accepted' \in Seq(Event)
         /\ Len(accepted') = Len(accepted) + 1
         /\ \A i \in 1..Len(accepted) : accepted'[i] = accepted[i]
         /\ accepted'[Len(accepted) + 1] = e
<1>1. queue \in Seq(Item) /\ accepted \in Seq(Event)
  BY Lengths
<1>2. /\ Len(queue) < QueueSize
      /\ queue' = Append(queue, item) /\ accepted' = Append(accepted, e)
  BY DEF Enqueue, HasRoom
<1> QED
  BY <1>1, <1>2, AppendProperties

(* The frame of the running dispatch is replaced. *)
LEMMA TopFacts ==
  ASSUME BusTypeOK, stack # <<>>, NEW fr \in Frame,
         stack' = [stack EXCEPT ![Depth] = fr]
  PROVE  /\ Depth \in 1..Len(stack) /\ Top \in Frame
         /\ stack' \in Seq(Frame) /\ Len(stack') = Len(stack) /\ stack' # <<>>
         /\ \A d \in 1..Len(stack) : stack'[d] = IF d = Depth THEN fr ELSE stack[d]
<1>1. /\ stack \in Seq(Frame) /\ Len(stack) \in Nat /\ Len(stack) # 0
      /\ Depth = Len(stack)
  BY Lengths DEF Depth
<1>2. Depth \in 1..Len(stack) /\ Top \in Frame
  BY <1>1, Lengths DEF Top
<1>3. /\ stack' \in Seq(Frame) /\ Len(stack') = Len(stack)
      /\ \A d \in 1..Len(stack) : stack'[d] = IF d = Depth THEN fr ELSE stack[d]
  BY <1>1, <1>2, ExceptSeq
<1>4. stack' # <<>>
  BY <1>1, <1>3, EmptySeq
<1> QED
  BY <1>2, <1>3, <1>4

-----------------------------------------------------------------------------
(* What a post does to the ownership of the boxes and to the histories. *)

LEMMA WaitsAfterEnqueue ==
  ASSUME BusInv, NEW item \in Item, NEW e \in Event, Enqueue(item, e), NEW b \in Box
  PROVE  /\ Waits(b)' <=> Waits(b) \/ item = b
         /\ (item = b => ~Waits(b)) =>
              \A i, j \in 1..Len(queue') : queue'[i] = b /\ queue'[j] = b => i = j
<1>1. /\ Len(queue) \in Nat /\ Len(queue') = Len(queue) + 1
      /\ \A i \in 1..Len(queue) : queue'[i] = queue[i]
      /\ queue'[Len(queue) + 1] = item
  BY EnqueueFacts, Lengths DEF BusInv
<1>2. Waits(b)' <=> Waits(b) \/ item = b
  <2>1. ASSUME Waits(b)' PROVE Waits(b) \/ item = b
    <3>1. PICK i \in 1..Len(queue') : queue'[i] = b
      BY <2>1 DEF Waits
    <3>2. i \in 1..Len(queue) \/ i = Len(queue) + 1
      BY <1>1
    <3> QED
      BY <1>1, <3>1, <3>2 DEF Waits
  <2>2. ASSUME Waits(b) PROVE Waits(b)'
    <3>1. PICK i \in 1..Len(queue) : queue[i] = b
      BY <2>2 DEF Waits
    <3>2. i \in 1..Len(queue') /\ queue'[i] = b
      BY <1>1, <3>1
    <3> QED
      BY <3>2 DEF Waits
  <2>3. ASSUME item = b PROVE Waits(b)'
    <3>1. Len(queue) + 1 \in 1..Len(queue')
      BY <1>1
    <3> QED
      BY <1>1, <2>3, <3>1 DEF Waits
  <2> QED
    BY <2>1, <2>2, <2>3
<1>3. ASSUME item = b => ~Waits(b),
             NEW i \in 1..Len(queue'), NEW j \in 1..Len(queue'),
             queue'[i] = b, queue'[j] = b
      PROVE  i = j
  <2>1. /\ i \in 1..Len(queue) \/ i = Len(queue) + 1
        /\ j \in 1..Len(queue) \/ j = Len(queue) + 1
    BY <1>1
  <2>2. CASE i \in 1..Len(queue) /\ j \in 1..Len(queue)
    BY <1>1, <1>3, <2>2 DEF BusInv, OwnInv
  <2>3. CASE i = Len(queue) + 1 /\ j = Len(queue) + 1
    BY <2>3
  <2>4. CASE ~(i \in 1..Len(queue) <=> j \in 1..Len(queue))
    BY <1>1, <1>3, <2>1, <2>4 DEF Waits
  <2> QED
    BY <2>1, <2>2, <2>3, <2>4
<1> QED
  BY <1>2, <1>3

LEMMA EnqueueKeepsSeen ==
  ASSUME BusInv, NEW item \in Item, NEW e \in Event, Enqueue(item, e),
         (IF item \in Box THEN heap'[item] ELSE item) = e,
         \A b \in Box : Waits(b) \/ Dispatched(b) => heap'[b] = heap[b],
         stack' = stack, seen' = seen
  PROVE  SeenInv'
<1>1. /\ Len(queue) \in Nat /\ Len(queue') = Len(queue) + 1
      /\ \A i \in 1..Len(queue) : queue'[i] = queue[i]
      /\ queue'[Len(queue) + 1] = item
      /\ Len(accepted) \in Nat /\ Len(accepted') = Len(accepted) + 1
      /\ \A i \in 1..Len(accepted) : accepted'[i] = accepted[i]
      /\ accepted'[Len(accepted) + 1] = e
  BY EnqueueFacts, Lengths DEF BusInv
<1>2. Len(queue) <= Len(accepted)
  BY DEF BusInv, SeenInv
<1>3. /\ Taken' = Taken /\ Taken \in Nat
      /\ Taken + Len(queue) = Len(accepted)
      /\ Len(queue') <= Len(accepted')
  BY <1>1, <1>2 DEF Taken
<1>4. ASSUME NEW i \in 1..Len(queue')
      PROVE  Content(queue[i])' = accepted'[Taken + i]
  <2>1. CASE i \in 1..Len(queue)
    <3>1. Content(queue[i]) = accepted[Taken + i]
      BY <2>1 DEF BusInv, SeenInv
    <3>2. Taken + i \in 1..Len(accepted)
      BY <1>1, <1>3, <2>1
    <3>3. queue[i] \in Box => heap'[queue[i]] = heap[queue[i]]
      BY <2>1 DEF Waits
    <3>4. Content(queue[i])' = Content(queue[i])
      BY <1>1, <2>1, <3>3 DEF Content
    <3> QED
      BY <1>1, <3>1, <3>2, <3>4
  <2>2. CASE i = Len(queue) + 1
    <3>1. Content(queue[i])' = e
      BY <1>1, <2>2 DEF Content
    <3>2. Taken + i = Len(accepted) + 1
      BY <1>1, <1>3, <2>2
    <3> QED
      BY <1>1, <3>1, <3>2
  <2> QED
    BY <1>1, <2>1, <2>2
<1>5. ASSUME stack # <<>>
      PROVE  /\ Taken > 0
             /\ Content(stack[1].item)' = accepted'[Taken]
             /\ \A i \in 1..Entries :
                  Len(seen[i]) = IF Called(i) THEN Taken ELSE Taken - 1
  <2>1. /\ Taken > 0 /\ Content(stack[1].item) = accepted[Taken]
        /\ \A i \in 1..Entries :
             Len(seen[i]) = IF Called(i) THEN Taken ELSE Taken - 1
    BY <1>5 DEF BusInv, SeenInv
  <2>2. Taken \in 1..Len(accepted)
    BY <1>1, <1>3, <2>1
  <2>3. stack[1].item \in Box => heap'[stack[1].item] = heap[stack[1].item]
    BY <1>5 DEF Dispatched
  <2>4. Content(stack[1].item)' = Content(stack[1].item)
    BY <2>3 DEF Content
  <2> QED
    BY <1>1, <2>1, <2>2, <2>4
<1>6. stack = <<>> => \A i \in 1..Entries : Len(seen[i]) = Taken
  BY DEF BusInv, SeenInv
<1>7. \A i \in 1..Entries : Called(i)' <=> Called(i)
  BY DEF Called
<1> QED
  BY <1>3, <1>4, <1>5, <1>6, <1>7 DEF SeenInv

(* A step that only fills a box nobody holds. *)
LEMMA FreshBoxKeepsSeen ==
  ASSUME BusInv, UNCHANGED <<queue, stack, accepted, seen>>,
         \A b \in Box : Waits(b) \/ Dispatched(b) => heap'[b] = heap[b]
  PROVE  SeenInv'
<1>1. Taken' = Taken /\ \A i \in 1..Entries : Called(i)' <=> Called(i)
  BY DEF Taken, Called
<1>2. \A i \in 1..Len(queue) : Content(queue[i])' = Content(queue[i])
  BY DEF Content, Waits
<1>3. stack # <<>> => Content(stack[1].item)' = Content(stack[1].item)
  BY DEF Content, Dispatched
<1> QED
  BY <1>1, <1>2, <1>3 DEF BusInv, SeenInv

(* A step that neither fills nor moves a box. *)
LEMMA BoxesLeftAlone ==
  ASSUME BusInv, UNCHANGED <<heap, boxOf>>, failed => failed',
         \A b \in Box :
           /\ Waits(b)' <=> Waits(b)
           /\ Dispatched(b)' <=> Dispatched(b)
           /\ \A i, j \in 1..Len(queue') : queue'[i] = b /\ queue'[j] = b => i = j
  PROVE  OwnInv'
<1> SUFFICES ASSUME NEW b \in Box
             PROVE  /\ Carried(b)' <=> Carried(b)
                    /\ \A t, u \in Task : boxOf'[t] = b /\ boxOf'[u] = b => t = u
  BY DEF BusInv, OwnInv
<1> QED
  BY DEF BusInv, OwnInv, Carried

-----------------------------------------------------------------------------
(* The steps, one lemma for each. *)

(* A copy that the queue takes, from a task or from a handler. *)
LEMMA CopyKeeps ==
  ASSUME BusInv, NEW e \in Event, Enqueue(e, e),
         UNCHANGED <<heap, boxOf, stack, failed, seen>>
  PROVE  BusInv'
<1>1. e \in Item /\ e \notin Box
  BY ConstantFacts DEF Item
<1>2. /\ queue' \in Seq(Item) /\ Len(queue') \in 0..QueueSize
      /\ accepted' \in Seq(Event)
  BY <1>1, EnqueueFacts, Lengths, ConstantFacts DEF BusInv
<1>3. BusTypeOK'
  BY <1>2 DEF BusInv, BusTypeOK, Item
<1>4. NestInv'
  BY DEF BusInv, NestInv
<1>5. ASSUME NEW b \in Box
      PROVE  /\ Waits(b)' <=> Waits(b)
             /\ Dispatched(b)' <=> Dispatched(b)
             /\ \A i, j \in 1..Len(queue') : queue'[i] = b /\ queue'[j] = b => i = j
  <2>1. e # b
    BY <1>1
  <2> QED
    BY <1>1, <2>1, WaitsAfterEnqueue DEF Dispatched
<1>6. OwnInv'
  BY <1>5, BoxesLeftAlone
<1>7. SeenInv'
  BY <1>1, EnqueueKeepsSeen
<1> QED
  BY <1>3, <1>4, <1>6, <1>7 DEF BusInv

(* new T(msg) *)
LEMMA FillKeeps ==
  ASSUME BusInv, NEW t \in Task, NEW e \in Event, FillBox(t, e)
  PROVE  BusInv'
<1>1. PICK b \in Box : /\ heap[b] = NoEvent
                       /\ heap' = [heap EXCEPT ![b] = e]
                       /\ boxOf' = [boxOf EXCEPT ![t] = b]
  BY DEF FillBox
<1>2. /\ boxOf[t] = NoBox
      /\ UNCHANGED <<queue, stack, failed, accepted, seen>>
  BY DEF FillBox
<1>3. BusTypeOK'
  BY <1>1, <1>2 DEF BusInv, BusTypeOK
<1>4. NestInv'
  BY <1>2 DEF BusInv, NestInv
<1>5. ~Waits(b) /\ ~Carried(b) /\ ~Dispatched(b)
  BY <1>1 DEF BusInv, OwnInv
<1>6. /\ \A c \in Box : heap'[c] = IF c = b THEN e ELSE heap[c]
      /\ \A u \in Task : boxOf'[u] = IF u = t THEN b ELSE boxOf[u]
  BY <1>1 DEF BusInv, BusTypeOK
<1>7. OwnInv'
  <2> SUFFICES ASSUME NEW c \in Box
               PROVE  /\ \A i, j \in 1..Len(queue) : queue[i] = c /\ queue[j] = c => i = j
                      /\ \A u, w \in Task : boxOf'[u] = c /\ boxOf'[w] = c => u = w
                      /\ Waits(c) => ~Carried(c)' /\ ~Dispatched(c)
                      /\ Carried(c)' => ~Dispatched(c)
                      /\ Waits(c) \/ Carried(c)' \/ Dispatched(c) => heap'[c] # NoEvent
                      /\ ~Waits(c) /\ ~Carried(c)' /\ ~Dispatched(c) /\ ~failed =>
                           heap'[c] = NoEvent
    BY <1>2 DEF OwnInv, Waits, Dispatched
  <2>1. CASE c = b
    <3>1. \A u \in Task : boxOf'[u] = c <=> u = t
      BY <1>5, <1>6, <2>1 DEF Carried
    <3>2. Carried(c)' /\ heap'[c] # NoEvent
      BY <1>6, <2>1, <3>1, ConstantFacts DEF Carried
    <3>3. \A i, j \in 1..Len(queue) : queue[i] = c /\ queue[j] = c => i = j
      BY DEF BusInv, OwnInv
    <3> QED
      BY <1>5, <2>1, <3>1, <3>2, <3>3
  <2>2. CASE c # b
    <3>1. \A u \in Task : boxOf'[u] = c <=> boxOf[u] = c
      BY <1>2, <1>6, <2>2, ConstantFacts
    <3>2. Carried(c)' <=> Carried(c)
      BY <3>1 DEF Carried
    <3>3. heap'[c] = heap[c]
      BY <1>6, <2>2
    <3> QED
      BY <3>1, <3>2, <3>3 DEF BusInv, OwnInv
  <2> QED
    BY <2>1, <2>2
<1>8. SeenInv'
  BY <1>2, <1>5, <1>6, FreshBoxKeepsSeen
<1> QED
  BY <1>3, <1>4, <1>7, <1>8 DEF BusInv

(* A filled box is posted by its task. *)
LEMMA PostBoxKeeps ==
  ASSUME BusInv, NEW t \in Task, PostBox(t)
  PROVE  BusInv'
<1> DEFINE b == boxOf[t]
<1>1. /\ b # NoBox /\ Enqueue(b, heap[b])
      /\ boxOf' = [boxOf EXCEPT ![t] = NoBox]
      /\ UNCHANGED <<heap, stack, failed, seen>>
  BY DEF PostBox
<1>2. b \in Box /\ heap[b] \in Event /\ b \in Item
  BY <1>1, HeldHasContent DEF Item
<1>3. /\ queue' \in Seq(Item) /\ Len(queue') \in 0..QueueSize
      /\ accepted' \in Seq(Event)
  BY <1>1, <1>2, EnqueueFacts, Lengths, ConstantFacts DEF BusInv
<1>4. BusTypeOK'
  BY <1>1, <1>3 DEF BusInv, BusTypeOK, Item
<1>5. NestInv'
  BY <1>1 DEF BusInv, NestInv
<1>6. Carried(b) /\ ~Waits(b) /\ ~Dispatched(b)
  <2>1. Carried(b)
    BY DEF Carried
  <2> QED
    BY <1>2, <2>1 DEF BusInv, OwnInv
<1>7. \A u \in Task : boxOf'[u] = IF u = t THEN NoBox ELSE boxOf[u]
  BY <1>1 DEF BusInv, BusTypeOK
<1>8. OwnInv'
  <2> SUFFICES ASSUME NEW c \in Box
               PROVE  /\ \A i, j \in 1..Len(queue') : queue'[i] = c /\ queue'[j] = c => i = j
                      /\ \A u, w \in Task : boxOf'[u] = c /\ boxOf'[w] = c => u = w
                      /\ Waits(c)' => ~Carried(c)' /\ ~Dispatched(c)
                      /\ Carried(c)' => ~Dispatched(c)
                      /\ Waits(c)' \/ Carried(c)' \/ Dispatched(c) => heap[c] # NoEvent
                      /\ ~Waits(c)' /\ ~Carried(c)' /\ ~Dispatched(c) /\ ~failed =>
                           heap[c] = NoEvent
    BY <1>1 DEF OwnInv, Dispatched
  <2>1. /\ Waits(c)' <=> Waits(c) \/ b = c
        /\ \A i, j \in 1..Len(queue') : queue'[i] = c /\ queue'[j] = c => i = j
    BY <1>1, <1>2, <1>6, WaitsAfterEnqueue
  <2>2. c # NoBox
    BY ConstantFacts
  <2>3. \A u \in Task : boxOf'[u] = c <=> boxOf[u] = c /\ u # t
    BY <1>7, <2>2
  <2>4. CASE c = b
    <3>1. ~Carried(c)'
      BY <1>2, <2>3, <2>4 DEF Carried, BusInv, OwnInv
    <3>2. \A u \in Task : boxOf'[u] # c
      BY <3>1 DEF Carried
    <3>3. heap[c] # NoEvent
      BY <1>2, <2>4, ConstantFacts
    <3>4. Waits(c)' /\ ~Dispatched(c)
      BY <1>6, <2>1, <2>4
    <3> QED
      BY <2>1, <3>1, <3>2, <3>3, <3>4
  <2>5. CASE c # b
    <3>1. Carried(c)' <=> Carried(c)
      BY <2>3, <2>5 DEF Carried
    <3> QED
      BY <2>1, <2>3, <2>5, <3>1 DEF BusInv, OwnInv
  <2> QED
    BY <2>4, <2>5
<1>9. SeenInv'
  BY <1>1, <1>2, EnqueueKeepsSeen
<1> QED
  BY <1>4, <1>5, <1>8, <1>9 DEF BusInv

(* The loop takes the oldest item. *)
LEMMA TakeKeeps ==
  ASSUME BusInv, Take
  PROVE  BusInv'
<1> DEFINE item == Head(queue)
<1>1. /\ stack = <<>> /\ queue # <<>>
      /\ stack' = <<NewFrame(item)>> /\ queue' = Tail(queue)
      /\ UNCHANGED <<heap, boxOf, failed, accepted, seen>>
  BY DEF Take
<1>2. /\ queue \in Seq(Item) /\ Len(queue) \in Nat /\ Len(queue) > 0
      /\ Len(queue) <= QueueSize /\ Len(accepted) \in Nat
  BY <1>1, Lengths DEF BusInv
<1>3. /\ item \in Item /\ queue' \in Seq(Item) /\ Len(queue') = Len(queue) - 1
      /\ \A i \in 1..Len(queue') : queue'[i] = queue[i + 1]
      /\ item = queue[1]
  BY <1>1, <1>2, HeadTailProperties
<1>4. /\ NewFrame(item) \in Frame /\ NewFrame(item).item = item
      /\ NewFrame(item).next = 1 /\ ~NewFrame(item).inHandler
  <2>1. 1 \in 1..(Entries + 1)
    BY ConstantFacts
  <2> QED
    BY <1>3, <2>1 DEF NewFrame, Frame, Item
<1>5. /\ stack' \in Seq(Frame) /\ Len(stack') = 1 /\ stack'[1] = NewFrame(item)
      /\ stack' # <<>>
  BY <1>1, <1>4
<1>6. BusTypeOK'
  <2>1. Len(queue') \in 0..QueueSize /\ Len(stack') \in 0..MaxDepth
    BY <1>2, <1>3, <1>5, ConstantFacts
  <2> QED
    BY <1>1, <1>3, <1>5, <2>1 DEF BusInv, BusTypeOK, Item
<1>7. NestInv'
  BY <1>4, <1>5 DEF NestInv
<1>8. OwnInv'
  <2> SUFFICES ASSUME NEW b \in Box
               PROVE  /\ \A i, j \in 1..Len(queue') : queue'[i] = b /\ queue'[j] = b => i = j
                      /\ Waits(b)' => ~Carried(b) /\ ~Dispatched(b)'
                      /\ Carried(b) => ~Dispatched(b)'
                      /\ Waits(b)' \/ Carried(b) \/ Dispatched(b)' => heap[b] # NoEvent
                      /\ ~Waits(b)' /\ ~Carried(b) /\ ~Dispatched(b)' /\ ~failed =>
                           heap[b] = NoEvent
    BY <1>1 DEF OwnInv, BusInv, Carried
  <2>1. Dispatched(b)' <=> item = b
    BY <1>4, <1>5 DEF Dispatched
  <2>2. \A i \in 1..Len(queue') : i + 1 \in 1..Len(queue) /\ i + 1 # 1
    BY <1>2, <1>3
  <2>3. Waits(b)' => Waits(b) /\ item # b
    <3>1. ASSUME NEW i \in 1..Len(queue'), queue'[i] = b
          PROVE  Waits(b) /\ item # b
      <4>1. i + 1 \in 1..Len(queue) /\ queue[i + 1] = b /\ i + 1 # 1 /\ 1 \in 1..Len(queue)
        BY <1>2, <1>3, <2>2, <3>1
      <4> QED
        BY <1>3, <4>1 DEF Waits, BusInv, OwnInv
    <3> QED
      BY <3>1 DEF Waits
  <2>4. Waits(b) => Waits(b)' \/ item = b
    <3>1. ASSUME NEW i \in 1..Len(queue), queue[i] = b PROVE Waits(b)' \/ item = b
      <4>1. CASE i = 1
        BY <1>3, <3>1, <4>1
      <4>2. CASE i # 1
        <5>1. i - 1 \in 1..Len(queue') /\ (i - 1) + 1 = i
          BY <1>2, <1>3, <4>2
        <5>2. queue'[i - 1] = b
          BY <1>3, <3>1, <5>1
        <5> QED
          BY <5>1, <5>2 DEF Waits
      <4> QED
        BY <4>1, <4>2
    <3> QED
      BY <3>1 DEF Waits
  <2>5. item = b => Waits(b)
    <3>1. 1 \in 1..Len(queue)
      BY <1>2
    <3> QED
      BY <1>3, <3>1 DEF Waits
  <2>6. ASSUME NEW i \in 1..Len(queue'), NEW j \in 1..Len(queue'),
               queue'[i] = b, queue'[j] = b
        PROVE  i = j
    <3>1. i + 1 = j + 1
      BY <1>3, <2>2, <2>6 DEF BusInv, OwnInv
    <3> QED
      BY <3>1
  <2>7. ~Dispatched(b)
    BY <1>1 DEF Dispatched
  <2>8. /\ Waits(b) => ~Carried(b) /\ heap[b] # NoEvent
        /\ Carried(b) => heap[b] # NoEvent
        /\ ~Waits(b) /\ ~Carried(b) /\ ~failed => heap[b] = NoEvent
    BY <2>7 DEF BusInv, OwnInv
  <2> QED
    BY <2>1, <2>3, <2>4, <2>5, <2>6, <2>8
<1>9. SeenInv'
  <2>1. Len(queue) <= Len(accepted)
    BY DEF BusInv, SeenInv
  <2>2. Taken' = Taken + 1 /\ Taken \in Nat
    BY <1>1, <1>2, <1>3, <2>1 DEF Taken
  <2>3. \A i \in 1..Len(queue) : Content(queue[i]) = accepted[Taken + i]
    BY DEF BusInv, SeenInv
  <2>4. ASSUME NEW i \in 1..Len(queue')
        PROVE  Content(queue[i])' = accepted'[Taken' + i]
    <3>1. i + 1 \in 1..Len(queue) /\ Taken + (i + 1) = Taken' + i
      BY <1>2, <1>3, <2>2
    <3>2. Content(queue[i])' = Content(queue[i + 1])
      BY <1>1, <1>3 DEF Content
    <3> QED
      BY <1>1, <2>3, <3>1, <3>2
  <2>5. Content(stack[1].item)' = accepted'[Taken']
    <3>1. 1 \in 1..Len(queue)
      BY <1>2
    <3>2. Content(queue[1]) = accepted[Taken + 1]
      BY <2>3, <3>1
    <3>3. Content(stack[1].item)' = Content(queue[1])
      BY <1>1, <1>3, <1>4, <1>5 DEF Content
    <3> QED
      BY <1>1, <2>2, <3>2, <3>3
  <2>6. ASSUME NEW i \in 1..Entries
        PROVE  Len(seen'[i]) = IF Called(i)' THEN Taken' ELSE Taken' - 1
    <3>1. ~Called(i)'
      BY <1>4, <1>5 DEF Called
    <3>2. Len(seen[i]) = Taken
      BY <1>1 DEF BusInv, SeenInv
    <3> QED
      BY <1>1, <2>2, <3>1, <3>2
  <2>7. Len(queue') <= Len(accepted')
    BY <1>1, <1>2, <1>3, <2>1
  <2> QED
    BY <1>5, <2>2, <2>4, <2>5, <2>6, <2>7 DEF SeenInv
<1> QED
  BY <1>6, <1>7, <1>8, <1>9 DEF BusInv

(* A step that moves the running dispatch on, in place. *)
LEMMA TopMovesOn ==
  ASSUME BusInv, stack # <<>>, NEW fr \in Frame,
         fr.item = Top.item, fr.inHandler => fr.next <= Entries,
         stack' = [stack EXCEPT ![Depth] = fr],
         UNCHANGED <<queue, heap, boxOf, failed, accepted>>
  PROVE  /\ NestInv' /\ OwnInv'
         /\ stack' \in Seq(Frame) /\ Len(stack') = Len(stack) /\ stack' # <<>>
         /\ Depth \in 1..Len(stack)
         /\ \A d \in 1..Len(stack) : stack'[d] = IF d = Depth THEN fr ELSE stack[d]
         /\ stack'[1].item = stack[1].item
         /\ Taken' = Taken
         /\ \A i \in 1..Len(queue) : Content(queue[i])' = Content(queue[i])
         /\ Content(stack[1].item)' = Content(stack[1].item)
<1>1. /\ Depth \in 1..Len(stack)
      /\ stack' \in Seq(Frame) /\ Len(stack') = Len(stack) /\ stack' # <<>>
      /\ \A d \in 1..Len(stack) : stack'[d] = IF d = Depth THEN fr ELSE stack[d]
  BY TopFacts DEF BusInv
<1>2. Len(stack) \in Nat /\ 1 \in 1..Len(stack)
  BY <1>1, Lengths DEF BusInv
<1>3. \A d \in 1..Len(stack) : stack'[d].item = stack[d].item
  BY <1>1 DEF Top
<1>4. NestInv'
  <2> SUFFICES ASSUME NEW d \in 1..Len(stack)
               PROVE  /\ d > 1 => stack'[d].item \in Event
                      /\ stack'[d].inHandler => stack'[d].next <= Entries
    BY <1>1 DEF NestInv
  <2>1. d > 1 => stack'[d].item \in Event
    BY <1>3 DEF BusInv, NestInv
  <2>2. stack'[d].inHandler => stack'[d].next <= Entries
    <3>1. CASE d = Depth
      BY <1>1, <3>1
    <3>2. CASE d # Depth
      BY <1>1, <3>2 DEF BusInv, NestInv
    <3> QED
      BY <3>1, <3>2
  <2> QED
    BY <2>1, <2>2
<1>5. OwnInv'
  <2>1. \A b \in Box : Dispatched(b)' <=> Dispatched(b)
    BY <1>1, <1>2, <1>3 DEF Dispatched
  <2>2. \A b \in Box : Waits(b)' <=> Waits(b)
    BY DEF Waits
  <2>3. \A b \in Box : \A i, j \in 1..Len(queue) : queue[i] = b /\ queue[j] = b => i = j
    BY DEF BusInv, OwnInv
  <2> QED
    BY <2>1, <2>2, <2>3, BoxesLeftAlone
<1>6. Taken' = Taken
  BY DEF Taken
<1>7. /\ \A i \in 1..Len(queue) : Content(queue[i])' = Content(queue[i])
      /\ Content(stack[1].item)' = Content(stack[1].item)
  BY <1>2, <1>3 DEF Content
<1> QED
  BY <1>1, <1>2, <1>3, <1>4, <1>5, <1>6, <1>7

(* The running dispatch with its entry's handler called, or returned from. *)
LEMMA FrameCalled ==
  ASSUME NEW f \in Frame, NEW g, g = [f EXCEPT !.inHandler = TRUE]
  PROVE  g = [item |-> f.item, next |-> f.next, inHandler |-> TRUE]
<1>1. g \in Frame
  BY DEF Frame
<1>2. g.item = f.item /\ g.next = f.next /\ g.inHandler
  BY DEF Frame
<1> QED
  BY <1>1, <1>2 DEF Frame

LEMMA FrameReturned ==
  ASSUME NEW f \in Frame, f.next + 1 \in 1..(Entries + 1),
         NEW g, g = [f EXCEPT !.inHandler = FALSE, !.next = @ + 1]
  PROVE  g = [item |-> f.item, next |-> f.next + 1, inHandler |-> FALSE]
<1>1. g \in Frame
  BY DEF Frame
<1>2. g.item = f.item /\ g.next = f.next + 1 /\ ~g.inHandler
  BY DEF Frame
<1> QED
  BY <1>1, <1>2 DEF Frame

(* Whatever is moved on, the item of the loop's dispatch is the same. *)
LEMMA TopKeepsItem ==
  ASSUME BusInv, CallEntry \/ EntryReturns
  PROVE  stack' # <<>> /\ stack'[1].item = stack[1].item
<1>1. stack # <<>>
  BY DEF CallEntry, EntryReturns
<1>2. Depth \in 1..Len(stack) /\ Top \in Frame /\ Len(stack) \in Nat
  BY <1>1, Lengths DEF BusInv, Depth, Top
<1>3. \E fr \in Frame : fr.item = Top.item /\ stack' = [stack EXCEPT ![Depth] = fr]
  <2>1. CASE CallEntry
    <3>1. stack' = [stack EXCEPT ![Depth] = [Top EXCEPT !.inHandler = TRUE]]
      BY <2>1 DEF CallEntry, Top
    <3>2. [Top EXCEPT !.inHandler = TRUE]
            = [item |-> Top.item, next |-> Top.next, inHandler |-> TRUE]
      BY <1>2, FrameCalled
    <3> QED
      BY <1>2, <3>1, <3>2 DEF Frame
  <2>2. CASE EntryReturns
    <3>1. stack' = [stack EXCEPT ![Depth] = [Top EXCEPT !.inHandler = FALSE, !.next = @ + 1]]
      BY <2>2 DEF EntryReturns, Top
    <3>2. Top.next + 1 \in 1..(Entries + 1)
      <4>1. Top.next <= Entries
        BY <1>2, <2>2 DEF EntryReturns, BusInv, NestInv, Top
      <4> QED
        BY <1>2, <4>1, ConstantFacts DEF Frame
    <3>3. [Top EXCEPT !.inHandler = FALSE, !.next = @ + 1]
            = [item |-> Top.item, next |-> Top.next + 1, inHandler |-> FALSE]
      BY <1>2, <3>2, FrameReturned
    <3> QED
      BY <1>2, <3>1, <3>2, <3>3 DEF Frame
  <2> QED
    BY <2>1, <2>2
<1>4. PICK fr \in Frame : fr.item = Top.item /\ stack' = [stack EXCEPT ![Depth] = fr]
  BY <1>3
<1>5. /\ stack' # <<>>
      /\ \A d \in 1..Len(stack) : stack'[d] = IF d = Depth THEN fr ELSE stack[d]
  BY <1>1, <1>4, TopFacts DEF BusInv
<1>6. 1 \in 1..Len(stack)
  BY <1>2
<1> QED
  BY <1>4, <1>5, <1>6 DEF Top

(* The next entry is called. *)
LEMMA CallKeeps ==
  ASSUME BusInv, CallEntry
  PROVE  BusInv'
<1> DEFINE fr == [item |-> Top.item, next |-> Top.next, inHandler |-> TRUE]
<1>1. /\ stack # <<>> /\ ~Top.inHandler /\ Top.next <= Entries
      /\ stack' = [stack EXCEPT ![Depth].inHandler = TRUE]
      /\ seen' = IF Depth = 1
                 THEN [seen EXCEPT ![Top.next] = Append(@, Content(Top.item))]
                 ELSE seen
      /\ UNCHANGED <<queue, heap, boxOf, failed, accepted>>
  BY DEF CallEntry
<1>2. Depth \in 1..Len(stack) /\ Top \in Frame /\ Len(stack) \in Nat
  BY <1>1, Lengths DEF BusInv, Depth, Top
<1>3. fr \in Frame /\ fr.item = Top.item /\ fr.next = Top.next /\ fr.inHandler
  BY <1>2 DEF Frame
<1>4. stack' = [stack EXCEPT ![Depth] = fr]
  <2>2. [Top EXCEPT !.inHandler = TRUE] = fr
    BY <1>2, FrameCalled
  <2>3. stack' = [stack EXCEPT ![Depth] = [stack[Depth] EXCEPT !.inHandler = TRUE]]
    BY <1>1
  <2> QED
    BY <2>2, <2>3 DEF Top
<1>5. /\ NestInv' /\ OwnInv'
      /\ stack' \in Seq(Frame) /\ Len(stack') = Len(stack) /\ stack' # <<>>
      /\ \A d \in 1..Len(stack) : stack'[d] = IF d = Depth THEN fr ELSE stack[d]
      /\ Taken' = Taken
      /\ \A i \in 1..Len(queue) : Content(queue[i])' = Content(queue[i])
      /\ Content(stack[1].item)' = Content(stack[1].item)
  BY <1>1, <1>3, <1>4, TopMovesOn
<1>6. Content(Top.item) \in Event
  BY <1>2, HeldHasContent DEF Top
<1>7. Top.next \in 1..Entries
  BY <1>1, <1>2, ConstantFacts DEF Frame
<1>8. /\ seen' \in [1..Entries -> Seq(Event)]
      /\ \A i \in 1..Entries :
           Len(seen'[i]) = IF Depth = 1 /\ i = Top.next THEN Len(seen[i]) + 1 ELSE Len(seen[i])
  <2>1. /\ seen \in [1..Entries -> Seq(Event)]
        /\ \A i \in 1..Entries : seen[i] \in Seq(Event)
    BY DEF BusInv, BusTypeOK
  <2>2. \A i \in 1..Entries :
          /\ Append(seen[i], Content(Top.item)) \in Seq(Event)
          /\ Len(Append(seen[i], Content(Top.item))) = Len(seen[i]) + 1
    BY <1>6, <2>1, AppendProperties
  <2>3. CASE Depth = 1
    <3>1. seen' = [seen EXCEPT ![Top.next] = Append(seen[Top.next], Content(Top.item))]
      BY <1>1, <2>3
    <3> QED
      BY <1>7, <2>1, <2>2, <2>3, <3>1
  <2>4. CASE Depth # 1
    BY <1>1, <2>1, <2>4
  <2> QED
    BY <2>3, <2>4
<1>9. BusTypeOK'
  BY <1>1, <1>5, <1>8 DEF BusInv, BusTypeOK
<1>10. SeenInv'
  <2>1. /\ Taken > 0 /\ Content(stack[1].item) = accepted[Taken]
        /\ \A i \in 1..Entries : Len(seen[i]) = IF Called(i) THEN Taken ELSE Taken - 1
        /\ Len(queue) <= Len(accepted)
        /\ \A i \in 1..Len(queue) : Content(queue[i]) = accepted[Taken + i]
    BY <1>1 DEF BusInv, SeenInv
  <2>2. Taken \in Int
    BY Lengths DEF Taken, BusInv
  <2>3. ASSUME NEW i \in 1..Entries
        PROVE  Len(seen'[i]) = IF Called(i)' THEN Taken ELSE Taken - 1
    <3>1. CASE Depth = 1
      <4>1. stack'[1] = fr /\ stack[1] = Top
        BY <1>2, <1>5, <3>1 DEF Top
      <4>2. Called(i)' <=> i <= Top.next
        BY <1>3, <1>7, <4>1 DEF Called
      <4>3. Called(i) <=> i < Top.next
        BY <1>1, <1>7, <4>1 DEF Called
      <4>4. CASE i = Top.next
        BY <1>7, <1>8, <2>1, <2>2, <3>1, <4>2, <4>3, <4>4
      <4>5. CASE i # Top.next
        <5>1. Called(i)' <=> Called(i)
          BY <1>7, <4>2, <4>3, <4>5
        <5>2. Len(seen'[i]) = Len(seen[i])
          BY <1>8, <4>5
        <5> QED
          BY <2>1, <5>1, <5>2
      <4> QED
        BY <4>4, <4>5
    <3>2. CASE Depth # 1
      <4>1. stack'[1] = stack[1]
        BY <1>2, <1>5, <3>2
      <4>2. Called(i)' <=> Called(i)
        BY <4>1 DEF Called
      <4> QED
        BY <1>8, <2>1, <3>2, <4>2
    <3> QED
      BY <3>1, <3>2
  <2> QED
    BY <1>1, <1>5, <2>1, <2>3 DEF SeenInv
<1> QED
  BY <1>5, <1>9, <1>10 DEF BusInv

(* Its handler returns. *)
LEMMA ReturnKeeps ==
  ASSUME BusInv, EntryReturns
  PROVE  BusInv'
<1> DEFINE fr == [item |-> Top.item, next |-> Top.next + 1, inHandler |-> FALSE]
<1>1. /\ stack # <<>> /\ Top.inHandler
      /\ stack' = [stack EXCEPT ![Depth].inHandler = FALSE, ![Depth].next = @ + 1]
      /\ UNCHANGED <<queue, heap, boxOf, failed, accepted, seen>>
  BY DEF EntryReturns
<1>2. Depth \in 1..Len(stack) /\ Top \in Frame /\ Len(stack) \in Nat
  BY <1>1, Lengths DEF BusInv, Depth, Top
<1>3. Top.next \in 1..Entries
  <2>1. Top.next <= Entries
    BY <1>1, <1>2 DEF BusInv, NestInv, Top
  <2> QED
    BY <1>2, <2>1, ConstantFacts DEF Frame
<1>4. fr \in Frame /\ fr.item = Top.item /\ fr.next = Top.next + 1 /\ ~fr.inHandler
  <2>1. Top.next + 1 \in 1..(Entries + 1)
    BY <1>3, ConstantFacts
  <2> QED
    BY <1>2, <2>1 DEF Frame
<1>5. stack' = [stack EXCEPT ![Depth] = fr]
  <2>1. Top.next + 1 \in 1..(Entries + 1)
    BY <1>3, ConstantFacts
  <2>2. [Top EXCEPT !.inHandler = FALSE, !.next = @ + 1] = fr
    BY <1>2, <2>1, FrameReturned
  <2>3. stack' = [stack EXCEPT ![Depth] =
                    [stack[Depth] EXCEPT !.inHandler = FALSE, !.next = @ + 1]]
    BY <1>1
  <2> QED
    BY <2>2, <2>3 DEF Top
<1>6. /\ NestInv' /\ OwnInv'
      /\ stack' \in Seq(Frame) /\ Len(stack') = Len(stack) /\ stack' # <<>>
      /\ \A d \in 1..Len(stack) : stack'[d] = IF d = Depth THEN fr ELSE stack[d]
      /\ Taken' = Taken
      /\ \A i \in 1..Len(queue) : Content(queue[i])' = Content(queue[i])
      /\ Content(stack[1].item)' = Content(stack[1].item)
  BY <1>1, <1>4, <1>5, TopMovesOn
<1>7. BusTypeOK'
  BY <1>1, <1>6 DEF BusInv, BusTypeOK
<1>8. \A i \in 1..Entries : Called(i)' <=> Called(i)
  <2> SUFFICES ASSUME NEW i \in 1..Entries PROVE Called(i)' <=> Called(i)
    OBVIOUS
  <2>1. CASE Depth = 1
    <3>1. stack'[1] = fr /\ stack[1] = Top
      BY <1>2, <1>6, <2>1 DEF Top
    <3>2. Called(i)' <=> i < Top.next + 1
      BY <1>4, <3>1 DEF Called
    <3>3. Called(i) <=> i < Top.next \/ i = Top.next
      BY <1>1, <3>1 DEF Called
    <3> QED
      BY <1>3, <3>2, <3>3
  <2>2. CASE Depth # 1
    <3>1. stack'[1] = stack[1]
      BY <1>2, <1>6, <2>2
    <3> QED
      BY <3>1 DEF Called
  <2> QED
    BY <2>1, <2>2
<1>9. SeenInv'
  BY <1>1, <1>6, <1>8 DEF BusInv, SeenInv
<1> QED
  BY <1>6, <1>7, <1>9 DEF BusInv

(* A post of a handler that found the queue full. *)
LEMMA RefusedCopyKeeps ==
  ASSUME BusInv, failed' = TRUE,
         UNCHANGED <<queue, accepted, heap, boxOf, stack, seen>>
  PROVE  BusInv'
<1>1. BusTypeOK' /\ NestInv'
  BY DEF BusInv, BusTypeOK, NestInv
<1>2. OwnInv'
  <2>1. \A b \in Box :
          /\ Waits(b)' <=> Waits(b)
          /\ Dispatched(b)' <=> Dispatched(b)
    BY DEF Waits, Dispatched
  <2>2. \A b \in Box : \A i, j \in 1..Len(queue) : queue[i] = b /\ queue[j] = b => i = j
    BY DEF BusInv, OwnInv
  <2> QED
    BY <2>1, <2>2, BoxesLeftAlone
<1>3. SeenInv'
  BY FreshBoxKeepsSeen
<1> QED
  BY <1>1, <1>2, <1>3 DEF BusInv

(* A handler fills a box; the queue takes it or the box is lost. *)
LEMMA HandlerBoxKeeps ==
  ASSUME BusInv, NEW e \in Event, HandlerPostsBox(e)
  PROVE  BusInv'
<1>1. PICK b \in Box :
        /\ heap[b] = NoEvent
        /\ heap' = [heap EXCEPT ![b] = e]
        /\ \/ Enqueue(b, e) /\ UNCHANGED failed
           \/ ~HasRoom /\ failed' = TRUE /\ UNCHANGED <<queue, accepted>>
  BY DEF HandlerPostsBox
<1>2. UNCHANGED <<boxOf, stack, seen>>
  BY DEF HandlerPostsBox
<1>3. ~Waits(b) /\ ~Carried(b) /\ ~Dispatched(b)
  BY <1>1 DEF BusInv, OwnInv
<1>4. /\ heap' \in [Box -> Event \cup {NoEvent}]
      /\ \A c \in Box : heap'[c] = IF c = b THEN e ELSE heap[c]
  BY <1>1 DEF BusInv, BusTypeOK
<1>5. b \in Item /\ e # NoEvent
  BY ConstantFacts DEF Item
<1>6. NestInv'
  BY <1>2 DEF BusInv, NestInv
<1>7. \A c \in Box : /\ Carried(c)' <=> Carried(c)
                     /\ Dispatched(c)' <=> Dispatched(c)
                     /\ \A t, u \in Task : boxOf'[t] = c /\ boxOf'[u] = c => t = u
  BY <1>2 DEF Carried, Dispatched, BusInv, OwnInv
<1>8. CASE Enqueue(b, e) /\ UNCHANGED failed
  <2>1. /\ queue' \in Seq(Item) /\ Len(queue') \in 0..QueueSize
        /\ accepted' \in Seq(Event)
    BY <1>5, <1>8, EnqueueFacts, Lengths, ConstantFacts DEF BusInv
  <2>2. BusTypeOK'
    BY <1>2, <1>4, <1>8, <2>1 DEF BusInv, BusTypeOK, Item
  <2>3. SeenInv'
    BY <1>2, <1>3, <1>4, <1>5, <1>8, EnqueueKeepsSeen
  <2>4. OwnInv'
    <3> SUFFICES ASSUME NEW c \in Box
                 PROVE  /\ \A i, j \in 1..Len(queue') : queue'[i] = c /\ queue'[j] = c => i = j
                        /\ Waits(c)' => ~Carried(c) /\ ~Dispatched(c)
                        /\ Carried(c) => ~Dispatched(c)
                        /\ Waits(c)' \/ Carried(c) \/ Dispatched(c) => heap'[c] # NoEvent
                        /\ ~Waits(c)' /\ ~Carried(c) /\ ~Dispatched(c) /\ ~failed =>
                             heap'[c] = NoEvent
      BY <1>7, <1>8 DEF OwnInv
    <3>1. /\ Waits(c)' <=> Waits(c) \/ b = c
          /\ \A i, j \in 1..Len(queue') : queue'[i] = c /\ queue'[j] = c => i = j
      BY <1>3, <1>5, <1>8, WaitsAfterEnqueue
    <3>2. CASE c = b
      <4>1. heap'[c] # NoEvent /\ Waits(c)' /\ ~Carried(c) /\ ~Dispatched(c)
        BY <1>3, <1>4, <1>5, <3>1, <3>2
      <4> QED
        BY <3>1, <4>1
    <3>3. CASE c # b
      <4>1. heap'[c] = heap[c] /\ (Waits(c)' <=> Waits(c))
        BY <1>4, <3>1, <3>3
      <4> QED
        BY <3>1, <4>1 DEF BusInv, OwnInv
    <3> QED
      BY <3>2, <3>3
  <2> QED
    BY <1>6, <2>2, <2>3, <2>4 DEF BusInv
<1>9. CASE failed' = TRUE /\ UNCHANGED <<queue, accepted>>
  <2>1. BusTypeOK'
    BY <1>2, <1>4, <1>9 DEF BusInv, BusTypeOK
  <2>2. SeenInv'
    BY <1>2, <1>3, <1>4, <1>9, FreshBoxKeepsSeen
  <2>3. OwnInv'
    <3> SUFFICES ASSUME NEW c \in Box
                 PROVE  /\ \A i, j \in 1..Len(queue) : queue[i] = c /\ queue[j] = c => i = j
                        /\ Waits(c) => ~Carried(c) /\ ~Dispatched(c)
                        /\ Carried(c) => ~Dispatched(c)
                        /\ Waits(c) \/ Carried(c) \/ Dispatched(c) => heap'[c] # NoEvent
      BY <1>7, <1>9 DEF OwnInv, Waits
    <3>1. CASE c = b
      <4>1. heap'[c] # NoEvent
        BY <1>4, <1>5, <3>1
      <4> QED
        BY <4>1 DEF BusInv, OwnInv
    <3>2. CASE c # b
      <4>1. heap'[c] = heap[c]
        BY <1>4, <3>2
      <4> QED
        BY <4>1 DEF BusInv, OwnInv
    <3> QED
      BY <3>1, <3>2
  <2> QED
    BY <1>6, <2>1, <2>2, <2>3 DEF BusInv
<1> QED
  BY <1>1, <1>8, <1>9

(* send() begins, or returns to the handler that called it: the dispatch of *)
(* the loop is where it was.                                                *)
LEMMA NestedKeeps ==
  ASSUME BusInv, stack # <<>>, stack' # <<>>, stack'[1] = stack[1],
         stack' \in Seq(Frame), Len(stack') \in 0..MaxDepth, NestInv',
         UNCHANGED <<queue, heap, boxOf, failed, accepted, seen>>
  PROVE  BusInv'
<1>1. BusTypeOK'
  BY DEF BusInv, BusTypeOK
<1>2. OwnInv'
  <2>1. \A b \in Box :
          /\ Waits(b)' <=> Waits(b)
          /\ Dispatched(b)' <=> Dispatched(b)
    BY DEF Waits, Dispatched
  <2>2. \A b \in Box : \A i, j \in 1..Len(queue) : queue[i] = b /\ queue[j] = b => i = j
    BY DEF BusInv, OwnInv
  <2> QED
    BY <2>1, <2>2, BoxesLeftAlone
<1>3. SeenInv'
  <2>1. Taken' = Taken /\ \A i \in 1..Entries : Called(i)' <=> Called(i)
    BY DEF Taken, Called
  <2>2. /\ \A i \in 1..Len(queue) : Content(queue[i])' = Content(queue[i])
        /\ Content(stack[1].item)' = Content(stack[1].item)
    BY DEF Content
  <2> QED
    BY <2>1, <2>2 DEF BusInv, SeenInv
<1> QED
  BY <1>1, <1>2, <1>3 DEF BusInv

LEMMA SendsKeeps ==
  ASSUME BusInv, NEW e \in Event, HandlerSends(e)
  PROVE  BusInv'
<1>1. /\ stack # <<>> /\ Len(stack) < MaxDepth
      /\ stack' = Append(stack, NewFrame(e))
      /\ UNCHANGED <<queue, heap, boxOf, failed, accepted, seen>>
  BY DEF HandlerSends, Depth
<1>2. stack \in Seq(Frame) /\ Len(stack) \in Nat /\ 1 \in 1..Len(stack)
  BY <1>1, Lengths DEF BusInv
<1>3. NewFrame(e) \in Frame /\ NewFrame(e).item = e /\ ~NewFrame(e).inHandler
  <2>1. 1 \in 1..(Entries + 1)
    BY ConstantFacts
  <2> QED
    BY <2>1 DEF NewFrame, Frame
<1>4. /\ stack' \in Seq(Frame) /\ stack' # <<>> /\ Len(stack') = Len(stack) + 1
      /\ \A d \in 1..Len(stack) : stack'[d] = stack[d]
      /\ stack'[Len(stack) + 1] = NewFrame(e)
  BY <1>1, <1>2, <1>3, AppendProperties
<1>5. Len(stack') \in 0..MaxDepth
  BY <1>1, <1>2, <1>4, ConstantFacts
<1>6. NestInv'
  <2> SUFFICES ASSUME NEW d \in 1..Len(stack')
               PROVE  /\ d > 1 => stack'[d].item \in Event
                      /\ stack'[d].inHandler => stack'[d].next <= Entries
    BY DEF NestInv
  <2>1. d \in 1..Len(stack) \/ d = Len(stack) + 1
    BY <1>2, <1>4
  <2>2. CASE d \in 1..Len(stack)
    BY <1>4, <2>2 DEF BusInv, NestInv
  <2>3. CASE d = Len(stack) + 1
    BY <1>3, <1>4, <2>3
  <2> QED
    BY <2>1, <2>2, <2>3
<1> QED
  BY <1>1, <1>2, <1>4, <1>5, <1>6, NestedKeeps

(* SubSeq leaves all but the last frame. *)
LEMMA SendReturnsKeepsFirst ==
  ASSUME BusInv, SendReturns
  PROVE  /\ stack' \in Seq(Frame) /\ Len(stack') \in 0..MaxDepth
         /\ \A d \in 1..Len(stack') : d \in 1..Len(stack) /\ stack'[d] = stack[d]
         /\ stack # <<>> /\ stack' # <<>> /\ stack'[1] = stack[1]
<1>1. /\ Len(stack) > 1
      /\ stack' = SubSeq(stack, 1, Len(stack) - 1)
  BY DEF SendReturns, Depth
<1>2. stack \in Seq(Frame) /\ Len(stack) \in Nat /\ Len(stack) <= MaxDepth
  BY Lengths DEF BusInv
<1>3. \A d \in 1..(Len(stack) - 1) : stack[d] \in Frame
  BY <1>2, Lengths DEF BusInv
<1>4. /\ stack' \in Seq(Frame) /\ Len(stack') = Len(stack) - 1
      /\ \A d \in 1..(Len(stack) - 1) : stack'[d] = stack[1 + d - 1]
  <2>1. 1 \in Int /\ Len(stack) - 1 \in Int /\ 1 <= Len(stack) - 1
        /\ (Len(stack) - 1) - 1 + 1 = Len(stack) - 1
    BY <1>1, <1>2
  <2> QED
    BY <1>1, <1>3, <2>1, SubSeqProperties
<1>5. \A d \in 1..Len(stack') : d \in 1..Len(stack) /\ stack'[d] = stack[d]
  BY <1>2, <1>4
<1>6. Len(stack') > 0 /\ 1 \in 1..Len(stack') /\ Len(stack') \in 0..MaxDepth
  BY <1>1, <1>2, <1>4, ConstantFacts
<1>7. stack # <<>>
  BY <1>1, Lengths DEF BusInv
<1>8. stack' # <<>>
  BY <1>4, <1>6, EmptySeq
<1> QED
  BY <1>4, <1>5, <1>6, <1>7, <1>8

LEMMA SendReturnKeeps ==
  ASSUME BusInv, SendReturns
  PROVE  BusInv'
<1>1. UNCHANGED <<queue, heap, boxOf, failed, accepted, seen>>
  BY DEF SendReturns
<1>2. /\ stack' \in Seq(Frame) /\ Len(stack') \in 0..MaxDepth
      /\ \A d \in 1..Len(stack') : d \in 1..Len(stack) /\ stack'[d] = stack[d]
      /\ stack # <<>> /\ stack' # <<>> /\ stack'[1] = stack[1]
  BY SendReturnsKeepsFirst
<1>3. NestInv'
  BY <1>2 DEF BusInv, NestInv
<1> QED
  BY <1>1, <1>2, <1>3, NestedKeeps

(* The dispatch of the loop ends. *)
LEMMA DoneKeeps ==
  ASSUME BusInv, EventDone
  PROVE  BusInv'
<1> DEFINE item == stack[1].item
<1>1. /\ Depth = 1 /\ ~stack[1].inHandler /\ stack[1].next > Entries
      /\ stack' = <<>>
      /\ heap' = IF item \in Box THEN [heap EXCEPT ![item] = NoEvent] ELSE heap
      /\ UNCHANGED <<queue, boxOf, failed, accepted, seen>>
  BY DEF EventDone, Top
<1>2. stack # <<>> /\ stack[1] \in Frame
  BY <1>1, Lengths DEF BusInv, Depth
<1>3. \A b \in Box : Dispatched(b) <=> item = b
  BY <1>2 DEF Dispatched
<1>4. /\ heap' \in [Box -> Event \cup {NoEvent}]
      /\ \A b \in Box : heap'[b] = IF item = b THEN NoEvent ELSE heap[b]
  BY <1>1 DEF BusInv, BusTypeOK
<1>5. BusTypeOK'
  <2>1. stack' \in Seq(Frame) /\ Len(stack') \in 0..MaxDepth
    BY <1>1, ConstantFacts
  <2> QED
    BY <1>1, <1>4, <2>1 DEF BusInv, BusTypeOK
<1>6. NestInv'
  BY <1>1 DEF NestInv
<1>7. OwnInv'
  <2> SUFFICES ASSUME NEW b \in Box
               PROVE  /\ \A i, j \in 1..Len(queue) : queue[i] = b /\ queue[j] = b => i = j
                      /\ \A t, u \in Task : boxOf[t] = b /\ boxOf[u] = b => t = u
                      /\ Waits(b) => ~Carried(b)
                      /\ Waits(b) \/ Carried(b) => heap'[b] # NoEvent
                      /\ ~Waits(b) /\ ~Carried(b) /\ ~failed => heap'[b] = NoEvent
    BY <1>1 DEF OwnInv, Waits, Carried, Dispatched
  <2>1. CASE item = b
    <3>1. ~Waits(b) /\ ~Carried(b) /\ heap'[b] = NoEvent
      BY <1>3, <1>4, <2>1 DEF BusInv, OwnInv
    <3> QED
      BY <3>1 DEF BusInv, OwnInv
  <2>2. CASE item # b
    <3>1. ~Dispatched(b) /\ heap'[b] = heap[b]
      BY <1>3, <1>4, <2>2
    <3> QED
      BY <3>1 DEF BusInv, OwnInv
  <2> QED
    BY <2>1, <2>2
<1>8. SeenInv'
  <2>1. Taken' = Taken
    BY <1>1 DEF Taken
  <2>2. \A i \in 1..Entries : Called(i)
    BY <1>1, <1>2, ConstantFacts DEF Called, Frame
  <2>3. \A i \in 1..Entries : Len(seen[i]) = Taken
    BY <1>2, <2>2 DEF BusInv, SeenInv
  <2>4. ASSUME NEW i \in 1..Len(queue) PROVE Content(queue[i])' = Content(queue[i])
    <3>1. queue[i] \in Box => queue[i] # item
      <4>1. queue[i] \in Box => Waits(queue[i])
        BY DEF Waits
      <4> QED
        BY <1>3, <4>1 DEF BusInv, OwnInv
    <3> QED
      BY <1>1, <1>4, <3>1 DEF Content
  <2> QED
    BY <1>1, <2>1, <2>3, <2>4 DEF BusInv, SeenInv
<1> QED
  BY <1>5, <1>6, <1>7, <1>8 DEF BusInv

-----------------------------------------------------------------------------
LEMMA BusInitInv == BusInit => BusInv
<1> SUFFICES ASSUME BusInit PROVE BusInv
  OBVIOUS
<1>1. Len(queue) = 0 /\ Len(stack) = 0 /\ Len(accepted) = 0 /\ stack = <<>>
  BY DEF BusInit
<1>2. BusTypeOK
  <2>1. /\ queue \in Seq(Event \cup Box) /\ stack \in Seq(Frame) /\ accepted \in Seq(Event)
        /\ seen \in [1..Entries -> Seq(Event)]
    BY DEF BusInit
  <2>2. Len(queue) \in 0..QueueSize /\ Len(stack) \in 0..MaxDepth
    BY <1>1, ConstantFacts
  <2>3. /\ heap \in [Box -> Event \cup {NoEvent}]
        /\ boxOf \in [Task -> Box \cup {NoBox}]
        /\ failed \in BOOLEAN
    BY DEF BusInit
  <2> QED
    BY <2>1, <2>2, <2>3 DEF BusTypeOK
<1>3. NestInv
  BY <1>1 DEF NestInv
<1>4. OwnInv
  <2>1. \A b \in Box : ~Waits(b) /\ ~Dispatched(b)
    BY <1>1 DEF Waits, Dispatched
  <2>2. \A b \in Box : \A t \in Task : boxOf[t] # b
    BY ConstantFacts DEF BusInit
  <2>3. \A b \in Box : heap[b] = NoEvent
    BY DEF BusInit
  <2> QED
    BY <1>1, <2>1, <2>2, <2>3 DEF OwnInv, Carried
<1>5. SeenInv
  BY <1>1 DEF BusInit, SeenInv, Taken
<1> QED
  BY <1>2, <1>3, <1>4, <1>5 DEF BusInv

LEMMA BusStepInv == BusInv /\ [BusNext]_vars => BusInv'
<1> SUFFICES ASSUME BusInv, [BusNext]_vars PROVE BusInv'
  OBVIOUS
<1>1. ASSUME NEW t \in Task, NEW e \in Event, PostCopy(t, e) PROVE BusInv'
  BY <1>1, CopyKeeps DEF PostCopy
<1>2. ASSUME NEW t \in Task, NEW e \in Event, FillBox(t, e) PROVE BusInv'
  BY <1>2, FillKeeps
<1>3. ASSUME NEW t \in Task, PostBox(t) PROVE BusInv'
  BY <1>3, PostBoxKeeps
<1>4. CASE Take
  BY <1>4, TakeKeeps
<1>5. CASE CallEntry
  BY <1>5, CallKeeps
<1>6. CASE EntryReturns
  BY <1>6, ReturnKeeps
<1>7. ASSUME NEW e \in Event, HandlerPostsCopy(e) PROVE BusInv'
  <2>1. \/ Enqueue(e, e) /\ UNCHANGED failed
        \/ failed' = TRUE /\ UNCHANGED <<queue, accepted>>
    BY <1>7 DEF HandlerPostsCopy
  <2>2. UNCHANGED <<heap, boxOf, stack, seen>>
    BY <1>7 DEF HandlerPostsCopy
  <2> QED
    BY <2>1, <2>2, CopyKeeps, RefusedCopyKeeps
<1>8. ASSUME NEW e \in Event, HandlerPostsBox(e) PROVE BusInv'
  BY <1>8, HandlerBoxKeeps
<1>9. ASSUME NEW e \in Event, HandlerSends(e) PROVE BusInv'
  BY <1>9, SendsKeeps
<1>10. CASE SendReturns
  BY <1>10, SendReturnKeeps
<1>11. CASE EventDone
  BY <1>11, DoneKeeps
<1>12. CASE UNCHANGED vars
  BY <1>12 DEF vars, BusInv, BusTypeOK, NestInv, OwnInv, SeenInv, Waits, Carried,
               Dispatched, Taken, Called, Content
<1> QED
  BY <1>1, <1>2, <1>3, <1>4, <1>5, <1>6, <1>7, <1>8, <1>9, <1>10, <1>11, <1>12
     DEF BusNext

LEMMA BusInvariant == BusSpec => []BusInv
<1> QED
  BY BusInitInv, BusStepInv, PTL DEF BusSpec

-----------------------------------------------------------------------------
(***************************************************************************)
(* Queue, heap, dispatches and histories keep their types and their        *)
(* bounds.                                                                 *)
(***************************************************************************)
THEOREM BusTypeCorrect == BusSpec => []BusTypeOK
<1>1. BusInv => BusTypeOK
  BY DEF BusInv
<1> QED
  BY <1>1, BusInvariant, PTL

(***************************************************************************)
(* A box that is held is held once and is alive, and without a failed post *)
(* one that is not held has been deleted: for any number of tasks, entries *)
(* and boxes, and however deep sends nest.                                 *)
(***************************************************************************)
THEOREM OwnerCorrect == BusSpec => []BoxHasOneOwner
<1>1. ASSUME BusInv PROVE BoxHasOneOwner
  <2> SUFFICES ASSUME NEW b \in Box
               PROVE  /\ \A x, y \in Holders(b) : x = y
                      /\ Holders(b) # {} => heap[b] # NoEvent
                      /\ Holders(b) = {} /\ ~failed => heap[b] = NoEvent
    BY DEF BoxHasOneOwner
  <2>1. \A d \in 1..Depth : stack[d].item = b => d = 1 /\ Dispatched(b)
    <3> SUFFICES ASSUME NEW d \in 1..Depth, stack[d].item = b
                 PROVE  d = 1 /\ Dispatched(b)
      OBVIOUS
    <3>1. b \notin Event
      BY ConstantFacts
    <3>2. d = 1
      BY <1>1, <3>1 DEF BusInv, NestInv, Depth
    <3>3. stack # <<>>
      BY <1>1, Lengths DEF BusInv, Depth
    <3> QED
      BY <3>2, <3>3 DEF Dispatched
  <2>2. \A x \in Holders(b) :
          \/ Waits(b) /\ \E i \in 1..Len(queue) : queue[i] = b /\ x = <<"slot", i>>
          \/ Carried(b) /\ \E t \in Task : boxOf[t] = b /\ x = <<"task", t>>
          \/ Dispatched(b) /\ x = <<"dispatch", 1>>
    BY <2>1 DEF Holders, Waits, Carried
  <2>3. ASSUME NEW x \in Holders(b), NEW y \in Holders(b) PROVE x = y
    <3>1. CASE Waits(b)
      <4>1. ~Carried(b) /\ ~Dispatched(b)
        BY <1>1, <3>1 DEF BusInv, OwnInv
      <4>2. PICK i \in 1..Len(queue) : queue[i] = b /\ x = <<"slot", i>>
        BY <2>2, <4>1
      <4>3. PICK j \in 1..Len(queue) : queue[j] = b /\ y = <<"slot", j>>
        BY <2>2, <4>1
      <4>4. i = j
        BY <1>1, <4>2, <4>3 DEF BusInv, OwnInv
      <4> QED
        BY <4>2, <4>3, <4>4
    <3>2. CASE Carried(b)
      <4>1. ~Waits(b) /\ ~Dispatched(b)
        BY <1>1, <3>2 DEF BusInv, OwnInv
      <4>2. PICK t \in Task : boxOf[t] = b /\ x = <<"task", t>>
        BY <2>2, <4>1
      <4>3. PICK u \in Task : boxOf[u] = b /\ y = <<"task", u>>
        BY <2>2, <4>1
      <4>4. t = u
        BY <1>1, <4>2, <4>3 DEF BusInv, OwnInv
      <4> QED
        BY <4>2, <4>3, <4>4
    <3>3. CASE ~Waits(b) /\ ~Carried(b)
      BY <2>2, <3>3
    <3> QED
      BY <3>1, <3>2, <3>3
  <2>4. Holders(b) # {} => heap[b] # NoEvent
    BY <1>1, <2>2 DEF BusInv, OwnInv
  <2>5. Holders(b) = {} => ~Waits(b) /\ ~Carried(b) /\ ~Dispatched(b)
    <3>1. ASSUME Waits(b) PROVE Holders(b) # {}
      BY <3>1 DEF Waits, Holders
    <3>2. ASSUME Carried(b) PROVE Holders(b) # {}
      BY <3>2 DEF Carried, Holders
    <3>3. ASSUME Dispatched(b) PROVE Holders(b) # {}
      <4>1. 1 \in 1..Depth /\ stack[1].item = b
        BY <1>1, <3>3, Lengths DEF Dispatched, BusInv, Depth
      <4>2. <<"dispatch", 1>> \in Holders(b)
        BY <4>1 DEF Holders
      <4> QED
        BY <4>2
    <3> QED
      BY <3>1, <3>2, <3>3
  <2> QED
    BY <1>1, <2>3, <2>4, <2>5 DEF BusInv, OwnInv
<1> QED
  BY <1>1, BusInvariant, PTL

-----------------------------------------------------------------------------
(***************************************************************************)
(* The bus keeps the promise of EventDelivery: the posts that are accepted *)
(* are its Accept, the calls of an entry in a dispatch of the loop are its *)
(* Deliver, and every other step leaves both histories alone.              *)
(***************************************************************************)
THEOREM DeliveryCorrect == BusSpec => DeliversInOrder
<1> USE DEF Delivery!DeliveryNext
<1>1. BusInit => Delivery!DeliveryInit
  BY DEF BusInit, Delivery!DeliveryInit
<1>2. BusInv /\ [BusNext]_vars => [Delivery!DeliveryNext]_(Delivery!deliveryVars)
  <2> SUFFICES ASSUME BusInv, [BusNext]_vars
               PROVE  \/ Delivery!DeliveryNext
                      \/ accepted' = accepted /\ seen' = seen
    BY DEF Delivery!deliveryVars
  <2>1. ASSUME NEW item, NEW e \in Event, Enqueue(item, e), UNCHANGED seen
        PROVE  Delivery!DeliveryNext
    <3>1. Delivery!Accept(e)
      BY <2>1 DEF Enqueue, Delivery!Accept
    <3> QED
      BY <3>1
  <2>2. ASSUME NEW t \in Task, NEW e \in Event, PostCopy(t, e)
        PROVE  Delivery!DeliveryNext
    BY <2>1, <2>2 DEF PostCopy
  <2>3. ASSUME NEW t \in Task, PostBox(t)
        PROVE  Delivery!DeliveryNext
    <3>1. heap[boxOf[t]] \in Event
      BY <2>3, HeldHasContent DEF PostBox
    <3> QED
      BY <2>1, <2>3, <3>1 DEF PostBox
  <2>4. ASSUME NEW e \in Event, HandlerPostsCopy(e) \/ HandlerPostsBox(e)
        PROVE  Delivery!DeliveryNext \/ (accepted' = accepted /\ seen' = seen)
    BY <2>1, <2>4 DEF HandlerPostsCopy, HandlerPostsBox
  <2>5. CASE CallEntry
    <3>1. CASE Depth # 1
      BY <2>5, <3>1 DEF CallEntry
    <3>2. CASE Depth = 1
      <4> DEFINE i == Top.next
      <4>1. /\ stack # <<>> /\ ~Top.inHandler /\ i <= Entries
            /\ seen' = [seen EXCEPT ![i] = Append(@, Content(Top.item))]
            /\ UNCHANGED accepted
        BY <2>5, <3>2 DEF CallEntry
      <4>2. Top = stack[1] /\ Top \in Frame /\ i \in 1..Entries
        <5>1. Top = stack[1] /\ Top \in Frame
          BY <3>2, <4>1, Lengths DEF BusInv, Top, Depth
        <5> QED
          BY <4>1, <5>1, ConstantFacts DEF Frame
      <4>3. /\ Taken > 0 /\ Content(Top.item) = accepted[Taken]
            /\ \A j \in 1..Entries : Len(seen[j]) = IF Called(j) THEN Taken ELSE Taken - 1
        BY <4>1, <4>2 DEF BusInv, SeenInv
      <4>4. \A j \in 1..Entries : Called(j) <=> j < i
        BY <4>1, <4>2 DEF Called
      <4>5. Taken \in Int /\ Taken <= Len(accepted) /\ Len(accepted) \in Nat
        BY Lengths DEF BusInv, Taken
      <4>6. Len(seen[i]) = Taken - 1
        BY <4>2, <4>3, <4>4
      <4>7. \A j \in 1..Entries :
              Len(seen[j]) = IF j < i THEN Len(seen[i]) + 1 ELSE Len(seen[i])
        <5> SUFFICES ASSUME NEW j \in 1..Entries
                     PROVE  Len(seen[j]) = IF j < i THEN Len(seen[i]) + 1 ELSE Len(seen[i])
          OBVIOUS
        <5>1. CASE j < i
          <6>1. Len(seen[j]) = Taken
            BY <4>3, <4>4, <5>1
          <6> QED
            BY <4>5, <4>6, <5>1, <6>1
        <5>2. CASE ~(j < i)
          <6>1. Len(seen[j]) = Taken - 1
            BY <4>3, <4>4, <5>2
          <6> QED
            BY <4>6, <5>2, <6>1
        <5> QED
          BY <5>1, <5>2
      <4>8. Len(seen[i]) < Len(accepted) /\ Len(seen[i]) + 1 = Taken
        BY <4>5, <4>6
      <4>9. seen' = [seen EXCEPT ![i] = Append(@, accepted[Len(@) + 1])]
        BY <4>1, <4>3, <4>8
      <4>10. Delivery!Deliver(i)
        BY <4>1, <4>7, <4>8, <4>9 DEF Delivery!Deliver, Delivery!NextInLine
      <4> QED
        BY <4>2, <4>10
    <3> QED
      BY <3>1, <3>2
  <2> QED
    BY <2>2, <2>3, <2>4, <2>5 DEF BusNext, FillBox, Take, EntryReturns, HandlerSends,
                                  SendReturns, EventDone, vars
<1> QED
  BY <1>1, <1>2, BusInvariant, PTL DEF BusSpec, DeliversInOrder, Delivery!DeliverySpec

-----------------------------------------------------------------------------
(* The queue and the event of the loop, as the services see them. *)
LoopQueue == [i \in 1..Len(queue) |-> Content(queue[i])]
LoopCurrent == IF stack = <<>> THEN NoEvent ELSE Content(stack[1].item)

LEMMA LoopQueueIsSeq ==
  ASSUME BusInv
  PROVE  /\ LoopQueue \in Seq(Event) /\ Len(LoopQueue) = Len(queue)
         /\ \A i \in 1..Len(queue) : LoopQueue[i] = Content(queue[i])
<1>1. Len(queue) \in Nat
  BY Lengths DEF BusInv
<1>2. \A i \in 1..Len(queue) : Content(queue[i]) \in Event
  BY HeldHasContent
<1>3. LoopQueue \in Seq(Event)
  BY <1>1, <1>2 DEF LoopQueue
<1>4. DOMAIN LoopQueue = 1..Len(queue)
  BY DEF LoopQueue
<1>5. Len(LoopQueue) = Len(queue)
  BY <1>1, <1>3, <1>4, LenProperties
<1> QED
  BY <1>3, <1>5 DEF LoopQueue

(* What the loop's queue becomes when the bus takes an item holding e. *)
LEMMA LoopQueueGrows ==
  ASSUME BusInv, BusInv', NEW item \in Item, NEW e \in Event, Enqueue(item, e),
         (IF item \in Box THEN heap'[item] ELSE item) = e,
         \A b \in Box : Waits(b) => heap'[b] = heap[b]
  PROVE  LoopQueue' = Append(LoopQueue, e)
<1>1. /\ Len(queue) \in Nat /\ Len(queue') = Len(queue) + 1
      /\ \A i \in 1..Len(queue) : queue'[i] = queue[i]
      /\ queue'[Len(queue) + 1] = item
  BY EnqueueFacts, Lengths DEF BusInv
<1>2. /\ LoopQueue \in Seq(Event) /\ Len(LoopQueue) = Len(queue)
      /\ \A i \in 1..Len(queue) : LoopQueue[i] = Content(queue[i])
  BY LoopQueueIsSeq
<1>3. LoopQueue' \in Seq(Event) /\ Len(LoopQueue') = Len(queue')
  <2>1. Len(queue') \in Nat /\ \A i \in 1..Len(queue') : Content(queue[i])' \in Event
    <3>1. ASSUME NEW i \in 1..Len(queue') PROVE Content(queue[i])' \in Event
      <4>1. CASE i \in 1..Len(queue)
        <5>1. Content(queue[i])' = Content(queue[i])
          BY <1>1, <4>1 DEF Content, Waits
        <5> QED
          BY <4>1, <5>1, HeldHasContent
      <4>2. CASE i = Len(queue) + 1
        BY <1>1, <4>2 DEF Content
      <4> QED
        BY <1>1, <4>1, <4>2
    <3> QED
      BY <1>1, <3>1
  <2>2. LoopQueue' \in Seq(Event)
    BY <2>1 DEF LoopQueue
  <2>3. DOMAIN LoopQueue' = 1..Len(queue')
    BY DEF LoopQueue
  <2> QED
    BY <2>1, <2>2, <2>3, LenProperties
<1>4. /\ Append(LoopQueue, e) \in Seq(Event)
      /\ Len(Append(LoopQueue, e)) = Len(queue) + 1
      /\ \A i \in 1..Len(queue) : Append(LoopQueue, e)[i] = Content(queue[i])
      /\ Append(LoopQueue, e)[Len(queue) + 1] = e
  BY <1>2, AppendProperties
<1>5. ASSUME NEW i \in 1..Len(queue') PROVE LoopQueue'[i] = Append(LoopQueue, e)[i]
  <2>1. LoopQueue'[i] = Content(queue[i])'
    BY DEF LoopQueue
  <2>2. CASE i \in 1..Len(queue)
    <3>1. Content(queue[i])' = Content(queue[i])
      BY <1>1, <2>2 DEF Content, Waits
    <3> QED
      BY <1>4, <2>1, <2>2, <3>1
  <2>3. CASE i = Len(queue) + 1
    <3>1. Content(queue[i])' = e
      BY <1>1, <2>3 DEF Content
    <3> QED
      BY <1>4, <2>1, <2>3, <3>1
  <2>4. i \in 1..Len(queue) \/ i = Len(queue) + 1
    BY <1>1
  <2> QED
    BY <2>2, <2>3, <2>4
<1> QED
  BY <1>1, <1>3, <1>4, <1>5, SeqEqual

(* A step that leaves the waiting boxes alone leaves the loop's queue alone. *)
LEMMA LoopQueueStays ==
  ASSUME UNCHANGED queue, \A b \in Box : Waits(b) => heap'[b] = heap[b]
  PROVE  LoopQueue' = LoopQueue
<1>1. \A i \in 1..Len(queue) : Content(queue[i])' = Content(queue[i])
  BY DEF Content, Waits
<1> QED
  BY <1>1 DEF LoopQueue

(***************************************************************************)
(* The bus is the loop the services are modelled on (SystemLoop): a post   *)
(* of a task waits for room, one of a handler fails without it, the loop   *)
(* takes the oldest event when it has none.                                *)
(***************************************************************************)
THEOREM LoopCorrect == BusSpec => ImplementsSystemLoop
<1> DEFINE LoopStep == \/ Loop!LoopNext(Event)
                       \/ LoopQueue' = LoopQueue /\ LoopCurrent' = LoopCurrent /\ failed' = failed
<1>1. BusInit => Loop!LoopInit(<<>>)
  BY DEF BusInit, Loop!LoopInit
<1>2. BusInv /\ BusInv' /\ [BusNext]_vars => [Loop!LoopNext(Event)]_(Loop!loopVars)
  <2> SUFFICES ASSUME BusInv, BusInv', [BusNext]_vars
               PROVE  LoopStep
    BY DEF Loop!loopVars, LoopQueue, LoopCurrent
  <2>1. /\ Len(LoopQueue) = Len(queue) /\ LoopQueue \in Seq(Event)
        /\ \A i \in 1..Len(queue) : LoopQueue[i] = Content(queue[i])
    BY LoopQueueIsSeq
  <2>2. Loop!HasRoom <=> HasRoom
    BY <2>1 DEF Loop!HasRoom, HasRoom, LoopQueue
  <2>3. stack # <<>> => LoopCurrent # NoEvent
    <3>1. ASSUME stack # <<>> PROVE Content(stack[1].item) # NoEvent
      <4>1. 1 \in 1..Len(stack)
        BY <3>1, Lengths DEF BusInv
      <4> QED
        BY <4>1, HeldHasContent, ConstantFacts
    <3> QED
      BY <3>1 DEF LoopCurrent
  <2>4. UNCHANGED <<stack, heap>> => LoopCurrent' = LoopCurrent
    BY DEF LoopCurrent, Content
  <2>5. \A b \in Box : heap[b] = NoEvent => ~Waits(b) /\ ~Dispatched(b)
    BY DEF BusInv, OwnInv
  <2>6. ASSUME NEW e \in Event, HasRoom, LoopQueue' = Append(LoopQueue, e),
               LoopCurrent' = LoopCurrent, failed' = failed
        PROVE  LoopStep
    <3>1. Loop!Post(e)
      BY <2>2, <2>6 DEF Loop!Post, LoopQueue, LoopCurrent
    <3> QED
      BY <3>1 DEF Loop!LoopNext
  <2>7. ASSUME NEW t \in Task, NEW e \in Event, PostCopy(t, e) PROVE LoopStep
    <3>1. e \in Item /\ e \notin Box
      BY ConstantFacts DEF Item
    <3>2. Enqueue(e, e) /\ HasRoom /\ UNCHANGED <<heap, stack, failed>>
      BY <2>7 DEF PostCopy, Enqueue
    <3> QED
      BY <2>4, <2>6, <3>1, <3>2, LoopQueueGrows
  <2>8. ASSUME NEW t \in Task, PostBox(t) PROVE LoopStep
    <3>1. /\ boxOf[t] \in Box /\ boxOf[t] \in Item /\ heap[boxOf[t]] \in Event
      BY <2>8, HeldHasContent DEF PostBox, Item
    <3>2. Enqueue(boxOf[t], heap[boxOf[t]]) /\ HasRoom /\ UNCHANGED <<heap, stack, failed>>
      BY <2>8 DEF PostBox, Enqueue
    <3> QED
      BY <2>4, <2>6, <3>1, <3>2, LoopQueueGrows
  <2>9. ASSUME NEW t \in Task, NEW e \in Event, FillBox(t, e) PROVE LoopStep
    <3>1. PICK b \in Box : heap[b] = NoEvent /\ heap' = [heap EXCEPT ![b] = e]
      BY <2>9 DEF FillBox
    <3>2. UNCHANGED <<queue, stack, failed>>
      BY <2>9 DEF FillBox
    <3>3. \A c \in Box : c # b => heap'[c] = heap[c]
      BY <3>1 DEF BusInv, BusTypeOK
    <3>4. LoopQueue' = LoopQueue
      BY <2>5, <3>1, <3>2, <3>3, LoopQueueStays
    <3>5. LoopCurrent' = LoopCurrent
      BY <2>5, <3>1, <3>2, <3>3 DEF LoopCurrent, Content, Dispatched
    <3> QED
      BY <3>2, <3>4, <3>5
  <2>10. CASE Take
    <3>1. /\ stack = <<>> /\ queue # <<>>
          /\ stack' = <<NewFrame(Head(queue))>> /\ queue' = Tail(queue)
          /\ UNCHANGED <<heap, failed>>
      BY <2>10 DEF Take
    <3>2. /\ Len(queue) \in Nat /\ Len(queue) > 0 /\ queue \in Seq(Item)
      BY <3>1, Lengths DEF BusInv
    <3>3. LoopQueue # <<>>
      BY <2>1, <3>2, EmptySeq
    <3>4. /\ Head(queue) = queue[1] /\ Len(queue') = Len(queue) - 1
          /\ \A i \in 1..Len(queue') : queue'[i] = queue[i + 1]
      BY <3>1, <3>2, HeadTailProperties
    <3>5. /\ Head(LoopQueue) = LoopQueue[1]
          /\ Tail(LoopQueue) \in Seq(Event) /\ Len(Tail(LoopQueue)) = Len(queue) - 1
          /\ \A i \in 1..(Len(queue) - 1) : Tail(LoopQueue)[i] = LoopQueue[i + 1]
      BY <2>1, <3>3, HeadTailProperties
    <3>6. LoopCurrent = NoEvent
      BY <3>1 DEF LoopCurrent
    <3>7. LoopCurrent' = Head(LoopQueue)
      <4>1. stack' # <<>> /\ stack'[1].item = queue[1]
        BY <3>1, <3>4 DEF NewFrame
      <4>2. LoopQueue[1] = Content(queue[1])
        BY <2>1, <3>2
      <4> QED
        BY <3>1, <3>5, <4>1, <4>2 DEF LoopCurrent, Content
    <3>8. LoopQueue' = Tail(LoopQueue)
      <4>1. ASSUME NEW i \in 1..Len(queue') PROVE Content(queue[i])' = Tail(LoopQueue)[i]
        <5>1. i + 1 \in 1..Len(queue) /\ i \in 1..(Len(queue) - 1)
          BY <3>2, <3>4
        <5>2. Content(queue[i])' = Content(queue[i + 1])
          BY <3>1, <3>4 DEF Content
        <5> QED
          BY <2>1, <3>5, <5>1, <5>2
      <4>2. Tail(LoopQueue) = [i \in 1..Len(queue') |-> Tail(LoopQueue)[i]]
        BY <3>4, <3>5, LenProperties
      <4> QED
        BY <4>1, <4>2 DEF LoopQueue
    <3>9. Loop!Take
      BY <3>1, <3>3, <3>6, <3>7, <3>8 DEF Loop!Take, LoopQueue, LoopCurrent
    <3> QED
      BY <3>9 DEF Loop!LoopNext
  <2>11. CASE CallEntry \/ EntryReturns
    <3>1. UNCHANGED <<queue, heap, failed>> /\ stack # <<>>
      BY <2>11 DEF CallEntry, EntryReturns
    <3>2. stack' # <<>> /\ stack'[1].item = stack[1].item
      BY <2>11, TopKeepsItem
    <3> QED
      BY <3>1, <3>2, LoopQueueStays DEF LoopCurrent, Content
  <2>12. ASSUME stack # <<>>, LoopCurrent' \in {LoopCurrent, NoEvent},
                \/ \E e \in Event : HasRoom /\ LoopQueue' = Append(LoopQueue, e)
                                    /\ failed' = failed
                \/ ~HasRoom /\ LoopQueue' = LoopQueue /\ failed' = TRUE /\ Event # {}
                \/ LoopQueue' = LoopQueue /\ failed' = failed
         PROVE  LoopStep
    <3>1. ASSUME NEW e \in Event
          PROVE  /\ HasRoom /\ LoopQueue' = Append(LoopQueue, e) /\ failed' = failed =>
                      Loop!PostFromLoop(e)
                 /\ ~HasRoom /\ LoopQueue' = LoopQueue /\ failed' = TRUE =>
                      Loop!PostFromLoop(e)
      BY <2>2 DEF Loop!PostFromLoop, LoopQueue
    <3>2. Loop!HandlerStep(Event)
      BY <2>3, <2>12, <3>1 DEF Loop!HandlerStep, LoopQueue, LoopCurrent
    <3> QED
      BY <3>2 DEF Loop!LoopNext
  <2>13. ASSUME NEW e \in Event, HandlerPostsCopy(e) PROVE LoopStep
    <3>1. e \in Item /\ e \notin Box
      BY ConstantFacts DEF Item
    <3>2. stack # <<>> /\ UNCHANGED <<heap, stack>>
      BY <2>13 DEF HandlerPostsCopy
    <3>3. CASE Enqueue(e, e) /\ UNCHANGED failed
      <4>1. HasRoom /\ LoopQueue' = Append(LoopQueue, e)
        BY <3>1, <3>2, <3>3, LoopQueueGrows DEF Enqueue
      <4> QED
        BY <2>4, <2>12, <3>2, <3>3, <4>1
    <3>4. CASE ~HasRoom /\ failed' = TRUE /\ UNCHANGED queue
      <4>1. LoopQueue' = LoopQueue
        BY <3>2, <3>4, LoopQueueStays
      <4> QED
        BY <2>4, <2>12, <3>2, <3>4, <4>1
    <3> QED
      BY <2>13, <3>3, <3>4 DEF HandlerPostsCopy
  <2>14. ASSUME NEW e \in Event, HandlerPostsBox(e) PROVE LoopStep
    <3>1. PICK b \in Box :
            /\ heap[b] = NoEvent
            /\ heap' = [heap EXCEPT ![b] = e]
            /\ \/ Enqueue(b, e) /\ UNCHANGED failed
               \/ ~HasRoom /\ failed' = TRUE /\ UNCHANGED <<queue, accepted>>
      BY <2>14 DEF HandlerPostsBox
    <3>2. stack # <<>> /\ UNCHANGED stack
      BY <2>14 DEF HandlerPostsBox
    <3>3. \A c \in Box : heap'[c] = IF c = b THEN e ELSE heap[c]
      BY <3>1 DEF BusInv, BusTypeOK
    <3>4. /\ b \in Item /\ ~Waits(b) /\ ~Dispatched(b)
          /\ \A c \in Box : Waits(c) => heap'[c] = heap[c]
      BY <2>5, <3>1, <3>3 DEF Item
    <3>5. LoopCurrent' = LoopCurrent
      BY <3>2, <3>3, <3>4 DEF LoopCurrent, Content, Dispatched
    <3>6. CASE Enqueue(b, e) /\ UNCHANGED failed
      <4>1. HasRoom /\ LoopQueue' = Append(LoopQueue, e)
        BY <3>3, <3>4, <3>6, LoopQueueGrows DEF Enqueue
      <4> QED
        BY <2>12, <3>2, <3>5, <3>6, <4>1
    <3>7. CASE ~HasRoom /\ failed' = TRUE /\ UNCHANGED queue
      <4>1. LoopQueue' = LoopQueue
        BY <3>4, <3>7, LoopQueueStays
      <4> QED
        BY <2>12, <3>2, <3>5, <3>7, <4>1
    <3> QED
      BY <3>1, <3>6, <3>7
  <2>15. ASSUME NEW e \in Event, HandlerSends(e) PROVE LoopStep
    <3>1. /\ stack # <<>> /\ stack' = Append(stack, NewFrame(e))
          /\ UNCHANGED <<queue, heap, failed>>
      BY <2>15 DEF HandlerSends
    <3>2. stack \in Seq(Frame) /\ 1 \in 1..Len(stack)
      BY <3>1, Lengths DEF BusInv
    <3>3. NewFrame(e) \in Frame
      BY ConstantFacts DEF NewFrame, Frame
    <3>4. stack' # <<>> /\ stack'[1] = stack[1]
      BY <3>1, <3>2, <3>3, AppendProperties
    <3> QED
      BY <3>1, <3>4, LoopQueueStays DEF LoopCurrent, Content
  <2>16. CASE SendReturns
    <3>1. UNCHANGED <<queue, heap, failed>> /\ stack # <<>>
      BY <2>16, Lengths DEF SendReturns, Depth, BusInv
    <3>2. stack' # <<>> /\ stack'[1] = stack[1]
      BY <2>16, SendReturnsKeepsFirst
    <3> QED
      BY <3>1, <3>2, LoopQueueStays DEF LoopCurrent, Content
  <2>17. CASE EventDone
    <3>1. stack # <<>> /\ stack' = <<>> /\ UNCHANGED <<queue, failed>>
      BY <2>17, Lengths DEF EventDone, Depth, BusInv
    <3>2. \A b \in Box : heap'[b] = IF stack[1].item = b THEN NoEvent ELSE heap[b]
      BY <2>17 DEF EventDone, Top, BusInv, BusTypeOK
    <3>3. \A b \in Box : Waits(b) => stack[1].item # b
      BY <3>1 DEF BusInv, OwnInv, Dispatched
    <3>4. LoopQueue' = LoopQueue
      BY <3>1, <3>2, <3>3, LoopQueueStays
    <3>5. LoopCurrent' = NoEvent
      BY <3>1 DEF LoopCurrent
    <3> QED
      BY <2>12, <3>1, <3>4, <3>5
  <2>18. CASE UNCHANGED vars
    <3>1. UNCHANGED <<queue, heap, stack, failed>>
      BY <2>18 DEF vars
    <3> QED
      BY <2>4, <3>1, LoopQueueStays
  <2> QED
    BY <2>7, <2>8, <2>9, <2>10, <2>11, <2>13, <2>14, <2>15, <2>16, <2>17, <2>18
       DEF BusNext
<1> QED
  BY <1>1, <1>2, BusInvariant, PTL DEF BusSpec, ImplementsSystemLoop

=============================================================================
