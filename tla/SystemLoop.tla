----------------------------- MODULE SystemLoop -----------------------------
(***************************************************************************)
(* The default event loop, task "sys_evt", as the services see it through  *)
(* EspEventBus (src/EventBus.h).  One task takes events from one bounded   *)
(* queue, oldest first, and runs the handlers of an event to their end     *)
(* before it takes the next one.                                           *)
(*                                                                         *)
(* The queue itself belongs to esp_event, outside this repository.  What   *)
(* the code relies on is modelled: post() passes portMAX_DELAY, so another *)
(* task waits until there is room; the loop's own task cannot wait for     *)
(* itself, so its post to a full queue fails at once, which is the         *)
(* "Post event bus failed" branch.  No caller looks at post()'s result.    *)
(***************************************************************************)
EXTENDS Naturals, Sequences

CONSTANTS
  QueueSize,  (* events the queue holds (64 in the example's sdkconfig)  *)
  NoEvent     (* the loop is between two events                          *)

ASSUME QueueSizeAssumption == QueueSize \in Nat \ {0}

VARIABLES
  queue,      (* events posted and not yet taken, oldest first           *)
  current,    (* the event whose handlers run, or NoEvent                *)
  dropped     (* some post made by the loop's own task has failed        *)

loopVars == <<queue, current, dropped>>

LoopInit(events) ==
  /\ queue = events
  /\ current = NoEvent
  /\ dropped = FALSE

HasRoom == Len(queue) < QueueSize

(* A task other than sys_evt posts: it goes on once there is room. *)
Post(e) ==
  /\ HasRoom
  /\ queue' = Append(queue, e)
  /\ UNCHANGED <<current, dropped>>

(* Mutant: the loop's own post ignores the limit of the queue. *)
PostFromLoopUnchecked(e) == queue' = Append(queue, e) /\ UNCHANGED dropped

(* A handler posts: the event is lost when the queue is full. *)
PostFromLoop(e) ==
  IF HasRoom
  THEN queue' = Append(queue, e) /\ UNCHANGED dropped
  ELSE dropped' = TRUE /\ UNCHANGED queue

(* The loop takes the oldest event; its slot is free before the handlers run. *)
Take ==
  /\ current = NoEvent
  /\ queue # <<>>
  /\ current' = Head(queue)
  /\ queue' = Tail(queue)
  /\ UNCHANGED dropped

(* The last handler of the current event returns. *)
Done == current' = NoEvent

(* A handler's step: it may post, and it may be the last of its event. *)
HandlerStep(E) ==
  /\ current # NoEvent
  /\ \/ \E e \in E : PostFromLoop(e)
     \/ UNCHANGED <<queue, dropped>>
  /\ current' \in {current, NoEvent}

(* The loop as such, for events in E: what the bus provides (EventBus) and *)
(* what every service relies on (WifiService, MqttService).                *)
LoopNext(E) == (\E e \in E : Post(e)) \/ Take \/ HandlerStep(E)

-----------------------------------------------------------------------------
(* What a queue still holds, for the properties of the services. *)

(* q holds no event of kind K. *)
NonePending(q, K) == \A i \in 1..Len(q) : q[i] \notin K

(* The youngest event of kind K in q is e. *)
Latest(q, K, e) ==
  \E i \in 1..Len(q) :
    /\ q[i] = e
    /\ \A j \in 1..Len(q) : j > i => q[j] \notin K

=============================================================================
