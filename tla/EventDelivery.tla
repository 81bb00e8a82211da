--------------------------- MODULE EventDelivery ---------------------------
(***************************************************************************)
(* What the event bus promises, whatever carries it out: every event that  *)
(* post() has accepted is handed to every entry of the subscriber list     *)
(* exactly once, in the order of acceptance, and no entry gets an event    *)
(* before all of them have got the one before.                             *)
(***************************************************************************)
EXTENDS Naturals, Sequences

CONSTANTS
  Event,   (* what can be posted                  *)
  Entries  (* length of the subscriber list       *)

VARIABLES
  accepted, (* events accepted by post(), in order *)
  seen      (* of each entry: the events it was handed, in order *)

deliveryVars == <<accepted, seen>>

DeliveryInit ==
  /\ accepted = <<>>
  /\ seen = [i \in 1..Entries |-> <<>>]

Accept(e) ==
  /\ accepted' = Append(accepted, e)
  /\ UNCHANGED seen

(* Entry i is the next in line: those before it have got one event more. *)
NextInLine(i) ==
  \A j \in 1..Entries :
    Len(seen[j]) = IF j < i THEN Len(seen[i]) + 1 ELSE Len(seen[i])

Deliver(i) ==
  /\ NextInLine(i)
  /\ Len(seen[i]) < Len(accepted)
  /\ seen' = [seen EXCEPT ![i] = Append(@, accepted[Len(@) + 1])]
  /\ UNCHANGED accepted

DeliveryNext ==
  \/ \E e \in Event : Accept(e)
  \/ \E i \in 1..Entries : Deliver(i)

DeliverySpec == DeliveryInit /\ [][DeliveryNext]_deliveryVars

(* What was accepted is delivered in the end. *)
DeliveryFairness == WF_deliveryVars(\E i \in 1..Entries : Deliver(i))

=============================================================================
