--------------------------- MODULE MCMqttService ---------------------------
(* Small instances of MqttService for TLC. *)
EXTENDS MqttService, TLC

(* The code treats all handles alike; used by the runs of invariants only. *)
HandleSymmetry == Permutations(Handle)

(* AttemptNeverLost and ConnectionRecovers say nothing of a behaviour in which *)
(* the loop has lost a post.  The runs about them end it with that post, which *)
(* leaves time for a longer queue.                                             *)
NextWithRoom == MqttNext /\ ~dropped

RoomSpec == MqttInit /\ [][NextWithRoom]_vars

(* The run about recovery starts with credentials and a broker address, without *)
(* which ConnectionRecovers says nothing.  The bit of the main task, which only *)
(* publishers read, is set from the start.                                      *)
RecoveryInit == MqttInit /\ configured /\ hasUri /\ setupDone

(* Its bounds: it stops short of a misused handle; from the first overlap of    *)
(* two calls of connect() on, which may leave a second client to the end, one   *)
(* event waits at a time; and the memory of a freed handle is given out again.  *)
OneWaitsAfterOverlap == overlapped => Len(queue) <= 1

FreedIsReused ==
  LET first == CHOOSE h \in Handle : TRUE
  IN  status[first] = "free" => \A h \in Handle \ {first} :
                                  status[h] = "free" => status'[h] = "free"

RecoveryNext ==
  NextWithRoom /\ Running' /\ OneWaitsAfterOverlap' /\ FreedIsReused

RecoverySpec == RecoveryInit /\ [][RecoveryNext]_vars /\ MqttFairness

=============================================================================
