--------------------------- MODULE MCMqttMessages ---------------------------
(* MqttMessages with few topics and short messages, for TLC. *)
EXTENDS MqttMessages, TLC

(* The code treats all topics alike. *)
TopicSymmetry == Permutations(TopicName)
=============================================================================
