---------------------------- MODULE MCMqttRouting ----------------------------
(* MqttRouting with short topics, for TLC. *)
EXTENDS MqttRouting, SequencesExt

MCChar == {"/", "+", "#", "a", "b", "p", "q"}

(* A path of each form: plain ones that differ in the first or in the last *)
(* character of a level, and each wildcard in the middle and at the end.   *)
MCPath ==
  { <<"/", "a">>, <<"/", "a", "b">>, <<"/", "+">>, <<"/", "#">>,
    <<"/", "+", "/", "a">>, <<"/", "a", "/", "p">> }

MCPrefix == <<"/", "p">>
MCBroadcast == <<"/", "q">>

(* One or two levels, the empty one among them, or three plain ones. *)
MCLevel == {<<>>, <<"a">>, <<"p">>, <<"a", "b">>}
MCTopic ==
  {FoldLeft(LAMBDA t, l : t \o <<"/">> \o l, <<>>, ls) :
     ls \in UNION {[1..n -> MCLevel] : n \in 1..2} \cup [1..3 -> {<<"a">>, <<"p">>}]}

(* Nothing, one more character of the last level, a level, a wildcard. *)
MCStray == {<<>>, <<"b">>, <<"/", "a">>, <<"+">>}
=============================================================================
