----------------------------- MODULE MqttTopics -----------------------------
(***************************************************************************)
(* Topics of MqttService (src/system/mqtt/MqttService.cpp): the full path  *)
(* of a consumer, the comparison of a path with the topic of a message,    *)
(* and what the broker does with the same path (the MQTT standard).  A     *)
(* topic is a sequence of characters; "/" ends a level.                    *)
(***************************************************************************)
EXTENDS Naturals, Sequences

CONSTANTS
  Prefix,    (* _prefix, "/user/" and the client id     *)
  Broadcast  (* _broadcast, "/broadcast/" and the home *)

SubType == {"relative", "broadcast", "suffix"}

(* _generateFullTopic().  The case of a broadcast consumer has no break and *)
(* goes on into that of the suffix.                                         *)
FullTopic(topic, type) ==
  CASE type = "relative" -> Prefix \o topic
    [] type \in {"broadcast", "suffix"} -> topic \o Prefix

-----------------------------------------------------------------------------
(* compareTopics(): topic is the consumer's full path, origin the message's. *)

(* Mutant: a "+" at the end does not match an empty level. *)
ReachedEndsExactly(topic, i, origin, j) == i > Len(topic) /\ j > Len(origin)

(* After the loop: both iterators at the end, a last "+" aside. *)
ReachedEnds(topic, i, origin, j) ==
  /\ i > Len(topic) \/ (i = Len(topic) /\ topic[i] = "+")
  /\ j > Len(origin)

(* Mutant: a character is not compared with its counterpart. *)
SameCharOrAny(topic, i, origin, j) == topic[i] \notin {"+", "#"}

(* Anywhere but after a slash: a wildcard is refused, the rest must be equal. *)
SameChar(topic, i, origin, j) == topic[i] \notin {"+", "#"} /\ topic[i] = origin[j]

(* Where the iterators are, and whether the state is State::Slash; it may step *)
(* over an end() it then compares with.                                        *)
Places(topic, origin) ==
  [i : 1..(Len(topic) + 2), j : 1..(Len(origin) + 2), slash : BOOLEAN]
Place(i, j, slash) == [i |-> i, j |-> j, slash |-> slash]

(* The loop from place p, given what comes of the places after it.  What is *)
(* read past an end, and so the outcome, is undefined.                      *)
Verdict(topic, origin, from, p) ==
  LET m == Len(topic)
      n == Len(origin)
      i == p.i
      j == p.j
  IN  IF i > m + 1 \/ j > n + 1 THEN "undefined"
      ELSE IF i = m + 1 \/ j = n + 1
        THEN IF ReachedEnds(topic, i, origin, j) THEN "yes" ELSE "no"
      ELSE IF ~p.slash
        THEN IF SameChar(topic, i, origin, j)
             THEN from[Place(i + 1, j + 1, topic[i] = "/")] ELSE "no"
      ELSE CASE topic[i] = "#" /\ origin[j] = "/" -> "no"
             [] topic[i] = "#" /\ origin[j] # "/" ->
                  from[Place(IF j = n THEN i + 1 ELSE i, j + 1, TRUE)]
             [] topic[i] = "+" /\ origin[j] = "/" -> from[Place(i + 2, j + 1, TRUE)]
             [] topic[i] = "+" /\ origin[j] # "/" -> from[Place(i, j + 1, TRUE)]
             [] topic[i] = "/" -> from[Place(i + 1, j + 2, FALSE)]
             [] OTHER -> from[Place(i + 1, j + 1, FALSE)]

CompareTopics(topic, origin) ==
  LET from[p \in Places(topic, origin)] == Verdict(topic, origin, from, p)
  IN  from[Place(1, 1, FALSE)]

-----------------------------------------------------------------------------
(* The broker. *)

(* One more character of a topic: another level, or one more of the last. *)
Extend(levels, c) ==
  IF c = "/" THEN Append(levels, <<>>)
  ELSE [levels EXCEPT ![Len(levels)] = Append(@, c)]

Levels(s) ==
  LET upTo[k \in 0..Len(s)] == IF k = 0 THEN << <<>> >> ELSE Extend(upTo[k - 1], s[k])
  IN  upTo[Len(s)]

(* A subscription to filter gets messages of topic. *)
Matches(filter, topic) ==
  LET F == Levels(filter)
      T == Levels(topic)
      SameUpTo(k) == k <= Len(T) /\ \A l \in 1..k : F[l] \in {<<"+">>, T[l]}
  IN  \/ Len(F) = Len(T) /\ SameUpTo(Len(F))
      \/ F[Len(F)] = <<"#">> /\ SameUpTo(Len(F) - 1)

(* A filter the broker accepts: a "+" is a level of its own. *)
PlusIsLevel(filter) ==
  \A i \in 1..Len(filter) :
    filter[i] = "+" => /\ i = 1 \/ filter[i - 1] = "/"
                       /\ i = Len(filter) \/ filter[i + 1] = "/"

EmptyLevel(filter) == \E k \in 2..Len(Levels(filter)) : Levels(filter)[k] = <<>>

=============================================================================
