----------------------------- MODULE MqttRouting -----------------------------
(***************************************************************************)
(* The consumers of MqttService (src/system/mqtt): registration, from any  *)
(* task; subscription, on the task of the client when it has connected, or *)
(* on the registering task when that has happened once; and the choice of  *)
(* the consumers a message goes to.                                        *)
(*                                                                         *)
(* The broker is external: it forgets the subscriptions with a connection  *)
(* and sends what matches one of them.                                     *)
(***************************************************************************)
EXTENDS MqttTopics, FiniteSets

CONSTANTS
  Char,        (* the characters of topics                 *)
  Path,        (* topics consumers are registered with     *)
  Topic,       (* topics messages are published to         *)
  Stray,       (* what may be read behind the end of one   *)
  None,        (* no consumer, no message                  *)
  MaxHandlers  (* bound: entries of _handlers              *)

Handler == [topic : Path, type : SubType]

(* The MQTT standard, which the broker enforces: a message's topic has no *)
(* wildcards, and a "+" of a path is a level of its own.                  *)
ASSUME RoutingAssumption ==
  /\ MaxHandlers \in Nat \ {0} /\ None \notin Handler \cup Topic
  /\ <<>> \in Stray /\ \A b \in Stray : b \in Seq(Char)
  /\ Prefix \in Seq(Char) /\ \A p \in Path : p \in Seq(Char)
  /\ \A t \in Topic : t \in Seq(Char \ {"+", "#"})
  /\ \A h \in Handler : PlusIsLevel(FullTopic(h.topic, h.type))

VARIABLES
  handlers,    (* _handlers                                                 *)
  subscribed,  (* _subscribed                                               *)
  registering, (* the consumer between emplace() and the test of _subscribed *)
  link,        (* the client's task: "down", "subscribing" or "up"          *)
  visit,       (* the entries its iteration has still to come to            *)
  subs,        (* what the broker holds for this connection                 *)
  missed,      (* history: consumers whose test came during the iteration   *)
               (* of the first connection, or whose subscription failed     *)
  message,     (* the topic of the last message, or None                    *)
  read,        (* what currentTopic held then: that topic as it was read    *)
  handled      (* the consumers it was given to                             *)

routingVars == <<handlers, subscribed, registering, link, visit, subs, missed, message, read, handled>>

(* What the topic of a message may be read as: rawTopic has no terminator. *)
Readings(t) == {t \o b : b \in Stray}

(* Asked for only after connect() has set _prefix. *)
FullPath(h) == FullTopic(h.topic, h.type)

(* _handlers is a map: a topic is the key of one entry. *)
RoutingTypeOK ==
  /\ handlers \subseteq Handler
  /\ \A g, h \in handlers : g.topic = h.topic => g = h
  /\ subscribed \in BOOLEAN
  /\ registering \in handlers \cup {None}
  /\ link \in {"down", "subscribing", "up"}
  /\ visit \subseteq handlers
  /\ subs \subseteq {FullPath(h) : h \in handlers}
  /\ missed \subseteq handlers
  /\ message \in Topic \cup {None}
  /\ IF message = None THEN read = <<>> ELSE read \in Readings(message)
  /\ handled \subseteq handlers

RoutingInit ==
  /\ handlers = {}
  /\ subscribed = FALSE
  /\ registering = None
  /\ link = "down"
  /\ visit = {}
  /\ subs = {}
  /\ missed = {}
  /\ message = None
  /\ read = <<>>
  /\ handled = {}

-----------------------------------------------------------------------------
(* registerEventConsumer(). *)

(* Mutant: the key is the full path. *)
RegisterByPath(h) ==
  /\ registering = None
  /\ \A g \in handlers : FullPath(g) # FullPath(h)
  /\ handlers' = handlers \cup {h}
  /\ visit' \in {visit} \cup (IF link = "subscribing" THEN {visit \cup {h}} ELSE {})
  /\ registering' = h
  /\ message' = None
  /\ read' = <<>>
  /\ handled' = {}
  /\ UNCHANGED <<subscribed, link, subs, missed>>

(* A new key.  The iteration of the client's task may have passed its place; *)
(* the last message is forgotten, it was not for this consumer.              *)
Register(h) ==
  /\ registering = None
  /\ \A g \in handlers : g.topic # h.topic
  /\ handlers' = handlers \cup {h}
  /\ visit' \in {visit} \cup (IF link = "subscribing" THEN {visit \cup {h}} ELSE {})
  /\ registering' = h
  /\ message' = None
  /\ read' = <<>>
  /\ handled' = {}
  /\ UNCHANGED <<subscribed, link, subs, missed>>

(* Mutant: only the client's task subscribes. *)
LeaveToClient ==
  /\ registering # None
  /\ missed' = IF link = "subscribing" THEN missed \cup {registering} ELSE missed
  /\ registering' = None
  /\ UNCHANGED <<handlers, subscribed, link, visit, subs, message, read, handled>>

(* esp_mqtt_client_subscribe() for h, which may fail: _subscribe() ignores that. *)
Subscribe(h) ==
  \/ subs' = subs \cup {FullPath(h)} /\ UNCHANGED missed
  \/ missed' = missed \cup {h} /\ UNCHANGED subs

(* The test of _subscribed; without a connection the subscription fails. *)
SubscribeLate ==
  /\ registering # None
  /\ CASE subscribed /\ link # "down" -> Subscribe(registering)
       [] subscribed /\ link = "down" -> UNCHANGED <<subs, missed>>
       [] OTHER ->
            /\ missed' = IF link = "subscribing" THEN missed \cup {registering} ELSE missed
            /\ UNCHANGED subs
  /\ registering' = None
  /\ UNCHANGED <<handlers, subscribed, link, visit, message, read, handled>>

-----------------------------------------------------------------------------
(* The client's task. *)

(* MQTT_EVENT_CONNECTED: eventHandlerConnect() begins. *)
Connects ==
  /\ link = "down"
  /\ link' = "subscribing"
  /\ visit' = handlers
  /\ missed' = {}
  /\ UNCHANGED <<handlers, subscribed, registering, subs, message, read, handled>>

SubscribeNext ==
  /\ link = "subscribing"
  /\ \E h \in visit : Subscribe(h) /\ visit' = visit \ {h}
  /\ UNCHANGED <<handlers, subscribed, registering, link, message, read, handled>>

SubscribedAll ==
  /\ link = "subscribing" /\ visit = {}
  /\ subscribed' = TRUE
  /\ link' = "up"
  /\ UNCHANGED <<handlers, registering, visit, subs, missed, message, read, handled>>

(* _subscribed stays as it is. *)
Breaks ==
  /\ link = "up"
  /\ link' = "down"
  /\ subs' = {}
  /\ message' = None
  /\ read' = <<>>
  /\ handled' = {}
  /\ UNCHANGED <<handlers, subscribed, registering, visit, missed>>

(* eventHandlerData() has a whole message of topic t, because of one or more *)
(* subscriptions, and compares what it read of t with every entry.           *)
HandleMessage(t) ==
  /\ link = "up"
  /\ \E f \in subs : Matches(f, t)
  /\ message' = t
  /\ read' \in Readings(t)
  /\ LET Outcome(o) == {h \in handlers : CompareTopics(FullPath(h), read') = o} IN
     \E undefined \in SUBSET Outcome("undefined") : handled' = Outcome("yes") \cup undefined
  /\ UNCHANGED <<handlers, subscribed, registering, link, visit, subs, missed>>

RoutingNext ==
  \/ \E h \in Handler : Cardinality(handlers) < MaxHandlers /\ Register(h)
  \/ SubscribeLate
  \/ Connects
  \/ SubscribeNext
  \/ SubscribedAll
  \/ Breaks
  \/ \E t \in Topic : HandleMessage(t)

RoutingSpec == RoutingInit /\ [][RoutingNext]_routingVars

-----------------------------------------------------------------------------
(***************************************************************************)
(* No consumer is forgotten: whenever the connection is up and no consumer *)
(* is half registered, the broker has a subscription for each, except one  *)
(* whose registration ran beside the subscriptions of the first connection *)
(* or whose subscription the client refused (and those until the next      *)
(* connection only).                                                       *)
(***************************************************************************)
EveryConsumerSubscribed ==
  link = "up" /\ registering = None =>
    \A h \in handlers \ missed : FullPath(h) \in subs

(***************************************************************************)
(* The client agrees with the broker: a message that matches the path of a *)
(* consumer is given to it, if the path begins with a slash, has no empty  *)
(* level and no "#".  Left out is a message whose topic was read past its  *)
(* end: it may reach nobody.                                               *)
(***************************************************************************)
MatchedIsHandled ==
  message # None /\ read = message =>
    \A h \in handlers :
      LET f == FullPath(h) IN
      /\ Matches(f, message)
      /\ f[1] = "/" /\ ~EmptyLevel(f) /\ <<"#">> \notin {Levels(f)[k] : k \in 1..Len(Levels(f))}
      => h \in handled

(* Topics that differ from t only in characters that follow a slash. *)
AlikeTopics(t, chars) ==
  LET after == {i \in 2..Len(t) : t[i - 1] = "/"} IN
  {[i \in 1..Len(t) |-> IF i \in after THEN c[i] ELSE t[i]] : c \in [after -> chars]}

(***************************************************************************)
(* What a consumer handles matches its path as it was read (and so, unless *)
(* the topic was read past its end, as it was sent), but for the one       *)
(* character the comparison does not look at, the first after a slash:     *)
(* there is a change of such characters after which it matches.  Left out  *)
(* are the paths for which the comparison can run past an end: an empty    *)
(* level, or a last "+" that meets a topic of more levels.                 *)
(***************************************************************************)
HandledIsAlike ==
  \A h \in handled :
    LET f == FullPath(h) IN
    \/ EmptyLevel(f)
    \/ f[Len(f)] = "+" /\ Len(Levels(read)) > Len(Levels(f))
    \/ \E u \in AlikeTopics(read, {f[i] : i \in 1..Len(f)}) : Matches(f, u)

=============================================================================
