-------------------------- MODULE MqttClientProofs --------------------------
(***************************************************************************)
(* Proofs about what the client's task does: MqttRouting and MqttMessages. *)
(*                                                                         *)
(*   - EveryConsumerSubscribed speaks of a connection that is up.  What    *)
(*     leads to it is the iteration of the client's task: an entry is      *)
(*     subscribed, still to be visited, half registered, or one of those   *)
(*     that raced with the first connection.                               *)
(*   - ShortMessagesArrive speaks of the event of the last part.  What     *)
(*     leads to it is what the buffers hold between two events: nothing    *)
(*     under a key that is not spoiled, but for the first of the two parts *)
(*     of the message that is coming.                                      *)
(*   - MatchedIsHandled speaks of compareTopics() and of the matching of   *)
(*     the standard, which cuts both topics into levels.  What relates     *)
(*     them is where a level begins (Cut): on topics that match the loop   *)
(*     stays in step with the levels (InStep) to the end of both.          *)
(*   - HandledIsAlike asks what the loop accepts.  From the place where it  *)
(*     begins it builds, character by character, the topic it takes the    *)
(*     message's for (Fits): what it has read of the path matches that.    *)
(***************************************************************************)
EXTENDS MqttRouting, MqttMessages, SequenceTheorems, WellFoundedInduction, TLAPS

(* Between connections nothing is left to visit, and a connection that is *)
(* up has set _subscribed.                                                *)
LinkInv ==
  /\ link # "subscribing" => visit = {}
  /\ link = "up" => subscribed

Served(h) == h = registering \/ h \in missed \/ h \in visit \/ FullPath(h) \in subs

ServedInv == link # "down" => \A h \in handlers : Served(h)

RoutingInv == RoutingTypeOK /\ LinkInv /\ ServedInv

-----------------------------------------------------------------------------
(* A consumer is not None. *)
LEMMA ConsumerIsSome == \A h \in Handler : h # None
BY RoutingAssumption

LEMMA InitHolds == RoutingInit => RoutingInv
BY DEF RoutingInit, RoutingInv, RoutingTypeOK, LinkInv, ServedInv

(* What a step adds to handlers only extends the paths. *)
LEMMA PathsGrow ==
  ASSUME NEW S, NEW T, S \subseteq T
  PROVE  {FullPath(h) : h \in S} \subseteq {FullPath(h) : h \in T}
OBVIOUS

LEMMA RegisterKeeps ==
  ASSUME RoutingInv, NEW h \in Handler, Register(h)
  PROVE  RoutingInv'
<1>1. handlers \subseteq handlers' /\ h \in handlers' /\ handlers' = handlers \cup {h}
  BY DEF Register
<1>2. visit \subseteq visit' /\ visit' \subseteq visit \cup {h}
      /\ (link # "subscribing" => visit' = visit)
  BY DEF Register
<1>3. RoutingTypeOK'
  <2>1. handlers' \subseteq Handler /\ \A f, g \in handlers' : f.topic = g.topic => f = g
    BY <1>1 DEF RoutingInv, RoutingTypeOK, Register
  <2>2. subs' \subseteq {FullPath(g) : g \in handlers'}
    BY <1>1, PathsGrow DEF RoutingInv, RoutingTypeOK, Register
  <2>3. visit' \subseteq handlers' /\ missed' \subseteq handlers'
    BY <1>1, <1>2 DEF RoutingInv, RoutingTypeOK, Register
  <2>4. /\ registering' \in handlers' \cup {None} /\ handled' \subseteq handlers'
        /\ message' = None /\ read' = <<>>
    BY <1>1 DEF Register
  <2>5. subscribed' \in BOOLEAN /\ link' \in {"down", "subscribing", "up"}
    BY DEF RoutingInv, RoutingTypeOK, Register
  <2> QED
    BY <2>1, <2>2, <2>3, <2>4, <2>5 DEF RoutingTypeOK, FullPath
<1>4. LinkInv'
  BY <1>2 DEF RoutingInv, LinkInv, Register
<1>5. ServedInv'
  <2> SUFFICES ASSUME link # "down", NEW g \in handlers'
      PROVE  Served(g)'
    BY DEF ServedInv, Register
  <2>1. CASE g = h
    BY <2>1 DEF Served, Register
  <2>2. CASE g \in handlers
    <3>1. Served(g) /\ g # registering
      BY <2>2, ConsumerIsSome DEF RoutingInv, RoutingTypeOK, ServedInv, Register
    <3> QED
      BY <3>1, <1>2 DEF Served, Register, FullPath
  <2> QED
    BY <2>1, <2>2, <1>1
<1> QED
  BY <1>3, <1>4, <1>5 DEF RoutingInv

(* Subscribe() leaves its consumer with a subscription, or missed. *)
LEMMA SubscribeIs ==
  ASSUME RoutingInv, NEW h \in handlers, Subscribe(h), UNCHANGED handlers
  PROVE  /\ missed' \subseteq handlers /\ missed \subseteq missed'
         /\ subs' \subseteq {FullPath(g) : g \in handlers} /\ subs \subseteq subs'
         /\ h \in missed' \/ FullPath(h) \in subs'
BY DEF RoutingInv, RoutingTypeOK, Subscribe

LEMMA SubscribeLateKeeps ==
  ASSUME RoutingInv, SubscribeLate
  PROVE  RoutingInv'
<1>1. registering \in handlers /\ UNCHANGED handlers
  BY DEF RoutingInv, RoutingTypeOK, SubscribeLate
<1>2. /\ missed' \subseteq handlers /\ missed \subseteq missed'
      /\ subs' \subseteq {FullPath(h) : h \in handlers} /\ subs \subseteq subs'
      /\ link # "down" => registering \in missed' \/ FullPath(registering) \in subs'
  <2>1. CASE subscribed /\ link # "down"
    <3>1. Subscribe(registering)
      BY <2>1 DEF SubscribeLate
    <3> QED
      BY <1>1, <3>1, SubscribeIs
  <2>2. CASE ~(subscribed /\ link # "down")
    <3>1. link = "up" => subscribed
      BY DEF RoutingInv, LinkInv
    <3>2. subscribed \in BOOLEAN /\ link \in {"down", "subscribing", "up"}
          /\ missed \subseteq handlers /\ subs \subseteq {FullPath(h) : h \in handlers}
      BY DEF RoutingInv, RoutingTypeOK
    <3>3. CASE subscribed
      BY <2>2, <3>2, <3>3 DEF SubscribeLate
    <3>4. CASE ~subscribed
      <4>1. /\ missed' = IF link = "subscribing" THEN missed \cup {registering} ELSE missed
            /\ subs' = subs
        BY <3>4 DEF SubscribeLate
      <4> QED
        BY <1>1, <3>1, <3>2, <3>4, <4>1
    <3> QED
      BY <3>3, <3>4
  <2> QED
    BY <2>1, <2>2
<1>4. RoutingTypeOK'
  BY <1>2 DEF RoutingInv, RoutingTypeOK, SubscribeLate, FullPath
<1>5. LinkInv'
  BY DEF RoutingInv, LinkInv, SubscribeLate
<1>6. ServedInv'
  <2> SUFFICES ASSUME link # "down", NEW h \in handlers
      PROVE  Served(h)'
    BY DEF ServedInv, SubscribeLate
  <2>1. Served(h)
    BY DEF RoutingInv, ServedInv
  <2>2. CASE h = registering
    BY <1>2, <2>2 DEF Served, FullPath
  <2>3. CASE h # registering
    BY <2>1, <2>3, <1>2 DEF Served, SubscribeLate, FullPath
  <2> QED
    BY <2>2, <2>3
<1> QED
  BY <1>4, <1>5, <1>6 DEF RoutingInv

LEMMA SubscribeNextKeeps ==
  ASSUME RoutingInv, SubscribeNext
  PROVE  RoutingInv'
<1>1. PICK h \in visit : Subscribe(h) /\ visit' = visit \ {h}
  BY DEF SubscribeNext
<1>2. h \in handlers /\ UNCHANGED handlers
  BY DEF RoutingInv, RoutingTypeOK, SubscribeNext
<1>i. /\ missed' \subseteq handlers /\ missed \subseteq missed'
      /\ subs' \subseteq {FullPath(g) : g \in handlers} /\ subs \subseteq subs'
      /\ h \in missed' \/ FullPath(h) \in subs'
  BY <1>1, <1>2, SubscribeIs
<1>3. RoutingTypeOK'
  BY <1>1, <1>i DEF RoutingInv, RoutingTypeOK, SubscribeNext, FullPath
<1>4. LinkInv'
  BY DEF RoutingInv, LinkInv, SubscribeNext
<1>5. ServedInv'
  <2> SUFFICES ASSUME NEW g \in handlers
      PROVE  Served(g)'
    BY DEF ServedInv, SubscribeNext
  <2>1. Served(g)
    BY DEF RoutingInv, ServedInv, SubscribeNext
  <2> QED
    BY <1>1, <1>i, <2>1 DEF Served, SubscribeNext, FullPath
<1> QED
  BY <1>3, <1>4, <1>5 DEF RoutingInv

(* The steps of the client's task that begin and end a connection. *)
LEMMA LinkKeeps ==
  ASSUME RoutingInv, Connects \/ SubscribedAll \/ Breaks
  PROVE  RoutingInv'
<1>1. CASE Connects
  <2>1. RoutingTypeOK'
    BY <1>1 DEF RoutingInv, RoutingTypeOK, Connects, FullPath
  <2>2. LinkInv' /\ ServedInv'
    BY <1>1 DEF RoutingInv, LinkInv, ServedInv, Served, Connects
  <2> QED
    BY <2>1, <2>2 DEF RoutingInv
<1>2. CASE SubscribedAll
  <2>1. RoutingTypeOK'
    BY <1>2 DEF RoutingInv, RoutingTypeOK, SubscribedAll, FullPath
  <2>2. LinkInv' /\ ServedInv'
    BY <1>2 DEF RoutingInv, LinkInv, ServedInv, Served, SubscribedAll, FullPath
  <2> QED
    BY <2>1, <2>2 DEF RoutingInv
<1>3. CASE Breaks
  <2>1. RoutingTypeOK'
    BY <1>3 DEF RoutingInv, RoutingTypeOK, Breaks, FullPath
  <2>2. LinkInv' /\ ServedInv'
    BY <1>3 DEF RoutingInv, LinkInv, ServedInv, Breaks
  <2> QED
    BY <2>1, <2>2 DEF RoutingInv
<1> QED
  BY <1>1, <1>2, <1>3

(* A message goes to entries of _handlers only. *)
LEMMA HandleMessageKeeps ==
  ASSUME RoutingInv, NEW t \in Topic, HandleMessage(t)
  PROVE  RoutingInv'
<1>1. /\ handled' \subseteq handlers /\ message' \in Topic
      /\ read' \in Readings(message') /\ message' # None
  BY RoutingAssumption DEF HandleMessage
<1>2. UNCHANGED <<handlers, subscribed, registering, link, visit, subs, missed>>
  BY DEF HandleMessage
<1> QED
  BY <1>1, <1>2 DEF RoutingInv, RoutingTypeOK, LinkInv, ServedInv, Served, FullPath

LEMMA StepKeeps == RoutingInv /\ [RoutingNext]_routingVars => RoutingInv'
<1> SUFFICES ASSUME RoutingInv, [RoutingNext]_routingVars
    PROVE  RoutingInv'
  OBVIOUS
<1>1. CASE \E h \in Handler : Cardinality(handlers) < MaxHandlers /\ Register(h)
  BY <1>1, RegisterKeeps
<1>2. CASE SubscribeLate
  BY <1>2, SubscribeLateKeeps
<1>3. CASE Connects \/ SubscribedAll \/ Breaks
  BY <1>3, LinkKeeps
<1>4. CASE SubscribeNext
  BY <1>4, SubscribeNextKeeps
<1>5. CASE \E t \in Topic : HandleMessage(t)
  BY <1>5, HandleMessageKeeps
<1>6. CASE UNCHANGED routingVars
  BY <1>6 DEF routingVars, RoutingInv, RoutingTypeOK, LinkInv, ServedInv, Served, FullPath
<1> QED
  BY <1>1, <1>2, <1>3, <1>4, <1>5, <1>6 DEF RoutingNext

LEMMA InvHolds == RoutingSpec => []RoutingInv
BY InitHolds, StepKeeps, PTL DEF RoutingSpec

-----------------------------------------------------------------------------
(***************************************************************************)
(* The variables keep their types: in particular _handlers stays a map, of *)
(* one entry for a topic, and what the broker holds for this connection    *)
(* are paths of its entries, for every set of paths and every bound.       *)
(***************************************************************************)
THEOREM RoutingTypeCorrect == RoutingSpec => []RoutingTypeOK
<1>1. RoutingInv => RoutingTypeOK
  BY DEF RoutingInv
<1> QED
  BY <1>1, InvHolds, PTL

(***************************************************************************)
(* Every consumer is subscribed while the connection is up, but for those  *)
(* registered beside the first subscriptions, for every number of          *)
(* consumers (eventHandlerConnect() and registerEventConsumer()).          *)
(***************************************************************************)
THEOREM SubscribedCorrect == RoutingSpec => []EveryConsumerSubscribed
<1>1. RoutingInv => EveryConsumerSubscribed
  BY ConsumerIsSome
  DEF RoutingInv, RoutingTypeOK, LinkInv, ServedInv, Served, EveryConsumerSubscribed
<1> QED
  BY <1>1, InvHolds, PTL

-----------------------------------------------------------------------------
(* MqttMessages. *)

(* Only a key that keeps parts no message will complete has an entry, but   *)
(* for the key of the message that is coming.                               *)
BuffersClean ==
  \A k \in Key :
    ~spoiled[k] /\ (coming = NoMessage \/ k # currentTopic) => buffers[k] = <<>>

(* A message that is coming has begun; under a key that is not spoiled it   *)
(* is of two parts and the first waits there; one that is not in doubt has  *)
(* such a key, and the key is its topic.                                    *)
ComingKept ==
  coming # NoMessage =>
    /\ coming.got > 0 /\ currentTopic \in Key
    /\ ~spoiled[currentTopic] =>
         coming.parts = 2 /\ buffers[currentTopic] = <<PartOf(coming, 1)>>
    /\ ~coming.doubtful => ~spoiled[currentTopic] /\ currentTopic \in TopicName

MessagesInv == MessagesTypeOK /\ BuffersClean /\ ComingKept /\ ShortMessagesArrive

LEMMA MessagesInitHolds == MessagesInit => MessagesInv
<1> SUFFICES ASSUME MessagesInit PROVE MessagesInv
  OBVIOUS
<1>1. MessagesTypeOK
  BY MessagesAssumption DEF MessagesInit, MessagesTypeOK
<1> QED
  BY <1>1 DEF MessagesInit, MessagesInv, BuffersClean, ComingKept, ShortMessagesArrive

(* The part that comes next, of a message that begins or that is coming.    *)
LEMMA PartIsPart ==
  ASSUME NEW m \in Message
  PROVE  /\ m.got + 1 \in 1..m.parts /\ m.parts \in 1..MaxParts
         /\ \A k \in 1..m.parts : PartOf(m, k) \in Part
<1>1. /\ m.got \in 0..MaxParts /\ m.parts \in 1..MaxParts /\ m.got < m.parts
      /\ m.id \in 1..MaxMessages
  BY DEF Message
<1> QED
  BY <1>1, MessagesAssumption DEF PartOf, Part

(* What MoveOn does: the message goes on or ends.                           *)
LEMMA MoveOnCases ==
  ASSUME NEW m \in Message, MoveOn(m)
  PROVE  \/ m.got + 1 = m.parts /\ coming' = NoMessage /\ last' = m
         \/ /\ m.got + 1 # m.parts /\ last' = NoMessage
            /\ coming' \in Message /\ coming' # NoMessage
            /\ coming'.got = m.got + 1 /\ coming'.parts = m.parts
            /\ coming'.doubtful = m.doubtful /\ coming'.id = m.id
<1>1. CASE m.got + 1 = m.parts
  BY <1>1 DEF MoveOn
<1>2. CASE m.got + 1 # m.parts
  <2>1. /\ m \in [id : 1..MaxMessages, parts : 1..MaxParts, got : 0..MaxParts,
                  doubtful : BOOLEAN]
        /\ m.got < m.parts
    BY DEF Message
  <2>2. coming' = [m EXCEPT !.got = m.got + 1] /\ last' = NoMessage
    BY <1>2 DEF MoveOn
  <2>3. m.got + 1 \in 0..MaxParts /\ m.got + 1 < m.parts
    BY <1>2, <2>1, MessagesAssumption
  <2>4. /\ coming' \in [id : 1..MaxMessages, parts : 1..MaxParts, got : 0..MaxParts,
                        doubtful : BOOLEAN]
        /\ coming'.got = m.got + 1 /\ coming'.parts = m.parts
        /\ coming'.doubtful = m.doubtful /\ coming'.id = m.id
    BY <2>1, <2>2, <2>3
  <2>5. coming' \in Message
    BY <2>3, <2>4 DEF Message
  <2> QED
    BY <1>2, <2>2, <2>4, <2>5, MessagesAssumption
<1> QED
  BY <1>1, <1>2

(* The first Len(s) elements of s are s, and s is the function of its indices. *)
LEMMA SeqIsWhole ==
  ASSUME NEW S, NEW s \in Seq(S)
  PROVE  SubSeq(s, 1, Len(s)) = s /\ s = [k \in 1..Len(s) |-> s[k]]
<1>1. s = [k \in 1..Len(s) |-> s[k]]
  OBVIOUS
<1>2. SubSeq(s, 1, Len(s)) = [k \in 1..Len(s) |-> s[k]]
  OBVIOUS
<1> QED
  BY <1>1, <1>2

(* One event of message m under key, of its first part or of a later one.  *)
(* The buffer is free at the first part unless the key was spoiled.         *)
LEMMA PartStep ==
  ASSUME MessagesTypeOK, NEW m \in Message, NEW key \in Key,
         HandlePart(m, key), MoveOn(m), currentTopic' = key,
         spoiled' \in [Key -> BOOLEAN], \A k \in Key \ {key} : spoiled'[k] = spoiled[k],
         \A k \in Key \ {key} : ~spoiled[k] => buffers[k] = <<>>,
         ~spoiled'[key] =>
           /\ m.parts <= 2
           /\ m.parts = 1 \/ buffers[key] = IF m.got = 0 THEN <<>> ELSE <<PartOf(m, 1)>>,
         ~m.doubtful =>
           /\ key \in TopicName /\ ~spoiled'[key]
           /\ buffers[key] = IF m.got = 0 THEN <<>> ELSE <<PartOf(m, 1)>>
  PROVE  /\ buffers' \in [Key -> Seq(Part)]
         /\ handed' \in Seq(Part)
         /\ coming' \in Message \cup {NoMessage} /\ last' \in Message \cup {NoMessage}
         /\ BuffersClean' /\ ComingKept' /\ ShortMessagesArrive'
<1> DEFINE p == PartOf(m, m.got + 1)
           seg == Append(buffers[key], p)
<1>t. /\ m.got \in Nat /\ m.parts \in Nat \ {0} /\ m.got < m.parts
      /\ m.doubtful \in BOOLEAN
  BY MessagesAssumption DEF Message
<1>p. p \in Part /\ PartOf(m, 1) \in Part
  BY <1>t, PartIsPart
<1>b. buffers[key] \in Seq(Part) /\ Len(buffers[key]) \in Nat
  BY DEF MessagesTypeOK
<1>s. seg \in Seq(Part) /\ Len(seg) = Len(buffers[key]) + 1
  BY <1>p, <1>b
<1>m. \/ m.got + 1 = m.parts /\ coming' = NoMessage /\ last' = m
      \/ /\ m.got + 1 # m.parts /\ last' = NoMessage
         /\ coming' \in Message /\ coming' # NoMessage
         /\ coming'.got = m.got + 1 /\ coming'.parts = m.parts
         /\ coming'.doubtful = m.doubtful /\ coming'.id = m.id
  BY MoveOnCases
<1>n. coming' # NoMessage => PartOf(coming', 1) = PartOf(m, 1)
  BY <1>m DEF PartOf
(* A message of one part, and the second part of one of two: the whole. *)
<1>w. ASSUME ~m.doubtful, m.got + 1 = m.parts
      PROVE  Len(seg) >= m.parts /\ SubSeq(seg, 1, m.parts) = Whole(m)
  <2>0. m.parts <= 2
    BY <1>w
  <2>1. CASE m.got = 0
    <3>1. buffers[key] = <<>> /\ m.parts = 1
      BY <2>1, <1>w, <1>t
    <3>2. Len(seg) = 1 /\ seg[1] = PartOf(m, 1)
      BY <2>1, <3>1
    <3>3. Whole(m) = [k \in 1..Len(seg) |-> seg[k]]
      BY <3>1, <3>2 DEF Whole
    <3> QED
      BY <1>s, <3>1, <3>2, <3>3, SeqIsWhole
  <2>2. CASE m.got > 0
    <3>1. buffers[key] = <<PartOf(m, 1)>> /\ m.parts = 2 /\ m.got + 1 = 2
      BY <2>0, <2>2, <1>w, <1>t
    <3>2. Len(seg) = 2 /\ seg[1] = PartOf(m, 1) /\ seg[2] = PartOf(m, 2)
      BY <3>1, <1>p
    <3>3. Whole(m) = [k \in 1..Len(seg) |-> seg[k]]
      BY <3>1, <3>2 DEF Whole
    <3> QED
      BY <1>s, <3>1, <3>2, <3>3, SeqIsWhole
  <2>3. m.got = 0 \/ m.got > 0
    BY <1>t
  <2> QED
    BY <2>1, <2>2, <2>3
(* The first of two parts waits, under a key that is not spoiled. *)
<1>f. ASSUME ~spoiled'[key], m.got + 1 # m.parts
      PROVE  m.got = 0 /\ m.parts = 2 /\ buffers[key] = <<>> /\ seg = <<PartOf(m, 1)>>
             /\ Len(seg) = 1
  <2>1. m.parts <= 2
    BY <1>f
  <2>2. m.got = 0 /\ m.parts = 2
    BY <2>1, <1>f, <1>t
  <2>3. buffers[key] = <<>>
    BY <2>2, <1>f
  <2> QED
    BY <2>2, <2>3, <1>p
(* The last part finds the rest there, so that all is there. *)
<1>l. ASSUME ~spoiled'[key], m.got + 1 = m.parts
      PROVE  Len(seg) >= m.parts
  <2>1. CASE m.parts = 1
    BY <2>1, <1>s, <1>b
  <2>2. CASE m.parts # 1
    <3>1. m.parts = 2 /\ m.got = 1
      BY <2>2, <1>l, <1>t
    <3>2. buffers[key] = <<PartOf(m, 1)>>
      BY <2>2, <3>1, <1>l
    <3> QED
      BY <3>1, <3>2, <1>s
  <2> QED
    BY <2>1, <2>2
<1>c. ASSUME coming' # NoMessage =>
               /\ ~spoiled'[key] => m.parts = 2 /\ buffers'[key] = <<PartOf(m, 1)>>
               /\ ~m.doubtful => ~spoiled'[key] /\ key \in TopicName
      PROVE  ComingKept'
  <2> SUFFICES ASSUME coming' # NoMessage
               PROVE  /\ coming'.got > 0 /\ currentTopic' \in Key
                      /\ ~spoiled'[currentTopic'] =>
                           coming'.parts = 2 /\ buffers'[currentTopic'] = <<PartOf(coming', 1)>>
                      /\ ~coming'.doubtful => ~spoiled'[currentTopic'] /\ currentTopic' \in TopicName
    BY DEF ComingKept, PartOf
  <2>1. /\ coming'.got = m.got + 1 /\ coming'.parts = m.parts
        /\ coming'.doubtful = m.doubtful /\ PartOf(coming', 1) = PartOf(m, 1)
    BY <1>m, <1>n
  <2>2. coming'.got > 0
    BY <2>1, <1>t
  <2>3. currentTopic' = key
    OBVIOUS
  <2>4. ~spoiled'[key] => m.parts = 2 /\ buffers'[key] = <<PartOf(m, 1)>>
    BY <1>c
  <2>5. ~m.doubtful => ~spoiled'[key] /\ key \in TopicName
    BY <1>c
  <2>6. ~spoiled'[currentTopic'] =>
          coming'.parts = 2 /\ buffers'[currentTopic'] = <<PartOf(coming', 1)>>
    BY <2>1, <2>3, <2>4
  <2>7. ~coming'.doubtful => ~spoiled'[currentTopic'] /\ currentTopic' \in TopicName
    BY <2>1, <2>3, <2>5
  <2> QED
    BY <2>2, <2>3, <2>6, <2>7
<1>1. CASE Len(seg) < m.parts
  <2>1. /\ buffers' = IF buffers[key] = <<>> THEN [buffers EXCEPT ![key] = seg] ELSE buffers
        /\ handed' = <<>>
    BY <1>1 DEF HandlePart
  <2>2. /\ buffers' \in [Key -> Seq(Part)] /\ handed' \in Seq(Part)
        /\ \A k \in Key \ {key} : buffers'[k] = buffers[k]
        /\ buffers[key] = <<>> => buffers'[key] = seg
    BY <2>1, <1>s DEF MessagesTypeOK
  <2>3. m.got + 1 = m.parts => spoiled'[key]
    BY <1>1, <1>l, <1>s, <1>b, <1>t
  <2>4. BuffersClean'
    BY <2>2, <2>3, <1>m DEF BuffersClean
  <2>5. ComingKept'
    BY <1>c, <1>m, <1>f, <2>2
  <2>6. ShortMessagesArrive'
    BY <1>1, <1>m, <1>w, <1>s, <1>b, <1>t DEF ShortMessagesArrive
  <2> QED
    BY <1>m, <2>2, <2>4, <2>5, <2>6
<1>2. CASE Len(seg) >= m.parts
  <2>0. SubSeq(seg, 1, m.parts) \in Seq(Part)
    BY <1>2, <1>s, <1>t
  <2>1. /\ HandOver(key, SubSeq(seg, 1, m.parts))
        /\ buffers' = [buffers EXCEPT ![key] = <<>>]
    BY <1>2, <1>t, <1>s, <1>b DEF HandlePart
  <2>2. /\ buffers' \in [Key -> Seq(Part)]
        /\ \A k \in Key \ {key} : buffers'[k] = buffers[k]
        /\ buffers'[key] = <<>>
    BY <2>1 DEF MessagesTypeOK
  <2>3. handed' \in Seq(Part)
    <3>1. handed' \in {<<>>, SubSeq(seg, 1, m.parts)}
      BY <2>1 DEF HandOver
    <3>2. <<>> \in Seq(Part)
      OBVIOUS
    <3> QED
      BY <2>0, <3>1, <3>2, Zenon
  <2>4. BuffersClean'
    BY <2>2 DEF BuffersClean
  <2>5. ComingKept'
    BY <1>c, <1>2, <1>m, <1>f
  <2>6. ShortMessagesArrive'
    <3>1. ~m.doubtful => handed' = SubSeq(seg, 1, m.parts)
      BY <2>1 DEF HandOver
    <3> QED
      BY <3>1, <1>m, <1>w DEF ShortMessagesArrive, Whole, PartOf
  <2> QED
    BY <1>m, <2>2, <2>3, <2>4, <2>5, <2>6
<1> QED
  BY <1>1, <1>2, <1>s, <1>b, <1>t

LEMMA MessagesStep == MessagesInv /\ [MessagesNext]_messagesVars => MessagesInv'
<1> SUFFICES ASSUME MessagesInv, [MessagesNext]_messagesVars PROVE MessagesInv'
  OBVIOUS
<1>t. MessagesTypeOK /\ BuffersClean /\ ComingKept /\ ShortMessagesArrive
  BY DEF MessagesInv
<1>1. ASSUME NEW t \in TopicName, NEW key \in Key, NEW n \in 1..MaxParts,
             FirstPart(t, key, n)
      PROVE  MessagesInv'
  <2> DEFINE d == n > 2 \/ key # t \/ spoiled[key]
             m == [id |-> count + 1, parts |-> n, got |-> 0, doubtful |-> d]
  <2>1. /\ coming = NoMessage /\ count' = count + 1 /\ currentTopic' = key
        /\ count' \in 1..MaxMessages
    BY <1>1, <1>t, MessagesAssumption DEF FirstPart, MessagesTypeOK
  <2>2. d \in BOOLEAN /\ (~d => ~(n > 2) /\ key = t /\ ~spoiled[key])
    OBVIOUS
  <2>4. HandlePart(m, key) /\ MoveOn(m)
    BY <1>1 DEF FirstPart
  <2>5. /\ spoiled' \in [Key -> BOOLEAN] /\ \A k \in Key \ {key} : spoiled'[k] = spoiled[k]
        /\ ~spoiled'[key] => ~(n > 2) /\ (n > 1 => ~spoiled[key])
        /\ ~(n > 2) /\ ~spoiled[key] => ~spoiled'[key]
    <3>1. spoiled' = [spoiled EXCEPT ![key] = n > 2 \/ (n > 1 /\ spoiled[key])]
      BY <1>1 DEF FirstPart
    <3>2. spoiled \in [Key -> BOOLEAN]
      BY <1>t DEF MessagesTypeOK
    <3> DEFINE b == n > 2 \/ (n > 1 /\ spoiled[key])
    <3>3. b \in BOOLEAN /\ spoiled' = [spoiled EXCEPT ![key] = b]
      BY <3>1
    <3>4. ~b => ~(n > 2) /\ (n > 1 => ~spoiled[key])
      OBVIOUS
    <3>5. ~(n > 2) /\ ~spoiled[key] => ~b
      OBVIOUS
    <3> HIDE DEF b
    <3>6. spoiled' \in [Key -> BOOLEAN] /\ spoiled'[key] = b
          /\ \A k \in Key \ {key} : spoiled'[k] = spoiled[k]
      BY <3>2, <3>3, Zenon
    <3> QED
      BY <3>4, <3>5, <3>6
  <2>6. \A k \in Key : ~spoiled[k] => buffers[k] = <<>>
    BY <2>1, <1>t DEF BuffersClean
  <2> HIDE DEF d
  <2>3. m \in Message
    BY <2>1, <2>2, MessagesAssumption DEF Message
  <2>9. m.parts = n /\ m.got = 0 /\ m.doubtful = d /\ n \in Nat \ {0}
    BY MessagesAssumption
  <2>7. /\ m.parts = n /\ m.got = 0 /\ n \in Nat \ {0}
        /\ ~m.doubtful => ~(n > 2) /\ key = t /\ ~spoiled[key]
    BY <2>2, <2>9
  <2> HIDE DEF m
  <2>8. /\ ~spoiled'[key] => m.parts <= 2 /\ (m.parts = 1 \/ buffers[key] = <<>>)
        /\ ~m.doubtful => key \in TopicName /\ ~spoiled'[key] /\ buffers[key] = <<>>
    BY <2>5, <2>6, <2>7
  <2> QED
    BY <1>t, <2>1, <2>3, <2>4, <2>5, <2>6, <2>7, <2>8, PartStep DEF MessagesInv, MessagesTypeOK
<1>2. CASE NextPart
  <2>1. /\ coming \in Message /\ currentTopic \in Key /\ coming # NoMessage
        /\ UNCHANGED <<currentTopic, count, spoiled>>
        /\ HandlePart(coming, currentTopic) /\ MoveOn(coming)
    BY <1>2, <1>t DEF NextPart, MessagesTypeOK, ComingKept
  <2>2. /\ coming.got > 0
        /\ ~spoiled[currentTopic] =>
             coming.parts = 2 /\ buffers[currentTopic] = <<PartOf(coming, 1)>>
        /\ ~coming.doubtful => ~spoiled[currentTopic] /\ currentTopic \in TopicName
    BY <2>1, <1>t DEF ComingKept
  <2>3. coming.got \in Nat /\ coming.got # 0
    BY <2>1, <2>2 DEF Message
  <2>4. spoiled' = spoiled /\ spoiled' \in [Key -> BOOLEAN] /\ currentTopic' = currentTopic
        /\ count' = count /\ count \in 0..MaxMessages
    BY <2>1, <1>t DEF MessagesTypeOK
  <2>5. \A k \in Key \ {currentTopic} : ~spoiled[k] => buffers[k] = <<>>
    BY <2>1, <1>t DEF BuffersClean
  <2>6. ~spoiled'[currentTopic] =>
          /\ coming.parts <= 2
          /\ buffers[currentTopic] = IF coming.got = 0 THEN <<>> ELSE <<PartOf(coming, 1)>>
    BY <2>2, <2>3, <2>4
  <2>7. ~coming.doubtful =>
          /\ currentTopic \in TopicName /\ ~spoiled'[currentTopic]
          /\ buffers[currentTopic] = IF coming.got = 0 THEN <<>> ELSE <<PartOf(coming, 1)>>
    BY <2>2, <2>3, <2>4
  <2>8. /\ buffers' \in [Key -> Seq(Part)] /\ handed' \in Seq(Part)
        /\ coming' \in Message \cup {NoMessage} /\ last' \in Message \cup {NoMessage}
        /\ BuffersClean' /\ ComingKept' /\ ShortMessagesArrive'
    <3>1. \A k \in Key \ {currentTopic} : spoiled'[k] = spoiled[k]
      BY <2>4
    <3> QED
      BY <1>t, <2>1, <2>4, <2>5, <2>6, <2>7, <3>1, PartStep
  <2> QED
    BY <2>1, <2>4, <2>8 DEF MessagesInv, MessagesTypeOK
<1>3. CASE ConnectionBreaks
  <2>1. MessagesTypeOK'
    BY <1>3, <1>t DEF ConnectionBreaks, MessagesTypeOK
  <2>2. BuffersClean'
    BY <1>3, <1>t DEF ConnectionBreaks, MessagesTypeOK, BuffersClean
  <2> QED
    BY <1>3, <2>1, <2>2 DEF ConnectionBreaks, MessagesInv, ComingKept, ShortMessagesArrive
<1>4. CASE UNCHANGED messagesVars
  BY <1>4, <1>t DEF messagesVars, MessagesInv, MessagesTypeOK, BuffersClean, ComingKept,
                    ShortMessagesArrive, Whole, PartOf
<1> QED
  BY <1>1, <1>2, <1>3, <1>4 DEF MessagesNext

LEMMA MessagesInvHolds == MessagesSpec => []MessagesInv
BY MessagesInitHolds, MessagesStep, PTL DEF MessagesSpec

(***************************************************************************)
(* The buffers of eventHandlerData() keep sequences of parts under the     *)
(* topics and the garbled key, for every number of topics and parts.       *)
(***************************************************************************)
THEOREM MessagesTypeCorrect == MessagesSpec => []MessagesTypeOK
<1>1. MessagesInv => MessagesTypeOK
  BY DEF MessagesInv
<1> QED
  BY <1>1, MessagesInvHolds, PTL

(***************************************************************************)
(* A message of at most two parts is handed over whole, whatever came      *)
(* before it, unless its key keeps parts of one that was broken off or     *)
(* was longer: for every number of topics, parts and messages.             *)
(***************************************************************************)
THEOREM ShortMessagesCorrect == MessagesSpec => []ShortMessagesArrive
<1>1. MessagesInv => ShortMessagesArrive
  BY DEF MessagesInv
<1> QED
  BY <1>1, MessagesInvHolds, PTL

-----------------------------------------------------------------------------
(* Induction over the naturals, for a set of numbers: what the library     *)
(* says of well-founded relations, for <.                                  *)
LEMMA NatSetInduction ==
  ASSUME NEW S, 0 \in S, \A k \in Nat : k \in S => k + 1 \in S
  PROVE  Nat \subseteq S
<1> DEFINE R == OpToRel(<, Nat)
<1>1. IsWellFoundedOn(R, Nat)
  BY NatLessThanWellFounded
<1>2. SUFFICES ASSUME Nat \ S # {} PROVE FALSE
  OBVIOUS
<1> HIDE DEF R
<1>3. PICK x \in Nat \ S : \A y \in Nat \ S : <<y, x>> \notin R
  BY <1>1, <1>2, WFMin
<1>4. x # 0 /\ x - 1 \in Nat /\ (x - 1) + 1 = x
  BY <1>3
<1>5. x - 1 \in Nat \ S
  BY <1>3, <1>4
<1>6. <<x - 1, x>> \in R
  BY <1>3, <1>4 DEF R, OpToRel
<1> QED
  BY <1>3, <1>5, <1>6

-----------------------------------------------------------------------------
(* The loop of compareTopics() is well defined: every turn moves the       *)
(* iterator of the message's topic on.                                     *)

(* What comes of a place: it is settled, or that of a later one.           *)
LEMMA VerdictIs ==
  ASSUME NEW topic \in Seq(Char), NEW origin \in Seq(Char), NEW p \in Places(topic, origin)
  PROVE  \/ \E v : \A g : Verdict(topic, origin, g, p) = v
         \/ \E q \in Places(topic, origin) :
              q.j > p.j /\ \A g : Verdict(topic, origin, g, p) = g[q]
<1> DEFINE m == Len(topic)
           n == Len(origin)
           i == p.i
           j == p.j
<1>1. m \in Nat /\ n \in Nat /\ i \in 1..(m + 2) /\ j \in 1..(n + 2)
  BY DEF Places
<1> HIDE DEF m, n, i, j
<1>2. CASE i > m + 1 \/ j > n + 1
  <2>1. \A g : Verdict(topic, origin, g, p) = "undefined"
    BY <1>2 DEF Verdict, m, n, i, j
  <2> QED
    BY <2>1
<1>3. CASE ~(i > m + 1 \/ j > n + 1) /\ (i = m + 1 \/ j = n + 1)
  <2>1. \A g : Verdict(topic, origin, g, p) =
                 IF ReachedEnds(topic, i, origin, j) THEN "yes" ELSE "no"
    BY <1>3 DEF Verdict, m, n, i, j
  <2> QED
    BY <2>1
<1>4. CASE i <= m /\ j <= n
  <2>1. ~(i > m + 1 \/ j > n + 1) /\ ~(i = m + 1 \/ j = n + 1)
    BY <1>1, <1>4
  <2>2. /\ i + 1 \in 1..(m + 2) /\ i + 2 \in 1..(m + 2)
        /\ (IF j = n THEN i + 1 ELSE i) \in 1..(m + 2)
        /\ j + 1 \in 1..(n + 2) /\ j + 2 \in 1..(n + 2) /\ j + 1 > j /\ j + 2 > j
    BY <1>1, <1>4
  <2>3. CASE ~p.slash /\ SameChar(topic, i, origin, j)
    <3> DEFINE q == Place(i + 1, j + 1, topic[i] = "/")
    <3>1. \A g : Verdict(topic, origin, g, p) = g[q]
      BY <2>1, <2>3 DEF Verdict, m, n, i, j
    <3>2. (topic[i] = "/") \in BOOLEAN
      OBVIOUS
    <3>3. q \in Places(topic, origin) /\ q.j = j + 1
      BY <2>2, <3>2 DEF Place, Places, m, n
    <3> QED
      BY <2>2, <3>1, <3>3 DEF j
  <2>4. CASE ~p.slash /\ ~SameChar(topic, i, origin, j)
    <3>1. \A g : Verdict(topic, origin, g, p) = "no"
      BY <2>1, <2>4 DEF Verdict, m, n, i, j
    <3> QED
      BY <3>1
  <2>5. CASE p.slash /\ topic[i] = "#" /\ origin[j] = "/"
    <3>1. \A g : Verdict(topic, origin, g, p) = "no"
      BY <2>1, <2>5 DEF Verdict, m, n, i, j
    <3> QED
      BY <3>1
  <2>6. CASE p.slash /\ topic[i] = "#" /\ origin[j] # "/"
    <3> DEFINE q == Place(IF j = n THEN i + 1 ELSE i, j + 1, TRUE)
    <3>1. \A g : Verdict(topic, origin, g, p) = g[q]
      BY <2>1, <2>6 DEF Verdict, m, n, i, j
    <3>2. q \in Places(topic, origin) /\ q.j = j + 1
      BY <2>2 DEF Place, Places, m, n
    <3> QED
      BY <2>2, <3>1, <3>2 DEF j
  <2>7. CASE p.slash /\ topic[i] = "+" /\ origin[j] = "/"
    <3> DEFINE q == Place(i + 2, j + 1, TRUE)
    <3>1. \A g : Verdict(topic, origin, g, p) = g[q]
      BY <2>1, <2>7 DEF Verdict, m, n, i, j
    <3>2. q \in Places(topic, origin) /\ q.j = j + 1
      BY <2>2 DEF Place, Places, m, n
    <3> QED
      BY <2>2, <3>1, <3>2 DEF j
  <2>8. CASE p.slash /\ topic[i] = "+" /\ origin[j] # "/"
    <3> DEFINE q == Place(i, j + 1, TRUE)
    <3>1. \A g : Verdict(topic, origin, g, p) = g[q]
      BY <2>1, <2>8 DEF Verdict, m, n, i, j
    <3>2. q \in Places(topic, origin) /\ q.j = j + 1
      BY <1>1, <2>2 DEF Place, Places, m, n
    <3> QED
      BY <2>2, <3>1, <3>2 DEF j
  <2>9. CASE p.slash /\ topic[i] = "/"
    <3> DEFINE q == Place(i + 1, j + 2, FALSE)
    <3>1. \A g : Verdict(topic, origin, g, p) = g[q]
      BY <2>1, <2>9 DEF Verdict, m, n, i, j
    <3>2. q \in Places(topic, origin) /\ q.j = j + 2
      BY <2>2 DEF Place, Places, m, n
    <3> QED
      BY <2>2, <3>1, <3>2 DEF j
  <2>10. CASE p.slash /\ topic[i] \notin {"#", "+", "/"}
    <3> DEFINE q == Place(i + 1, j + 1, FALSE)
    <3>1. \A g : Verdict(topic, origin, g, p) = g[q]
      BY <2>1, <2>10 DEF Verdict, m, n, i, j
    <3>2. q \in Places(topic, origin) /\ q.j = j + 1
      BY <2>2 DEF Place, Places, m, n
    <3> QED
      BY <2>2, <3>1, <3>2 DEF j
  <2> QED
    BY <2>3, <2>4, <2>5, <2>6, <2>7, <2>8, <2>9, <2>10
<1> QED
  BY <1>1, <1>2, <1>3, <1>4

LEMMA VerdictNeedsLater ==
  ASSUME NEW topic \in Seq(Char), NEW origin \in Seq(Char), NEW p \in Places(topic, origin),
         NEW g, NEW h, \A q \in Places(topic, origin) : q.j > p.j => g[q] = h[q]
  PROVE  Verdict(topic, origin, g, p) = Verdict(topic, origin, h, p)
BY VerdictIs

LEMMA LoopExists ==
  ASSUME NEW topic \in Seq(Char), NEW origin \in Seq(Char)
  PROVE  \E g : g = [p \in Places(topic, origin) |-> Verdict(topic, origin, g, p)]
<1> DEFINE P == Places(topic, origin)
           n == Len(origin)
           S == {d \in Nat : \E g : \A p \in P :
                   p.j + d > n + 2 => g[p] = Verdict(topic, origin, g, p)}
<1>1. n \in Nat /\ \A p \in P : p.j \in 1..(n + 2)
  BY DEF Places
<1> HIDE DEF P, n
<1>2. 0 \in S
  BY <1>1
<1>3. ASSUME NEW d \in Nat, d \in S PROVE d + 1 \in S
  <2>1. PICK g : \A p \in P : p.j + d > n + 2 => g[p] = Verdict(topic, origin, g, p)
    BY <1>3
  <2> DEFINE h == [p \in P |-> Verdict(topic, origin, g, p)]
  <2>2. ASSUME NEW p \in P, p.j + (d + 1) > n + 2
        PROVE  h[p] = Verdict(topic, origin, h, p)
    <3>1. \A q \in P : q.j > p.j => q.j + d > n + 2
      BY <1>1, <2>2
    <3>2. \A q \in P : q.j > p.j => g[q] = h[q]
      BY <2>1, <3>1
    <3> HIDE DEF h
    <3>3. Verdict(topic, origin, g, p) = Verdict(topic, origin, h, p)
      BY <3>2, VerdictNeedsLater DEF P
    <3> QED
      BY <3>3 DEF h
  <2> HIDE DEF h
  <2> QED
    BY <2>2
<1> HIDE DEF S
<1>4. n + 2 \in S
  <2>1. Nat \subseteq S
    BY <1>2, <1>3, NatSetInduction
  <2> QED
    BY <1>1, <2>1
<1>5. PICK g : \A p \in P : g[p] = Verdict(topic, origin, g, p)
  <2>1. \A p \in P : p.j + (n + 2) > n + 2
    BY <1>1
  <2> QED
    BY <1>4, <2>1 DEF S
<1> DEFINE h == [p \in P |-> Verdict(topic, origin, g, p)]
<1>6. \A p \in P : g[p] = h[p]
  BY <1>5
<1> HIDE DEF h
<1>7. \A p \in P : Verdict(topic, origin, g, p) = Verdict(topic, origin, h, p)
  BY <1>6, VerdictNeedsLater DEF P
<1>8. h = [p \in P |-> Verdict(topic, origin, h, p)]
  BY <1>7 DEF h
<1> QED
  BY <1>8 DEF P

LEMMA CompareIs ==
  ASSUME NEW topic \in Seq(Char), NEW origin \in Seq(Char)
  PROVE  \E g : /\ \A p \in Places(topic, origin) : g[p] = Verdict(topic, origin, g, p)
                /\ CompareTopics(topic, origin) = g[Place(1, 1, FALSE)]
<1> DEFINE Body(g) == [p \in Places(topic, origin) |-> Verdict(topic, origin, g, p)]
           from == CHOOSE g : g = Body(g)
<1>1. from = Body(from)
  BY LoopExists
<1>2. CompareTopics(topic, origin) = from[Place(1, 1, FALSE)]
  BY DEF CompareTopics
<1> HIDE DEF from
<1>3. \A p \in Places(topic, origin) : from[p] = Verdict(topic, origin, from, p)
  BY <1>1
<1> QED
  BY <1>2, <1>3

-----------------------------------------------------------------------------
(* The levels of a topic, and where each begins. *)

(* Levels L are those of the first k characters of s; level l begins at    *)
(* start[l], and a slash follows each but the last.                        *)
Cut(s, k, L, start) ==
  /\ L \in Seq(Seq(Char)) /\ Len(L) # 0
  /\ start \in [1..Len(L) -> Nat \ {0}] /\ start[1] = 1
  /\ \A l \in 1..Len(L) : l # Len(L) =>
       /\ start[l] + Len(L[l]) <= k
       /\ s[start[l] + Len(L[l])] = "/"
       /\ start[l + 1] = start[l] + Len(L[l]) + 1
  /\ start[Len(L)] + Len(L[Len(L)]) = k + 1
  /\ \A l \in 1..Len(L) : \A o \in 1..Len(L[l]) :
       s[start[l] + o - 1] = L[l][o] /\ L[l][o] # "/"

(* A slash begins a level.                                                 *)
LEMMA SlashCuts ==
  ASSUME NEW s \in Seq(Char), NEW k \in Nat, k + 1 <= Len(s), s[k + 1] = "/",
         NEW L, NEW start, Cut(s, k, L, start)
  PROVE  \E next : Cut(s, k + 1, Extend(L, s[k + 1]), next)
<1> DEFINE M == Append(L, <<>>)
           z == Len(L)
           next == [l \in 1..(z + 1) |-> IF l = z + 1 THEN k + 2 ELSE start[l]]
<1>1. Extend(L, s[k + 1]) = M
  BY DEF Extend
<1>2. /\ z \in Nat \ {0} /\ M \in Seq(Seq(Char)) /\ Len(M) = z + 1 /\ M[z + 1] = <<>>
      /\ \A l \in 1..z : M[l] = L[l] /\ L[l] \in Seq(Char)
  <2>1. L \in Seq(Seq(Char)) /\ z # 0 /\ <<>> \in Seq(Char)
    BY DEF Cut
  <2> QED
    BY <2>1
<1>3. \A l \in 1..(z + 1) : (l \in 1..z /\ l # z + 1) \/ l = z + 1
  BY <1>2
<1>4. \A l \in 1..z : Len(L[l]) \in Nat /\ start[l] \in Nat \ {0}
  <2>1. start \in [1..z -> Nat \ {0}]
    BY DEF Cut
  <2>2. \A l \in 1..z : Len(L[l]) \in Nat
    BY <1>2
  <2> QED
    BY <2>1, <2>2
<1>5. start[z] + Len(L[z]) = k + 1 /\ z \in 1..z /\ z + 1 \in 1..(z + 1) /\ 1 \in 1..z
      /\ 1 \in 1..(z + 1) /\ 1 # z + 1
  BY <1>2 DEF Cut
<1> HIDE DEF M, z
<1>6. next \in [1..(z + 1) -> Nat \ {0}] /\ next[1] = 1
  <2>1. start[1] = 1
    BY DEF Cut
  <2> QED
    BY <1>3, <1>4, <1>5, <2>1
<1>7. next[z + 1] = k + 2 /\ \A l \in 1..z : next[l] = start[l]
  BY <1>2, <1>3, <1>5
<1> HIDE DEF next
<1>8. ASSUME NEW l \in 1..(z + 1), l # z + 1
      PROVE  /\ next[l] + Len(M[l]) <= k + 1
             /\ s[next[l] + Len(M[l])] = "/"
             /\ next[l + 1] = next[l] + Len(M[l]) + 1
  <2>1. l \in 1..z /\ M[l] = L[l] /\ next[l] = start[l]
    BY <1>2, <1>3, <1>7, <1>8
  <2>2. CASE l = z
    BY <1>4, <1>5, <1>7, <2>1, <2>2
  <2>3. CASE l # z
    <3>1. l + 1 \in 1..z
      BY <1>2, <2>1, <2>3
    <3>2. /\ start[l] + Len(L[l]) <= k /\ s[start[l] + Len(L[l])] = "/"
          /\ start[l + 1] = start[l] + Len(L[l]) + 1
      BY <2>1, <2>3 DEF Cut, z
    <3> QED
      BY <1>4, <1>7, <2>1, <3>1, <3>2
  <2> QED
    BY <2>2, <2>3
<1>9. next[z + 1] + Len(M[z + 1]) = (k + 1) + 1
  BY <1>2, <1>7
<1>10. ASSUME NEW l \in 1..(z + 1), NEW o \in 1..Len(M[l])
       PROVE  s[next[l] + o - 1] = M[l][o] /\ M[l][o] # "/"
  <2>1. l # z + 1
    BY <1>2, <1>10
  <2>2. l \in 1..z /\ M[l] = L[l] /\ next[l] = start[l]
    BY <1>2, <1>3, <1>7, <2>1
  <2> QED
    BY <1>10, <2>2 DEF Cut, z
<1>11. Cut(s, k + 1, M, next)
  <2>1. Len(M) = z + 1 /\ Len(M) # 0 /\ M \in Seq(Seq(Char))
    BY <1>2
  <2>2. \A l \in 1..Len(M) : l # Len(M) =>
          /\ next[l] + Len(M[l]) <= k + 1
          /\ s[next[l] + Len(M[l])] = "/"
          /\ next[l + 1] = next[l] + Len(M[l]) + 1
    BY <1>8, <2>1
  <2>3. \A l \in 1..Len(M) : \A o \in 1..Len(M[l]) :
          s[next[l] + o - 1] = M[l][o] /\ M[l][o] # "/"
    BY <1>10, <2>1
  <2> QED
    BY <1>6, <1>9, <2>1, <2>2, <2>3 DEF Cut
<1> QED
  BY <1>1, <1>11

(* Another character is one more of the last level.                        *)
LEMMA CharExtends ==
  ASSUME NEW s \in Seq(Char), NEW k \in Nat, k + 1 <= Len(s), s[k + 1] # "/",
         NEW L, NEW start, Cut(s, k, L, start)
  PROVE  Cut(s, k + 1, Extend(L, s[k + 1]), start)
<1> DEFINE c == s[k + 1]
           z == Len(L)
           longer == Append(L[z], c)
           M == [L EXCEPT ![z] = longer]
<1>1. Extend(L, c) = M
  BY DEF Extend
<1>2. c \in Char
  <2>1. Len(s) \in Nat /\ k + 1 \in 1..Len(s)
    OBVIOUS
  <2> QED
    BY <2>1
<1>3. /\ L \in Seq(Seq(Char)) /\ z \in Nat \ {0} /\ z \in 1..z
      /\ \A l \in 1..z : L[l] \in Seq(Char) /\ Len(L[l]) \in Nat /\ start[l] \in Nat \ {0}
  <2>1. L \in Seq(Seq(Char)) /\ z # 0 /\ start \in [1..z -> Nat \ {0}]
    BY DEF Cut
  <2>2. z \in Nat \ {0} /\ \A l \in 1..z : L[l] \in Seq(Char)
    BY <2>1
  <2>3. \A l \in 1..z : Len(L[l]) \in Nat
    BY <2>2
  <2> HIDE DEF z
  <2>4. z \in 1..z /\ \A l \in 1..z : start[l] \in Nat \ {0}
    BY <2>1, <2>2
  <2> QED
    BY <2>1, <2>2, <2>3, <2>4
<1>4. /\ longer \in Seq(Char) /\ Len(longer) = Len(L[z]) + 1 /\ longer[Len(L[z]) + 1] = c
      /\ \A o \in 1..Len(L[z]) : longer[o] = L[z][o]
      /\ \A o \in 1..(Len(L[z]) + 1) : o \in 1..Len(L[z]) \/ o = Len(L[z]) + 1
  <2>1. L[z] \in Seq(Char)
    BY <1>3
  <2> QED
    BY <1>2, <2>1
<1> HIDE DEF longer, c
<1>5. M \in Seq(Seq(Char)) /\ Len(M) = z /\ M[z] = longer /\ \A l \in 1..z : l # z => M[l] = L[l]
  BY <1>3, <1>4
<1> HIDE DEF M, z
<1>6. start \in [1..z -> Nat \ {0}] /\ start[1] = 1 /\ start[z] + Len(L[z]) = k + 1
  BY DEF Cut, z
<1>7. ASSUME NEW l \in 1..z, l # z
      PROVE  /\ start[l] + Len(M[l]) <= k + 1
             /\ s[start[l] + Len(M[l])] = "/"
             /\ start[l + 1] = start[l] + Len(M[l]) + 1
  <2>1. /\ start[l] + Len(L[l]) <= k /\ s[start[l] + Len(L[l])] = "/"
        /\ start[l + 1] = start[l] + Len(L[l]) + 1
    BY <1>7 DEF Cut, z
  <2>2. M[l] = L[l] /\ Len(L[l]) \in Nat /\ start[l] \in Nat
    BY <1>3, <1>5, <1>7
  <2> QED
    BY <2>1, <2>2
<1>8. start[z] + Len(M[z]) = (k + 1) + 1
  <2>1. Len(M[z]) = Len(L[z]) + 1 /\ Len(L[z]) \in Nat /\ start[z] \in Nat
    BY <1>3, <1>4, <1>5
  <2> QED
    BY <1>6, <2>1
<1>9. ASSUME NEW l \in 1..z, NEW o \in 1..Len(M[l])
      PROVE  s[start[l] + o - 1] = M[l][o] /\ M[l][o] # "/"
  <2>1. CASE l # z \/ o # Len(L[z]) + 1
    <3>1. o \in 1..Len(L[l]) /\ M[l][o] = L[l][o]
      BY <1>4, <1>5, <1>9, <2>1
    <3> QED
      BY <3>1 DEF Cut, z
  <2>2. CASE l = z /\ o = Len(L[z]) + 1
    <3>1. M[l][o] = c
      BY <1>4, <1>5, <2>2
    <3>2. start[l] + o - 1 = k + 1
      BY <1>3, <1>6, <2>2
    <3> QED
      BY <3>1, <3>2 DEF c
  <2> QED
    BY <2>1, <2>2
<1>10. Cut(s, k + 1, M, start)
  BY <1>3, <1>5, <1>6, <1>7, <1>8, <1>9 DEF Cut
<1> QED
  BY <1>1, <1>10 DEF c

(* upTo[k] are the levels of the first k characters of s. *)
LevelsUpTo(s, upTo) ==
  /\ upTo[0] = << <<>> >> /\ upTo[Len(s)] = Levels(s)
  /\ \A k \in 1..Len(s) : upTo[k] = Extend(upTo[k - 1], s[k])

LEMMA LevelsGrow ==
  ASSUME NEW s \in Seq(Char)
  PROVE  \E upTo : LevelsUpTo(s, upTo)
<1> DEFINE n == Len(s)
           Turn(g, i) == IF i = 0 THEN << <<>> >> ELSE Extend(g[i - 1], s[i])
           Body(g) == [i \in 0..n |-> Turn(g, i)]
           upTo == CHOOSE g : g = Body(g)
<1>1. n \in Nat
  OBVIOUS
<1>2. \E g : g = Body(g)
  <2> DEFINE S == {d \in Nat : \E g : \A i \in 0..n : i <= d => g[i] = Turn(g, i)}
  <2>1. 0 \in S
    <3>1. \A i \in 0..n : i <= 0 => i = 0
      BY <1>1
    <3>2. \A i \in 0..n : i <= 0 => [j \in {0} |-> << <<>> >>][i] = Turn([j \in {0} |-> << <<>> >>], i)
      BY <3>1
    <3> QED
      BY <3>2
  <2>2. ASSUME NEW d \in Nat, d \in S PROVE d + 1 \in S
    <3>1. PICK g : \A i \in 0..n : i <= d => g[i] = Turn(g, i)
      BY <2>2
    <3> DEFINE h == Body(g)
    <3>2. ASSUME NEW i \in 0..n, i <= d + 1 PROVE h[i] = Turn(h, i)
      <4>1. CASE i = 0
        BY <4>1
      <4>2. CASE i # 0
        <5>1. i - 1 \in 0..n /\ i - 1 <= d
          BY <1>1, <3>2, <4>2
        <5>2. g[i - 1] = Turn(g, i - 1) /\ h[i - 1] = Turn(g, i - 1)
          BY <3>1, <5>1
        <5>3. h[i] = Extend(g[i - 1], s[i])
          BY <4>2
        <5> HIDE DEF h
        <5> QED
          BY <4>2, <5>2, <5>3
      <4> QED
        BY <4>1, <4>2
    <3> HIDE DEF h
    <3> QED
      BY <3>2
  <2> HIDE DEF S
  <2>3. n \in S
    <3>1. Nat \subseteq S
      BY <2>1, <2>2, NatSetInduction
    <3> QED
      BY <1>1, <3>1
  <2>4. PICK g : \A i \in 0..n : i <= n => g[i] = Turn(g, i)
    BY <2>3 DEF S
  <2> DEFINE h == Body(g)
  <2>5. \A i \in 0..n : g[i] = h[i]
    BY <1>1, <2>4
  <2>6. \A i \in 0..n : i # 0 => i - 1 \in 0..n
    BY <1>1
  <2>7. \A i \in 0..n : Turn(g, i) = Turn(h, i)
    <3> HIDE DEF h
    <3> QED
      BY <2>5, <2>6
  <2>8. h = Body(h)
    BY <2>7
  <2> QED
    BY <2>8
<1>3. upTo = Body(upTo)
  BY <1>2
<1>4. Levels(s) = upTo[n]
  BY DEF Levels
<1> HIDE DEF upTo
<1>5. \A i \in 0..n : upTo[i] = Turn(upTo, i)
  BY <1>3
<1>6. \A i \in 1..n : i \in 0..n /\ i # 0
  BY <1>1
<1>7. 0 \in 0..n
  BY <1>1
<1> QED
  BY <1>4, <1>5, <1>6, <1>7 DEF LevelsUpTo

LEMMA LevelsAre ==
  ASSUME NEW s \in Seq(Char)
  PROVE  \E start : Cut(s, Len(s), Levels(s), start)
<1> DEFINE n == Len(s)
<1>1. n \in Nat
  OBVIOUS
<1>2. PICK upTo : LevelsUpTo(s, upTo)
  BY LevelsGrow
<1>3. /\ upTo[0] = << <<>> >> /\ upTo[n] = Levels(s)
      /\ \A k \in 1..n : upTo[k] = Extend(upTo[k - 1], s[k])
  BY <1>2 DEF LevelsUpTo
<1> DEFINE R == {k \in Nat : k <= n => \E start : Cut(s, k, upTo[k], start)}
<1>6. 0 \in R
  <2> DEFINE L == << <<>> >>
             start == [l \in {1} |-> 1]
  <2>1. upTo[0] = L
    BY <1>3
  <2>2. L \in Seq(Seq(Char)) /\ Len(L) = 1 /\ L[1] = <<>>
    <3>1. <<>> \in Seq(Char)
      OBVIOUS
    <3> QED
      BY <3>1
  <2>3. start \in [1..1 -> Nat \ {0}] /\ start[1] = 1
    OBVIOUS
  <2> HIDE DEF L, start
  <2>4. Cut(s, 0, L, start)
    BY <2>2, <2>3 DEF Cut
  <2> QED
    BY <2>1, <2>4
<1>7. ASSUME NEW k \in Nat, k \in R PROVE k + 1 \in R
  <2> SUFFICES ASSUME k + 1 <= n PROVE \E start : Cut(s, k + 1, upTo[k + 1], start)
    OBVIOUS
  <2>1. PICK start : Cut(s, k, upTo[k], start)
    BY <1>1, <1>7
  <2>2. upTo[k + 1] = Extend(upTo[k], s[k + 1])
    <3>1. k + 1 \in 1..n /\ (k + 1) - 1 = k
      BY <1>1
    <3> QED
      BY <1>3, <3>1
  <2>3. CASE s[k + 1] = "/"
    BY <2>1, <2>2, <2>3, SlashCuts
  <2>4. CASE s[k + 1] # "/"
    BY <2>1, <2>2, <2>4, CharExtends
  <2> QED
    BY <2>3, <2>4
<1> HIDE DEF R
<1>8. n \in R
  <2>1. Nat \subseteq R
    BY <1>6, <1>7, NatSetInduction
  <2> QED
    BY <1>1, <2>1
<1>9. \E start : Cut(s, n, upTo[n], start)
  BY <1>1, <1>8 DEF R
<1> QED
  BY <1>3, <1>9

-----------------------------------------------------------------------------
(* The loop follows the levels of a topic that matches. *)

(* Path f, of levels F, matches topic t, of levels T: the same level, or a *)
(* "+" that is not the first; and no level of the path but the first is    *)
(* empty.                                                                  *)
Matching(f, F, sf, t, T, st) ==
  /\ f \in Seq(Char) /\ t \in Seq(Char \ {"+", "#"})
  /\ Cut(f, Len(f), F, sf) /\ Cut(t, Len(t), T, st)
  /\ Len(F) = Len(T) /\ F[1] = T[1]
  /\ \A l \in 1..Len(F) : F[l] \in {<<"+">>, T[l]} /\ (l # 1 => F[l] # <<>>)

(* At place p both iterators are in level l: behind as many characters of  *)
(* it, at its beginning, or the path's at a "+" and the topic's anywhere.  *)
InStep(F, sf, T, st, p, l) ==
  \/ /\ F[l] = T[l] /\ ~p.slash
     /\ \E o \in 0..Len(F[l]) : p.i = sf[l] + o /\ p.j = st[l] + o /\ (l = 1 \/ o # 0)
  \/ F[l] = T[l] /\ p.slash /\ l # 1 /\ p.i = sf[l] /\ p.j = st[l]
  \/ /\ F[l] = <<"+">> /\ p.slash /\ l # 1 /\ p.i = sf[l]
     /\ \E o \in 0..Len(T[l]) : p.j = st[l] + o

LEMMA CutIs ==
  ASSUME NEW s \in Seq(Char), NEW L, NEW start, Cut(s, Len(s), L, start), NEW l \in 1..Len(L)
  PROVE  /\ Len(s) \in Nat /\ Len(L) \in Nat /\ 1 \in 1..Len(L)
         /\ start[1] = 1
         /\ Len(L[l]) \in Nat /\ start[l] \in Nat \ {0}
         /\ l = Len(L) => start[l] + Len(L[l]) = Len(s) + 1
         /\ l # Len(L) => /\ l + 1 \in 1..Len(L)
                          /\ start[l] + Len(L[l]) <= Len(s)
                          /\ s[start[l] + Len(L[l])] = "/"
                          /\ start[l + 1] = start[l] + Len(L[l]) + 1
         /\ \A o \in 1..Len(L[l]) : s[start[l] + o - 1] = L[l][o] /\ L[l][o] # "/"
<1> DEFINE z == Len(L)
<1>1. L \in Seq(Seq(Char)) /\ z # 0 /\ start \in [1..z -> Nat \ {0}] /\ Len(s) \in Nat
  BY DEF Cut
<1>2. z \in Nat \ {0} /\ L[l] \in Seq(Char)
  BY <1>1
<1>3. Len(L[l]) \in Nat
  BY <1>2
<1>4. /\ start[1] = 1
      /\ l = z => start[l] + Len(L[l]) = Len(s) + 1
      /\ l # z => /\ start[l] + Len(L[l]) <= Len(s)
                  /\ s[start[l] + Len(L[l])] = "/"
                  /\ start[l + 1] = start[l] + Len(L[l]) + 1
      /\ \A o \in 1..Len(L[l]) : s[start[l] + o - 1] = L[l][o] /\ L[l][o] # "/"
  BY DEF Cut
<1>5. l \in 1..z
  OBVIOUS
<1> HIDE DEF z
<1>6. start[l] \in Nat \ {0} /\ 1 \in 1..z /\ (l # z => l + 1 \in 1..z)
  BY <1>1, <1>2, <1>5
<1> QED
  BY <1>1, <1>2, <1>3, <1>4, <1>6 DEF z

LEMMA StepFollows ==
  ASSUME NEW f, NEW F, NEW sf, NEW t, NEW T, NEW st, Matching(f, F, sf, t, T, st),
         NEW p \in Places(f, t), NEW l \in 1..Len(F), InStep(F, sf, T, st, p, l), NEW g
  PROVE  \/ Verdict(f, t, g, p) = "yes"
         \/ \E q \in Places(f, t) :
              /\ Verdict(f, t, g, p) = g[q] /\ q.j = p.j + 1
              /\ \E k \in 1..Len(F) : InStep(F, sf, T, st, q, k)
<1> DEFINE m == Len(f)
           n == Len(t)
           i == p.i
           j == p.j
           z == Len(F)
           a == Len(F[l])
           b == Len(T[l])
           x == sf[l]
           y == st[l]
<1>1. /\ f \in Seq(Char) /\ t \in Seq(Char) /\ z = Len(T)
      /\ F[l] \in {<<"+">>, T[l]} /\ (l # 1 => F[l] # <<>>)
  BY DEF Matching
<1>2. l \in 1..Len(T) /\ Cut(f, Len(f), F, sf) /\ Cut(t, Len(t), T, st)
  BY <1>1 DEF Matching
<1>3. /\ m \in Nat /\ z \in Nat /\ a \in Nat /\ x \in Nat \ {0}
      /\ l = z => x + a = m + 1
      /\ l # z => l + 1 \in 1..z /\ x + a <= m /\ f[x + a] = "/" /\ sf[l + 1] = x + a + 1
      /\ \A o \in 1..a : f[x + o - 1] = F[l][o]
  BY <1>1, <1>2, CutIs
<1>4. /\ n \in Nat /\ b \in Nat /\ y \in Nat \ {0}
      /\ l = z => y + b = n + 1
      /\ l # z => y + b <= n /\ t[y + b] = "/" /\ st[l + 1] = y + b + 1
      /\ \A o \in 1..b : t[y + o - 1] = T[l][o] /\ T[l][o] # "/"
  <2>1. /\ Len(t) \in Nat /\ Len(T[l]) \in Nat /\ st[l] \in Nat \ {0}
        /\ l = Len(T) => st[l] + Len(T[l]) = Len(t) + 1
        /\ l # Len(T) => /\ st[l] + Len(T[l]) <= Len(t)
                         /\ t[st[l] + Len(T[l])] = "/"
                         /\ st[l + 1] = st[l] + Len(T[l]) + 1
        /\ \A o \in 1..Len(T[l]) : t[st[l] + o - 1] = T[l][o] /\ T[l][o] # "/"
    BY <1>1, <1>2, CutIs
  <2> QED
    BY <1>1, <2>1
<1>5. \A k \in 1..n : t[k] \notin {"+", "#"}
  BY DEF Matching
<1>6. /\ F[l] = T[l] => a = b
      /\ F[l] = <<"+">> => a = 1 /\ F[l][1] = "+"
  <2>1. Len(<<"+">>) = 1 /\ <<"+">>[1] = "+"
    OBVIOUS
  <2> QED
    BY <2>1, Zenon
<1>7. l # z => l + 1 \in 1..z /\ l + 1 # 1 /\ F[l + 1] \in {<<"+">>, T[l + 1]}
               /\ Len(T[l + 1]) \in Nat
  <2>1. l # z => l + 1 \in 1..z /\ l + 1 # 1
    <3>1. l \in 1..z
      OBVIOUS
    <3> HIDE DEF z
    <3> QED
      BY <1>3, <3>1
  <2>2. l # z => F[l + 1] \in {<<"+">>, T[l + 1]}
    BY <2>1 DEF Matching
  <2>3. l # z => Len(T[l + 1]) \in Nat
    BY <1>1, <1>2, <2>1, CutIs
  <2> QED
    BY <2>1, <2>2, <2>3
<1>8. p.slash \in BOOLEAN /\ l \in 1..z
  BY DEF Places
<1> HIDE DEF m, n, i, j, z, a, b, x, y
<1>9. /\ m \in Nat /\ n \in Nat /\ a \in Nat /\ b \in Nat /\ x \in Nat \ {0} /\ y \in Nat \ {0}
      /\ x + a <= m + 1 /\ y + b <= n + 1
  BY <1>3, <1>4
<1>10. ASSUME NEW o \in 0..a, F[l] = T[l], ~p.slash, i = x + o, j = y + o
       PROVE  \/ Verdict(f, t, g, p) = "yes"
              \/ \E q \in Places(f, t) :
                   /\ Verdict(f, t, g, p) = g[q] /\ q.j = p.j + 1
                   /\ \E k \in 1..z : InStep(F, sf, T, st, q, k)
  <2>1. CASE o # a
    <3> DEFINE q == Place(i + 1, j + 1, FALSE)
               u == o + 1
    <3>1. i \in 1..m /\ j \in 1..n /\ u \in 1..a /\ i = x + u - 1 /\ j = y + u - 1 /\ a = b
      BY <1>6, <1>9, <1>10, <2>1
    <3> HIDE DEF u
    <3>2. f[i] = t[j] /\ f[i] \notin {"+", "#", "/"}
      <4>1. f[i] = F[l][u] /\ t[j] = T[l][u] /\ T[l][u] # "/"
        BY <1>3, <1>4, <3>1
      <4> QED
        BY <1>5, <1>10, <3>1, <4>1
    <3>3. ~(i > m + 1 \/ j > n + 1) /\ ~(i = m + 1 \/ j = n + 1)
      BY <1>9, <3>1
    <3>4. SameChar(f, i, t, j) /\ (f[i] = "/") = FALSE
      BY <3>2 DEF SameChar
    <3>5. Verdict(f, t, g, p) = g[q]
      BY <1>10, <3>3, <3>4 DEF Verdict, m, n, i, j
    <3>6. i + 1 \in 1..(m + 2) /\ j + 1 \in 1..(n + 2)
      BY <1>9, <3>1
    <3>7. q \in Places(f, t) /\ q.i = i + 1 /\ q.j = j + 1 /\ q.slash = FALSE
      BY <3>6 DEF Place, Places, m, n
    <3> HIDE DEF q
    <3>8. u \in 0..a /\ u # 0 /\ i + 1 = x + u /\ j + 1 = y + u
      BY <1>9, <3>1
    <3>9. InStep(F, sf, T, st, q, l)
      BY <1>10, <3>7, <3>8 DEF InStep, a, x, y
    <3> QED
      BY <1>8, <3>5, <3>7, <3>9 DEF j
  <2>2. CASE o = a /\ l = z
    <3>1. i = m + 1 /\ j = n + 1
      BY <1>3, <1>4, <1>6, <1>10, <2>2
    <3>2. ~(i > m + 1 \/ j > n + 1) /\ i > m /\ j > n
      BY <1>9, <3>1
    <3>3. ReachedEnds(f, i, t, j)
      BY <3>2 DEF ReachedEnds, m, n
    <3> QED
      BY <3>1, <3>2, <3>3 DEF Verdict, m, n, i, j
  <2>3. CASE o = a /\ l # z
    <3> DEFINE q == Place(i + 1, j + 1, TRUE)
    <3>1. /\ x + a <= m /\ y + b <= n /\ f[x + a] = "/" /\ t[y + b] = "/"
          /\ sf[l + 1] = x + a + 1 /\ st[l + 1] = y + b + 1
      BY <1>3, <1>4, <2>3
    <3>2. i = x + a /\ j = y + b
      BY <1>6, <1>10, <2>3
    <3>3. i \in 1..m /\ j \in 1..n
      BY <1>9, <3>1, <3>2
    <3>4. ~(i > m + 1 \/ j > n + 1) /\ ~(i = m + 1 \/ j = n + 1)
      BY <1>9, <3>3
    <3>5. SameChar(f, i, t, j) /\ (f[i] = "/") = TRUE
      BY <3>1, <3>2 DEF SameChar
    <3>6. Verdict(f, t, g, p) = g[q]
      BY <1>10, <3>4, <3>5 DEF Verdict, m, n, i, j
    <3>7. i + 1 \in 1..(m + 2) /\ j + 1 \in 1..(n + 2)
      BY <1>9, <3>3
    <3>8. q \in Places(f, t) /\ q.i = i + 1 /\ q.j = j + 1 /\ q.slash = TRUE
      BY <3>7 DEF Place, Places, m, n
    <3>9. q.i = sf[l + 1] /\ q.j = st[l + 1]
      BY <3>1, <3>2, <3>8
    <3> HIDE DEF q
    <3>10. InStep(F, sf, T, st, q, l + 1)
      <4>1. CASE F[l + 1] = T[l + 1]
        BY <1>7, <2>3, <3>8, <3>9, <4>1 DEF InStep
      <4>2. CASE F[l + 1] = <<"+">>
        <5>1. 0 \in 0..Len(T[l + 1]) /\ q.j = st[l + 1] + 0
          BY <1>7, <1>9, <2>3, <3>1, <3>9
        <5> QED
          BY <1>7, <2>3, <3>8, <3>9, <4>2, <5>1 DEF InStep
      <4> QED
        BY <1>7, <2>3, <4>1, <4>2
    <3> QED
      BY <1>7, <2>3, <3>6, <3>8, <3>10 DEF j
  <2> QED
    BY <2>1, <2>2, <2>3
<1>11. ASSUME F[l] = T[l], p.slash, l # 1, i = x, j = y
       PROVE  \E q \in Places(f, t) :
                /\ Verdict(f, t, g, p) = g[q] /\ q.j = p.j + 1
                /\ \E k \in 1..z : InStep(F, sf, T, st, q, k)
  <2> DEFINE q == Place(i + 1, j + 1, FALSE)
  <2>1. a # 0
    <3>1. F[l] \in Seq(Char) /\ F[l] # <<>>
      <4>1. F \in Seq(Seq(Char))
        BY DEF Matching, Cut
      <4> QED
        BY <1>1, <1>11, <4>1
    <3> QED
      BY <3>1 DEF a
  <2>2. i \in 1..m /\ j \in 1..n /\ 1 \in 1..a /\ i = x + 1 - 1 /\ j = y + 1 - 1 /\ a = b
    BY <1>6, <1>9, <1>11, <2>1
  <2>3. f[i] \notin {"+", "#", "/"}
    <3>1. f[i] = F[l][1] /\ t[j] = T[l][1] /\ T[l][1] # "/"
      BY <1>3, <1>4, <2>2
    <3> QED
      BY <1>5, <1>11, <2>2, <3>1
  <2>4. ~(i > m + 1 \/ j > n + 1) /\ ~(i = m + 1 \/ j = n + 1)
    BY <1>9, <2>2
  <2>5. Verdict(f, t, g, p) = g[q]
    BY <1>11, <2>3, <2>4 DEF Verdict, m, n, i, j
  <2>6. i + 1 \in 1..(m + 2) /\ j + 1 \in 1..(n + 2)
    BY <1>9, <2>2
  <2>7. q \in Places(f, t) /\ q.i = i + 1 /\ q.j = j + 1 /\ q.slash = FALSE
    BY <2>6 DEF Place, Places, m, n
  <2> HIDE DEF q
  <2>8. 1 \in 0..a /\ 1 # 0 /\ i + 1 = x + 1 /\ j + 1 = y + 1
    BY <1>9, <1>11, <2>2
  <2>9. InStep(F, sf, T, st, q, l)
    BY <1>11, <2>7, <2>8 DEF InStep, a, x, y
  <2> QED
    BY <1>8, <2>5, <2>7, <2>9 DEF j
<1>12. ASSUME NEW o \in 0..b, F[l] = <<"+">>, p.slash, l # 1, i = x, j = y + o
       PROVE  \/ Verdict(f, t, g, p) = "yes"
              \/ \E q \in Places(f, t) :
                   /\ Verdict(f, t, g, p) = g[q] /\ q.j = p.j + 1
                   /\ \E k \in 1..z : InStep(F, sf, T, st, q, k)
  <2>1. a = 1 /\ i \in 1..m /\ f[i] = "+" /\ i + 1 <= m + 1
    <3>1. a = 1 /\ F[l][1] = "+" /\ 1 \in 1..a /\ i = x + 1 - 1
      BY <1>6, <1>9, <1>12
    <3>2. f[i] = F[l][1]
      BY <1>3, <3>1
    <3>3. i \in 1..m /\ i + 1 <= m + 1
      BY <1>9, <1>12, <3>1
    <3> QED
      BY <3>1, <3>2, <3>3
  <2>2. CASE o # b
    <3> DEFINE q == Place(i, j + 1, TRUE)
               u == o + 1
    <3>1. j \in 1..n /\ u \in 1..b /\ j = y + u - 1
      <4>1. j = y + o /\ o \in 0..b /\ o # b /\ b \in Nat /\ y \in Nat \ {0}
            /\ n \in Nat /\ y + b <= n + 1
        BY <1>9, <1>12, <2>2
      <4> HIDE DEF u
      <4>2. o + 1 \in 1..b
        BY <4>1
      <4> QED
        BY <4>1, <4>2 DEF u
    <3> HIDE DEF u
    <3>2. t[j] # "/"
      BY <1>4, <3>1
    <3>3. ~(i > m + 1 \/ j > n + 1) /\ ~(i = m + 1 \/ j = n + 1)
      BY <1>9, <2>1, <3>1
    <3>4. Verdict(f, t, g, p) = g[q]
      BY <1>12, <2>1, <3>2, <3>3 DEF Verdict, m, n, i, j
    <3>5. i \in 1..(m + 2) /\ j + 1 \in 1..(n + 2)
      BY <1>9, <2>1, <3>1
    <3>6. q \in Places(f, t) /\ q.i = i /\ q.j = j + 1 /\ q.slash = TRUE
      BY <3>5 DEF Place, Places, m, n
    <3> HIDE DEF q
    <3>7. u \in 0..b /\ j + 1 = y + u
      BY <1>9, <3>1
    <3>8. InStep(F, sf, T, st, q, l)
      BY <1>12, <3>6, <3>7 DEF InStep, b, x, y
    <3> QED
      BY <1>8, <3>4, <3>6, <3>8 DEF j
  <2>3. CASE o = b /\ l # z
    <3> DEFINE q == Place(i + 2, j + 1, TRUE)
    <3>1. /\ x + a <= m /\ y + b <= n /\ t[y + b] = "/"
          /\ sf[l + 1] = x + a + 1 /\ st[l + 1] = y + b + 1
      BY <1>3, <1>4, <2>3
    <3>2. j = y + b /\ x + a = i + 1
      BY <1>12, <2>1, <2>3
    <3>3. j \in 1..n /\ sf[l + 1] = i + 2
      BY <1>9, <2>1, <3>1, <3>2
    <3>4. ~(i > m + 1 \/ j > n + 1) /\ ~(i = m + 1 \/ j = n + 1)
      BY <1>9, <2>1, <3>3
    <3>5. Verdict(f, t, g, p) = g[q]
      BY <1>12, <2>1, <3>1, <3>2, <3>4 DEF Verdict, m, n, i, j
    <3>6. i + 2 \in 1..(m + 2) /\ j + 1 \in 1..(n + 2)
      BY <1>9, <2>1, <3>3
    <3>7. q \in Places(f, t) /\ q.i = i + 2 /\ q.j = j + 1 /\ q.slash = TRUE
      BY <3>6 DEF Place, Places, m, n
    <3>8. q.i = sf[l + 1] /\ q.j = st[l + 1]
      BY <3>1, <3>2, <3>3, <3>7
    <3> HIDE DEF q
    <3>9. InStep(F, sf, T, st, q, l + 1)
      <4>1. CASE F[l + 1] = T[l + 1]
        BY <1>7, <2>3, <3>7, <3>8, <4>1 DEF InStep
      <4>2. CASE F[l + 1] = <<"+">>
        <5>1. 0 \in 0..Len(T[l + 1]) /\ q.j = st[l + 1] + 0
          BY <1>7, <1>9, <2>3, <3>1, <3>8
        <5> QED
          BY <1>7, <2>3, <3>7, <3>8, <4>2, <5>1 DEF InStep
      <4> QED
        BY <1>7, <2>3, <4>1, <4>2
    <3> QED
      BY <1>7, <2>3, <3>5, <3>7, <3>9 DEF j
  <2>4. CASE o = b /\ l = z
    <3>1. x + a = m + 1 /\ y + b = n + 1
      BY <1>3, <1>4, <2>4
    <3>2. i = m /\ j = n + 1
      BY <1>9, <1>12, <2>1, <2>4, <3>1
    <3>3. ~(i > m + 1 \/ j > n + 1) /\ j > n
      BY <1>9, <3>2
    <3>4. ReachedEnds(f, i, t, j)
      BY <2>1, <3>2, <3>3 DEF ReachedEnds, m, n
    <3> QED
      BY <3>2, <3>3, <3>4 DEF Verdict, m, n, i, j
  <2> QED
    BY <2>2, <2>3, <2>4
<1>13. CASE F[l] = T[l] /\ ~p.slash
  <2>1. PICK o \in 0..a : i = x + o /\ j = y + o
    <3>1. (F[l] = T[l] /\ F[l] # <<"+">>) \/ F[l] = <<"+">>
      BY <1>1
    <3> QED
      BY <1>13 DEF InStep, i, j, a, x, y
  <2> QED
    BY <1>10, <1>13, <2>1 DEF z
<1>14. CASE F[l] = T[l] /\ p.slash /\ l # 1 /\ p.i = sf[l] /\ p.j = st[l]
  BY <1>11, <1>14 DEF i, j, x, y, z
<1>15. CASE F[l] = <<"+">> /\ p.slash /\ l # 1 /\ p.i = sf[l] /\ \E o \in 0..Len(T[l]) : p.j = st[l] + o
  <2>1. PICK o \in 0..b : j = y + o
    BY <1>15 DEF j, b, y
  <2> QED
    BY <1>12, <1>15, <2>1 DEF i, j, x, y, z
<1> QED
  BY <1>13, <1>14, <1>15 DEF InStep

(* A topic that matches is found equal. *)
LEMMA MatchingIsFound ==
  ASSUME NEW f, NEW F, NEW sf, NEW t, NEW T, NEW st, Matching(f, F, sf, t, T, st)
  PROVE  CompareTopics(f, t) = "yes"
<1> DEFINE n == Len(t)
           P == Places(f, t)
           In(p) == \E l \in 1..Len(F) : InStep(F, sf, T, st, p, l)
<1>1. f \in Seq(Char) /\ t \in Seq(Char) /\ n \in Nat
  BY DEF Matching
<1>2. PICK g : /\ \A p \in P : g[p] = Verdict(f, t, g, p)
               /\ CompareTopics(f, t) = g[Place(1, 1, FALSE)]
  BY <1>1, CompareIs
<1> DEFINE S == {d \in Nat : \A p \in P : In(p) /\ p.j + d = n + 3 => g[p] = "yes"}
<1>3. \A p \in P : p.j \in 1..(n + 2)
  BY DEF Places
<1>4. \A p \in P : In(p) => \/ g[p] = "yes"
                            \/ \E q \in P : g[p] = g[q] /\ q.j = p.j + 1 /\ In(q)
  <2> SUFFICES ASSUME NEW p \in P, In(p)
               PROVE  \/ g[p] = "yes"
                      \/ \E q \in P : g[p] = g[q] /\ q.j = p.j + 1 /\ In(q)
    OBVIOUS
  <2>1. PICK l \in 1..Len(F) : InStep(F, sf, T, st, p, l)
    OBVIOUS
  <2>2. \/ Verdict(f, t, g, p) = "yes"
        \/ \E q \in P : /\ Verdict(f, t, g, p) = g[q] /\ q.j = p.j + 1
                        /\ \E k \in 1..Len(F) : InStep(F, sf, T, st, q, k)
    BY <2>1, StepFollows
  <2> QED
    BY <1>2, <2>2
<1> HIDE DEF P, n, In
<1>5. 0 \in S
  BY <1>1, <1>3
<1>6. ASSUME NEW d \in Nat, d \in S PROVE d + 1 \in S
  <2> SUFFICES ASSUME NEW p \in P, In(p), p.j + (d + 1) = n + 3 PROVE g[p] = "yes"
    OBVIOUS
  <2>1. ASSUME NEW q \in P, In(q), g[p] = g[q], q.j = p.j + 1 PROVE g[q] = "yes"
    <3>1. q.j + d = n + 3
      BY <1>1, <1>3, <2>1
    <3> QED
      BY <1>6, <2>1, <3>1
  <2> QED
    BY <1>4, <2>1
<1>7. n + 2 \in S
  <2> HIDE DEF S
  <2>1. Nat \subseteq S
    BY <1>5, <1>6, NatSetInduction
  <2> QED
    BY <1>1, <2>1
<1> DEFINE p == Place(1, 1, FALSE)
<1>8. p \in P /\ p.i = 1 /\ p.j = 1 /\ p.slash = FALSE
  <2>1. Len(f) \in Nat
    BY <1>1
  <2>2. 1 \in 1..(Len(f) + 2) /\ 1 \in 1..(n + 2)
    BY <1>1, <2>1
  <2> QED
    BY <2>2 DEF P, n, Place, Places
<1> HIDE DEF p
<1>9. In(p)
  <2>1. /\ 1 \in 1..Len(F) /\ F[1] = T[1] /\ sf[1] = 1 /\ st[1] = 1 /\ Len(F[1]) \in Nat
    <3>1. F \in Seq(Seq(Char)) /\ Len(F) # 0 /\ sf[1] = 1 /\ st[1] = 1 /\ F[1] = T[1]
      BY DEF Matching, Cut
    <3>2. 1 \in 1..Len(F) /\ F[1] \in Seq(Char)
      BY <3>1
    <3> QED
      BY <3>1, <3>2
  <2>2. 0 \in 0..Len(F[1]) /\ p.i = sf[1] + 0 /\ p.j = st[1] + 0
    BY <1>8, <2>1
  <2>3. InStep(F, sf, T, st, p, 1)
    BY <1>8, <2>1, <2>2 DEF InStep
  <2> QED
    BY <2>1, <2>3 DEF In
<1>10. p.j + (n + 2) = n + 3
  BY <1>1, <1>8
<1>11. g[p] = "yes"
  BY <1>7, <1>8, <1>9, <1>10
<1> QED
  BY <1>2, <1>11 DEF p

(* What a path with a leading slash, no empty level and no "#" matches is a *)
(* topic its comparison accepts.                                            *)
LEMMA MatchedIsFound ==
  ASSUME NEW f \in Seq(Char), NEW t \in Seq(Char \ {"+", "#"}), Matches(f, t), f[1] = "/",
         ~EmptyLevel(f), <<"#">> \notin {Levels(f)[k] : k \in 1..Len(Levels(f))}
  PROVE  CompareTopics(f, t) = "yes"
<1> DEFINE F == Levels(f)
           T == Levels(t)
           z == Len(F)
<1>1. t \in Seq(Char)
  OBVIOUS
<1>2. PICK sf : Cut(f, Len(f), F, sf)
  BY LevelsAre
<1>3. PICK st : Cut(t, Len(t), T, st)
  BY <1>1, LevelsAre
<1>4. F \in Seq(Seq(Char)) /\ z \in Nat \ {0} /\ z \in 1..z /\ 1 \in 1..z
  <2>1. F \in Seq(Seq(Char)) /\ z # 0
    BY <1>2 DEF Cut
  <2>2. z \in Nat
    BY <2>1
  <2> HIDE DEF z
  <2> QED
    BY <2>1, <2>2
<1>5. F[z] # <<"#">>
  BY <1>4
<1>6. z = Len(T) /\ \A l \in 1..z : F[l] \in {<<"+">>, T[l]}
  BY <1>5 DEF Matches
<1>7. F[1] = <<>>
  <2>1. F[1] \in Seq(Char) /\ Len(F[1]) \in Nat
    <3>1. F[1] \in Seq(Char)
      BY <1>4
    <3> QED
      BY <3>1
  <2>2. CASE 1 \in 1..Len(F[1])
    <3>1. sf[1] = 1 /\ f[sf[1] + 1 - 1] = F[1][1] /\ F[1][1] # "/"
      BY <1>2, <1>4, <2>2 DEF Cut
    <3> QED
      BY <3>1
  <2>3. CASE 1 \notin 1..Len(F[1])
    <3>1. Len(F[1]) = 0
      BY <2>1, <2>3
    <3> QED
      BY <2>1, <3>1
  <2> QED
    BY <2>2, <2>3
<1>8. F[1] = T[1]
  <2>1. <<>> # <<"+">>
    OBVIOUS
  <2> QED
    BY <1>4, <1>6, <1>7, <2>1
<1>9. \A l \in 1..z : l # 1 => F[l] # <<>>
  <2>1. \A l \in 1..z : l # 1 => l \in 2..z
    BY <1>4
  <2> QED
    BY <2>1 DEF EmptyLevel
<1>10. Matching(f, F, sf, t, T, st)
  <2> HIDE DEF F, T
  <2> QED
    BY <1>2, <1>3, <1>6, <1>8, <1>9 DEF Matching
<1> QED
  BY <1>10, MatchingIsFound

(* The last message has gone to every consumer whose path it was compared  *)
(* equal to, as its topic was read.                                        *)
FoundAreHandled ==
  message # None =>
    \A h \in handlers : CompareTopics(FullPath(h), read) = "yes" => h \in handled

LEMMA FoundStay ==
  ASSUME RoutingInv, FoundAreHandled, [RoutingNext]_routingVars
  PROVE  FoundAreHandled'
<1>1. CASE \E h \in Handler : Register(h)
  BY <1>1 DEF Register, FoundAreHandled
<1>2. CASE SubscribeLate \/ Connects \/ SubscribeNext \/ SubscribedAll \/ UNCHANGED routingVars
  <2>1. UNCHANGED <<handlers, message, read, handled>>
    BY <1>2 DEF SubscribeLate, Connects, SubscribeNext, SubscribedAll, routingVars
  <2> QED
    BY <2>1 DEF FoundAreHandled, FullPath
<1>3. CASE Breaks
  BY <1>3 DEF Breaks, FoundAreHandled
<1>4. ASSUME NEW t \in Topic, HandleMessage(t) PROVE FoundAreHandled'
  <2>1. /\ handlers' = handlers
        /\ {h \in handlers : CompareTopics(FullPath(h), read') = "yes"} \subseteq handled'
    BY <1>4 DEF HandleMessage
  <2> QED
    BY <2>1 DEF FoundAreHandled, FullPath
<1> QED
  BY <1>1, <1>2, <1>3, <1>4 DEF RoutingNext

LEMMA PathsAreCharacters ==
  ASSUME NEW h \in Handler
  PROVE  FullPath(h) \in Seq(Char)
<1>1. h.topic \in Seq(Char) /\ Prefix \in Seq(Char) /\ h.type \in SubType
  BY RoutingAssumption DEF Handler
<1>2. CASE h.type = "relative"
  <2>1. FullPath(h) = Prefix \o h.topic
    BY <1>2 DEF FullPath, FullTopic
  <2> QED
    BY <1>1, <2>1
<1>3. CASE h.type \in {"broadcast", "suffix"}
  <2>1. FullPath(h) = h.topic \o Prefix
    BY <1>3 DEF FullPath, FullTopic
  <2> QED
    BY <1>1, <2>1
<1> QED
  BY <1>1, <1>2, <1>3 DEF SubType

LEMMA ReadingsAreCharacters ==
  ASSUME NEW t \in Topic, NEW r \in Readings(t)
  PROVE  r \in Seq(Char)
<1>1. PICK b \in Stray : r = t \o b
  BY DEF Readings
<1>2. t \in Seq(Char)
  <2>1. t \in Seq(Char \ {"+", "#"})
    BY RoutingAssumption
  <2> QED
    BY <2>1
<1>3. b \in Seq(Char)
  BY RoutingAssumption
<1> QED
  BY <1>1, <1>2, <1>3

(* The client agrees with the broker: whatever the prefix, the consumers   *)
(* and the topic, a message whose topic was read as it was sent and that   *)
(* the broker sends because of a consumer's                                *)
(* path (with a leading slash, no empty level and no "#") is handled by    *)
(* it: compareTopics() never refuses, and never leaves undefined, what the *)
(* standard says matches.                                                  *)
THEOREM MatchedCorrect == RoutingSpec => []MatchedIsHandled
<1>1. RoutingInit => FoundAreHandled
  BY DEF RoutingInit, FoundAreHandled
<1>2. RoutingInv /\ FoundAreHandled /\ [RoutingNext]_routingVars => FoundAreHandled'
  BY FoundStay
<1>3. RoutingInv /\ FoundAreHandled => MatchedIsHandled
  <2> SUFFICES ASSUME RoutingInv, FoundAreHandled, message # None, read = message, NEW h \in handlers,
                      Matches(FullPath(h), message), FullPath(h)[1] = "/",
                      ~EmptyLevel(FullPath(h)),
                      <<"#">> \notin {Levels(FullPath(h))[k] : k \in 1..Len(Levels(FullPath(h)))}
               PROVE  h \in handled
    BY DEF MatchedIsHandled
  <2>1. h \in Handler /\ message \in Topic
    BY DEF RoutingInv, RoutingTypeOK
  <2>2. FullPath(h) \in Seq(Char)
    BY <2>1, PathsAreCharacters
  <2>3. message \in Seq(Char \ {"+", "#"})
    BY <2>1, RoutingAssumption
  <2>4. CompareTopics(FullPath(h), message) = "yes"
    BY <2>2, <2>3, MatchedIsFound
  <2> QED
    BY <2>4 DEF FoundAreHandled
<1>4. RoutingSpec => []RoutingInv
  BY InvHolds
<1> QED
  BY <1>1, <1>2, <1>3, <1>4, PTL DEF RoutingSpec

-----------------------------------------------------------------------------
(* The levels of a topic as it grows. *)

AreLevels(L) == L \in Seq(Seq(Char)) /\ Len(L) \in Nat \ {0}

LEMMA ExtendIs ==
  ASSUME NEW L, AreLevels(L), NEW c \in Char
  PROVE  /\ AreLevels(Extend(L, c))
         /\ \A l \in 1..Len(L) : l # Len(L) => Extend(L, c)[l] = L[l]
         /\ c = "/" => /\ Len(Extend(L, c)) = Len(L) + 1
                       /\ Extend(L, c)[Len(L)] = L[Len(L)]
                       /\ Extend(L, c)[Len(L) + 1] = <<>>
         /\ c # "/" => /\ Len(Extend(L, c)) = Len(L)
                       /\ Extend(L, c)[Len(L)] = Append(L[Len(L)], c)
<1> DEFINE z == Len(L)
           longer == Append(L[z], c)
<1>1. L \in Seq(Seq(Char)) /\ z \in Nat \ {0} /\ z \in 1..z /\ L[z] \in Seq(Char)
  BY DEF AreLevels
<1>2. longer \in Seq(Char)
  BY <1>1
<1>3. CASE c = "/"
  <2> DEFINE M == Append(L, <<>>)
  <2>1. Extend(L, c) = M
    BY <1>3 DEF Extend
  <2>2. <<>> \in Seq(Char)
    OBVIOUS
  <2>3. /\ M \in Seq(Seq(Char)) /\ Len(M) = z + 1 /\ M[z + 1] = <<>>
        /\ \A l \in 1..z : M[l] = L[l]
    BY <1>1, <2>2
  <2> HIDE DEF M, z
  <2>4. Len(M) \in Nat \ {0}
    BY <1>1, <2>3
  <2> QED
    BY <1>1, <1>3, <2>1, <2>3, <2>4 DEF AreLevels, z
<1>4. CASE c # "/"
  <2> DEFINE M == [L EXCEPT ![z] = longer]
  <2>1. Extend(L, c) = M
    BY <1>4 DEF Extend
  <2> HIDE DEF longer
  <2>2. /\ M \in Seq(Seq(Char)) /\ Len(M) = z /\ M[z] = longer
        /\ \A l \in 1..z : l # z => M[l] = L[l]
    BY <1>1, <1>2
  <2> HIDE DEF M, z
  <2> QED
    BY <1>1, <1>4, <2>1, <2>2 DEF AreLevels, z, longer
<1> QED
  BY <1>3, <1>4

LEMMA LevelsAreLevels ==
  ASSUME NEW s \in Seq(Char), NEW upTo, LevelsUpTo(s, upTo)
  PROVE  \A k \in 0..Len(s) : AreLevels(upTo[k])
<1> DEFINE n == Len(s)
           R == {k \in Nat : k <= n => AreLevels(upTo[k])}
<1>1. n \in Nat
  OBVIOUS
<1>2. 0 \in R
  <2>1. << <<>> >> \in Seq(Seq(Char)) /\ Len(<< <<>> >>) = 1
    <3>1. <<>> \in Seq(Char)
      OBVIOUS
    <3> QED
      BY <3>1
  <2>2. AreLevels(<< <<>> >>)
    BY <2>1 DEF AreLevels
  <2>3. upTo[0] = << <<>> >>
    BY DEF LevelsUpTo
  <2> QED
    BY <2>2, <2>3
<1>3. ASSUME NEW k \in Nat, k \in R PROVE k + 1 \in R
  <2> SUFFICES ASSUME k + 1 <= n PROVE AreLevels(upTo[k + 1])
    OBVIOUS
  <2>1. k + 1 \in 1..n /\ (k + 1) - 1 = k
    BY <1>1
  <2>2. upTo[k + 1] = Extend(upTo[k], s[k + 1])
    BY <2>1 DEF LevelsUpTo
  <2>3. AreLevels(upTo[k]) /\ s[k + 1] \in Char
    BY <1>1, <1>3, <2>1
  <2> QED
    BY <2>2, <2>3, ExtendIs
<1> HIDE DEF R
<1>4. Nat \subseteq R
  BY <1>2, <1>3, NatSetInduction
<1> QED
  BY <1>1, <1>4 DEF R

LEMMA LevelsOfIs ==
  ASSUME NEW s \in Seq(Char)
  PROVE  AreLevels(Levels(s)) /\ Len(Levels(s)) \in Nat
<1>1. PICK upTo : LevelsUpTo(s, upTo)
  BY LevelsGrow
<1>2. Len(s) \in 0..Len(s) /\ upTo[Len(s)] = Levels(s)
  BY <1>1 DEF LevelsUpTo
<1>3. AreLevels(Levels(s))
  BY <1>1, <1>2, LevelsAreLevels
<1> QED
  BY <1>3 DEF AreLevels

(* A level that another follows stays as it is. *)
LEMMA LevelsStay ==
  ASSUME NEW s \in Seq(Char), NEW upTo, LevelsUpTo(s, upTo), NEW k \in 0..Len(s)
  PROVE  /\ Len(upTo[k]) <= Len(Levels(s))
         /\ \A l \in 1..Len(upTo[k]) : l # Len(upTo[k]) => Levels(s)[l] = upTo[k][l]
<1> DEFINE n == Len(s)
           z == Len(upTo[k])
           Stay(h) == /\ z <= Len(upTo[h])
                      /\ \A l \in 1..z : l # z => upTo[h][l] = upTo[k][l]
           R == {d \in Nat : k + d <= n => Stay(k + d)}
<1>1. n \in Nat /\ k \in Nat /\ k <= n
  OBVIOUS
<1>2. \A h \in 0..n : AreLevels(upTo[h])
  BY LevelsAreLevels
<1>3. z \in Nat
  BY <1>2 DEF AreLevels
<1>4. 0 \in R
  <2>1. k + 0 = k
    BY <1>1
  <2> HIDE DEF z
  <2>2. z <= z
    BY <1>3
  <2> QED
    BY <2>1, <2>2 DEF z
<1>5. ASSUME NEW d \in Nat, d \in R PROVE d + 1 \in R
  <2> DEFINE h == k + d
             y == Len(upTo[h])
  <2> SUFFICES ASSUME h + 1 <= n PROVE Stay(h + 1)
    BY <1>1
  <2>1. h \in 0..n /\ h + 1 \in 1..n /\ (h + 1) - 1 = h /\ h <= n
    BY <1>1
  <2>2. upTo[h + 1] = Extend(upTo[h], s[h + 1])
    BY <2>1 DEF LevelsUpTo
  <2>3. AreLevels(upTo[h]) /\ s[h + 1] \in Char
    BY <1>1, <1>2, <2>1
  <2>4. /\ \A l \in 1..y : l # y => upTo[h + 1][l] = upTo[h][l]
        /\ Len(upTo[h + 1]) \in {y, y + 1} /\ y \in Nat
    <3>1. \A l \in 1..y : l # y => upTo[h + 1][l] = upTo[h][l]
      BY <2>2, <2>3, ExtendIs
    <3>2. Len(upTo[h + 1]) \in {y, y + 1}
      BY <2>2, <2>3, ExtendIs
    <3>3. y \in Nat
      BY <2>3 DEF AreLevels
    <3> QED
      BY <3>1, <3>2, <3>3
  <2>5. z <= y /\ \A l \in 1..z : l # z => upTo[h][l] = upTo[k][l]
    BY <1>5, <2>1
  <2> HIDE DEF h, y, z
  <2>6. z <= Len(upTo[h + 1]) /\ \A l \in 1..z : l # z => l \in 1..y /\ l # y
    BY <1>3, <2>4, <2>5
  <2> QED
    BY <2>4, <2>5, <2>6
<1> HIDE DEF R
<1>6. n - k \in R
  <2>1. Nat \subseteq R /\ n - k \in Nat
    BY <1>1, <1>4, <1>5, NatSetInduction
  <2> QED
    BY <2>1
<1>7. Stay(n)
  <2>1. k + (n - k) = n /\ n <= n
    BY <1>1
  <2> QED
    BY <1>6, <2>1 DEF R
<1> QED
  BY <1>7 DEF LevelsUpTo

LEMMA LevelsOfAppend ==
  ASSUME NEW u \in Seq(Char), NEW c \in Char
  PROVE  Levels(Append(u, c)) = Extend(Levels(u), c)
<1> DEFINE w == Append(u, c)
           n == Len(u)
<1>1. n \in Nat /\ w \in Seq(Char) /\ Len(w) = n + 1 /\ w[n + 1] = c
      /\ \A k \in 1..n : w[k] = u[k]
  OBVIOUS
<1>2. PICK upTo : LevelsUpTo(u, upTo)
  BY LevelsGrow
<1> HIDE DEF w
<1>3. PICK more : LevelsUpTo(w, more)
  BY <1>1, LevelsGrow
<1> DEFINE R == {k \in Nat : k <= n => more[k] = upTo[k]}
<1>4. 0 \in R
  BY <1>2, <1>3 DEF LevelsUpTo
<1>5. ASSUME NEW k \in Nat, k \in R PROVE k + 1 \in R
  <2> SUFFICES ASSUME k + 1 <= n PROVE more[k + 1] = upTo[k + 1]
    OBVIOUS
  <2>1. k + 1 \in 1..n /\ k + 1 \in 1..Len(w) /\ (k + 1) - 1 = k /\ k <= n
    BY <1>1
  <2>2. upTo[k + 1] = Extend(upTo[k], u[k + 1]) /\ more[k + 1] = Extend(more[k], w[k + 1])
    BY <1>2, <1>3, <2>1 DEF LevelsUpTo
  <2> QED
    BY <1>1, <1>5, <2>1, <2>2
<1>6. more[n] = upTo[n]
  <2> HIDE DEF R
  <2>1. Nat \subseteq R
    BY <1>4, <1>5, NatSetInduction
  <2>2. n \in R /\ n <= n
    BY <1>1, <2>1
  <2> QED
    BY <2>2 DEF R
<1>7. more[n + 1] = Extend(more[n], c)
  <2>1. n + 1 \in 1..Len(w) /\ (n + 1) - 1 = n
    BY <1>1
  <2> QED
    BY <1>1, <1>3, <2>1 DEF LevelsUpTo
<1>8. Levels(w) = more[n + 1] /\ Levels(u) = upTo[n]
  BY <1>1, <1>2, <1>3 DEF LevelsUpTo
<1> QED
  BY <1>6, <1>7, <1>8 DEF w

-----------------------------------------------------------------------------
(* What the loop accepts, it accepts of a topic that is alike. *)

(* Path f and topic t are compared: a filter that the broker accepts,      *)
(* without an empty level, and no last "+" that meets more levels.         *)
Compared(f, upF, t, upT) ==
  /\ f \in Seq(Char) /\ t \in Seq(Char)
  /\ LevelsUpTo(f, upF) /\ LevelsUpTo(t, upT)
  /\ PlusIsLevel(f) /\ ~EmptyLevel(f)
  /\ ~(f[Len(f)] = "+" /\ Len(Levels(t)) > Len(Levels(f)))

CharsOf(f) == {f[i] : i \in 1..Len(f)}

(* c may stand for character k of t. *)
MayBe(f, t, k, c) == IF k # 1 /\ t[k - 1] = "/" THEN c \in CharsOf(f) ELSE c = t[k]

(* u is the beginning of a topic that is alike. *)
AlikeUpTo(f, t, u) == u \in Seq(Char) /\ \A k \in 1..Len(u) : MayBe(f, t, k, u[k])

(* Levels A, of a path, match levels B but perhaps for the last. *)
Agreed(A, B) ==
  /\ AreLevels(A) /\ AreLevels(B) /\ Len(A) = Len(B)
  /\ \A l \in 1..Len(A) : l # Len(A) => A[l] \in {<<"+">>, B[l]}

(* At place p, u is what t was taken for: what the loop has read of the    *)
(* path matches it.  The last levels are the same; or the path is at the   *)
(* beginning of a level; or past a "#" at the topic's end.                 *)
FitsIn(f, upF, t, p, A, B) ==
  \/ /\ ~p.slash /\ A[Len(A)] = B[Len(B)]
     /\ p.i = 1 \/ (p.i # 1 /\ f[p.i - 1] # "/")
  \/ /\ p.slash /\ p.i # 1 /\ f[p.i - 1] = "/" /\ A[Len(A)] = <<>> /\ Len(A) >= 2
     /\ \/ B[Len(B)] = <<>> /\ p.j # 1 /\ t[p.j - 1] = "/"
        \/ p.i <= Len(f) /\ f[p.i] \in {"+", "#"}
  \/ /\ p.slash /\ p.j = Len(t) + 1 /\ A[Len(A)] = <<"#">> /\ p.i # 1 /\ f[p.i - 1] = "#"

Fits(f, upF, t, upT, p, u) ==
  /\ p.i \in 1..(Len(f) + 1) /\ p.j \in 1..(Len(t) + 1) /\ p.slash \in BOOLEAN
  /\ AlikeUpTo(f, t, u) /\ Len(u) = p.j - 1
  /\ Agreed(upF[p.i - 1], Levels(u)) /\ Len(upT[p.j - 1]) >= Len(upF[p.i - 1])
  /\ FitsIn(f, upF, t, p, upF[p.i - 1], Levels(u))

(* A level of the path that begins is not empty. *)
LEMMA LevelIsNotEmpty ==
  ASSUME NEW f, NEW upF, NEW t, NEW upT, Compared(f, upF, t, upT), NEW k \in 0..Len(f),
         Len(upF[k]) >= 2, upF[k][Len(upF[k])] = <<>>
  PROVE  k # Len(f) /\ f[k + 1] # "/"
<1> DEFINE z == Len(upF[k])
<1>1. /\ f \in Seq(Char) /\ LevelsUpTo(f, upF) /\ Len(f) \in Nat /\ k \in Nat
      /\ AreLevels(upF[k])
  BY LevelsAreLevels DEF Compared
<1>2. z \in Nat /\ z >= 2 /\ z \in 2..z /\ z \in 1..z
  <2>1. z \in Nat /\ z >= 2
    BY <1>1 DEF AreLevels
  <2> HIDE DEF z
  <2> QED
    BY <2>1
<1>3. ~(z <= Len(Levels(f)) /\ Levels(f)[z] = <<>>)
  <2>1. Len(Levels(f)) \in Nat
    BY <1>1, LevelsOfIs
  <2> SUFFICES ASSUME z <= Len(Levels(f)), Levels(f)[z] = <<>> PROVE FALSE
    OBVIOUS
  <2>2. z \in 2..Len(Levels(f))
    <3> HIDE DEF z
    <3> QED
      BY <1>2, <2>1
  <2> QED
    BY <2>2 DEF Compared, EmptyLevel
<1>4. k # Len(f)
  <2> SUFFICES ASSUME k = Len(f) PROVE FALSE
    OBVIOUS
  <2>1. upF[k] = Levels(f)
    BY <1>1 DEF LevelsUpTo
  <2>2. z <= z
    BY <1>2
  <2> QED
    BY <1>3, <2>1, <2>2
<1>5. ASSUME f[k + 1] = "/" PROVE FALSE
  <2>1. k + 1 \in 1..Len(f) /\ k + 1 \in 0..Len(f) /\ (k + 1) - 1 = k
    BY <1>1, <1>4
  <2>2. upF[k + 1] = Extend(upF[k], "/") /\ "/" \in Char
    <3>1. f[k + 1] \in Char
      BY <1>1, <2>1
    <3> QED
      BY <1>1, <1>5, <2>1, <3>1 DEF LevelsUpTo
  <2>3. Len(upF[k + 1]) = z + 1 /\ upF[k + 1][z] = <<>>
    BY <1>1, <2>2, ExtendIs
  <2>4. /\ Len(upF[k + 1]) <= Len(Levels(f))
        /\ \A l \in 1..Len(upF[k + 1]) : l # Len(upF[k + 1]) => Levels(f)[l] = upF[k + 1][l]
    BY <1>1, <2>1, LevelsStay
  <2> HIDE DEF z
  <2>5. z \in 1..(z + 1) /\ z # z + 1
    BY <1>2
  <2>6. Levels(f)[z] = <<>>
    BY <2>3, <2>4, <2>5
  <2>7. z <= Len(Levels(f))
    <3>1. Len(Levels(f)) \in Nat
      BY <1>1, LevelsOfIs
    <3> QED
      BY <1>2, <2>3, <2>4, <3>1
  <2> QED
    BY <1>3, <2>6, <2>7
<1> QED
  BY <1>4, <1>5

(* One more character. *)
LEMMA LevelsCount ==
  ASSUME NEW s \in Seq(Char), NEW upTo, LevelsUpTo(s, upTo), NEW k \in 1..Len(s)
  PROVE  /\ s[k] \in Char /\ upTo[k] = Extend(upTo[k - 1], s[k])
         /\ AreLevels(upTo[k - 1]) /\ AreLevels(upTo[k])
         /\ Len(upTo[k - 1]) \in Nat \ {0} /\ Len(upTo[k]) \in Nat \ {0}
         /\ s[k] = "/" => Len(upTo[k]) = Len(upTo[k - 1]) + 1
         /\ s[k] # "/" => Len(upTo[k]) = Len(upTo[k - 1])
<1>1. Len(s) \in Nat /\ k - 1 \in 0..Len(s) /\ k \in 0..Len(s) /\ s[k] \in Char
  OBVIOUS
<1>2. upTo[k] = Extend(upTo[k - 1], s[k])
  BY DEF LevelsUpTo
<1>3. AreLevels(upTo[k - 1]) /\ AreLevels(upTo[k])
  BY <1>1, LevelsAreLevels
<1>4. Len(upTo[k - 1]) \in Nat \ {0} /\ Len(upTo[k]) \in Nat \ {0}
  BY <1>3 DEF AreLevels
<1>5. /\ s[k] = "/" => Len(upTo[k]) = Len(upTo[k - 1]) + 1
      /\ s[k] # "/" => Len(upTo[k]) = Len(upTo[k - 1])
  <2> DEFINE L == upTo[k - 1]
             c == s[k]
  <2>1. AreLevels(L) /\ c \in Char /\ upTo[k] = Extend(L, c)
    BY <1>1, <1>2, <1>3
  <2> HIDE DEF L, c
  <2>2. (c = "/" => Len(upTo[k]) = Len(L) + 1) /\ (c # "/" => Len(upTo[k]) = Len(L))
    BY <2>1, ExtendIs
  <2> QED
    BY <2>2 DEF L, c
<1> QED
  BY <1>1, <1>2, <1>3, <1>4, <1>5

LEMMA AlikeGrows ==
  ASSUME NEW f, NEW t, NEW u, AlikeUpTo(f, t, u), NEW c \in Char, NEW j, Len(u) = j - 1, j \in Nat,
         MayBe(f, t, j, c)
  PROVE  \E w : /\ AlikeUpTo(f, t, w) /\ Len(w) = (j + 1) - 1
               /\ Levels(w) = Extend(Levels(u), c)
               /\ AreLevels(Levels(u))
<1> DEFINE w == Append(u, c)
<1>1. u \in Seq(Char)
  BY DEF AlikeUpTo
<1>2. /\ w \in Seq(Char) /\ Len(w) = j /\ w[j] = c
      /\ \A k \in 1..(j - 1) : w[k] = u[k]
  <2>1. /\ w \in Seq(Char) /\ Len(w) = Len(u) + 1 /\ w[Len(u) + 1] = c
        /\ \A k \in 1..Len(u) : w[k] = u[k]
    BY <1>1
  <2>2. Len(u) + 1 = j
    OBVIOUS
  <2> HIDE DEF w
  <2> QED
    BY <2>1, <2>2
<1>3. Levels(w) = Extend(Levels(u), c) /\ AreLevels(Levels(u))
  BY <1>1, LevelsOfAppend, LevelsOfIs
<1> HIDE DEF w
<1>4. \A k \in 1..j : k \in 1..(j - 1) \/ k = j
  OBVIOUS
<1>5. \A k \in 1..Len(w) : MayBe(f, t, k, w[k])
  BY <1>2, <1>4 DEF AlikeUpTo
<1>6. Len(w) = (j + 1) - 1
  BY <1>2
<1> QED
  BY <1>2, <1>3, <1>5, <1>6 DEF w, AlikeUpTo

LEMMA AgreedGrows ==
  ASSUME NEW A, NEW B, Agreed(A, B), NEW c \in Char, NEW d \in Char
  PROVE  /\ c # "/" => Agreed(Extend(A, c), B)
         /\ c # "/" /\ d # "/" => Agreed(Extend(A, c), Extend(B, d)) /\ Agreed(A, Extend(B, d))
         /\ c = "/" /\ d = "/" /\ A[Len(A)] \in {<<"+">>, B[Len(B)]} =>
              Agreed(Extend(A, c), Extend(B, d))
<1> DEFINE z == Len(A)
           X == Extend(A, c)
           Y == Extend(B, d)
<1>1. /\ AreLevels(A) /\ AreLevels(B) /\ Len(B) = z /\ z \in Nat \ {0}
      /\ \A l \in 1..z : l # z => A[l] \in {<<"+">>, B[l]}
  BY DEF Agreed, AreLevels
<1>2. /\ AreLevels(X) /\ \A l \in 1..z : l # z => X[l] = A[l]
      /\ c = "/" => Len(X) = z + 1 /\ X[z] = A[z]
      /\ c # "/" => Len(X) = z
  BY <1>1, ExtendIs
<1>3. /\ AreLevels(Y) /\ \A l \in 1..z : l # z => Y[l] = B[l]
      /\ d = "/" => Len(Y) = z + 1 /\ Y[z] = B[z]
      /\ d # "/" => Len(Y) = z
  BY <1>1, ExtendIs
<1> HIDE DEF X, Y, z
<1>6. ASSUME c # "/" PROVE Agreed(X, B)
  BY <1>1, <1>2, <1>6 DEF Agreed, z
<1>4. ASSUME c # "/", d # "/" PROVE Agreed(X, Y) /\ Agreed(A, Y)
  BY <1>1, <1>2, <1>3, <1>4 DEF Agreed, z
<1>5. ASSUME c = "/", d = "/", A[z] \in {<<"+">>, B[z]} PROVE Agreed(X, Y)
  <2>1. \A l \in 1..(z + 1) : l # z + 1 => l \in 1..z
    BY <1>1
  <2>2. \A l \in 1..(z + 1) : l # z + 1 => X[l] \in {<<"+">>, Y[l]}
    BY <1>1, <1>2, <1>3, <1>5, <2>1
  <2> QED
    BY <1>2, <1>3, <1>5, <2>2 DEF Agreed
<1> QED
  BY <1>1, <1>4, <1>5, <1>6 DEF X, Y, z

(* A last "+" does not end before the topic's level. *)
LEMMA LastPlusIsLast ==
  ASSUME NEW f, NEW upF, NEW t, NEW upT, Compared(f, upF, t, upT),
         NEW i \in 1..Len(f), f[i] = "+", NEW j \in 1..Len(t), t[j] = "/",
         Len(upT[j - 1]) >= Len(upF[i - 1])
  PROVE  i # Len(f)
<1>1. /\ f \in Seq(Char) /\ t \in Seq(Char) /\ LevelsUpTo(f, upF) /\ LevelsUpTo(t, upT)
  BY DEF Compared
<1> SUFFICES ASSUME i = Len(f) PROVE FALSE
  OBVIOUS
<1>2. upF[i] = Levels(f)
  BY <1>1 DEF LevelsUpTo
<1>3. Len(Levels(f)) = Len(upF[i - 1]) /\ Len(upF[i - 1]) \in Nat
  <2>1. f[i] # "/"
    OBVIOUS
  <2>2. Len(upF[i]) = Len(upF[i - 1]) /\ Len(upF[i - 1]) \in Nat
    BY <1>1, <2>1, LevelsCount
  <2> QED
    BY <1>2, <2>2
<1>4. Len(upT[j]) = Len(upT[j - 1]) + 1 /\ Len(upT[j - 1]) \in Nat
  BY <1>1, LevelsCount
<1>5. Len(upT[j]) <= Len(Levels(t)) /\ Len(Levels(t)) \in Nat
  <2>1. j \in 0..Len(t)
    OBVIOUS
  <2> QED
    BY <1>1, <2>1, LevelsStay, LevelsOfIs
<1>6. Len(Levels(t)) > Len(Levels(f))
  BY <1>3, <1>4, <1>5
<1> QED
  BY <1>6 DEF Compared

LEMMA FitsIs ==
  ASSUME NEW f, NEW upF, NEW t, NEW upT, Compared(f, upF, t, upT), NEW p, NEW u,
         Fits(f, upF, t, upT, p, u)
  PROVE  /\ f \in Seq(Char) /\ t \in Seq(Char) /\ Len(f) \in Nat /\ Len(t) \in Nat
         /\ LevelsUpTo(f, upF) /\ LevelsUpTo(t, upT)
         /\ p.i \in 1..(Len(f) + 1) /\ p.j \in 1..(Len(t) + 1) /\ p.slash \in BOOLEAN
         /\ p.i - 1 \in 0..Len(f)
         /\ AlikeUpTo(f, t, u) /\ Len(u) = p.j - 1
         /\ Agreed(upF[p.i - 1], Levels(u)) /\ Len(upT[p.j - 1]) >= Len(upF[p.i - 1])
<1>1. f \in Seq(Char) /\ t \in Seq(Char) /\ LevelsUpTo(f, upF) /\ LevelsUpTo(t, upT)
  BY DEF Compared
<1>2. Len(f) \in Nat /\ Len(t) \in Nat
  BY <1>1
<1>3. p.i \in 1..(Len(f) + 1) => p.i - 1 \in 0..Len(f)
  BY <1>2
<1> QED
  BY <1>1, <1>2, <1>3 DEF Fits

(* The comparison goes on to a place that fits, or refuses. *)
Follows(f, upF, t, upT, g, p) ==
  \/ Verdict(f, t, g, p) = "no"
  \/ \E q \in Places(f, t) : /\ Verdict(f, t, g, p) = g[q] /\ q.j = p.j + 1
                             /\ \E w : Fits(f, upF, t, upT, q, w)

(* State::None. *)
LEMMA CharFollows ==
  ASSUME NEW f, NEW upF, NEW t, NEW upT, Compared(f, upF, t, upT),
         NEW p \in Places(f, t), NEW u, Fits(f, upF, t, upT, p, u), NEW g,
         p.i # Len(f) + 1, p.j # Len(t) + 1, ~p.slash
  PROVE  Follows(f, upF, t, upT, g, p)
<1> DEFINE m == Len(f)
           n == Len(t)
           i == p.i
           j == p.j
           A == upF[i - 1]
           B == Levels(u)
           c == f[i]
           q == Place(i + 1, j + 1, c = "/")
<1>1. /\ f \in Seq(Char) /\ t \in Seq(Char) /\ m \in Nat /\ n \in Nat
      /\ LevelsUpTo(f, upF) /\ LevelsUpTo(t, upT) /\ i \in 1..(m + 1) /\ j \in 1..(n + 1)
      /\ AlikeUpTo(f, t, u) /\ Len(u) = j - 1
      /\ Agreed(A, B) /\ Len(upT[j - 1]) >= Len(A)
  BY FitsIs
<1>2. A[Len(A)] = B[Len(B)]
  BY DEF Fits, FitsIn
<1> HIDE DEF m, n, i, j
<1>3. i \in 1..m /\ j \in 1..n
  BY <1>1 DEF m, n, i, j
<1>4. ~(i > m + 1 \/ j > n + 1) /\ ~(i = m + 1 \/ j = n + 1)
  BY <1>1, <1>3
<1>5. CASE ~SameChar(f, i, t, j)
  BY <1>4, <1>5 DEF Verdict, Follows, m, n, i, j
<1>6. CASE SameChar(f, i, t, j)
  <2>1. Verdict(f, t, g, p) = g[q]
    BY <1>4, <1>6 DEF Verdict, m, n, i, j
  <2>2. c = t[j] /\ c \in Char
    BY <1>1, <1>3, <1>6 DEF SameChar, m
  <2>3. i + 1 \in 1..(m + 2) /\ j + 1 \in 1..(n + 2) /\ (c = "/") \in BOOLEAN
        /\ i + 1 \in 1..(m + 1) /\ j + 1 \in 1..(n + 1) /\ (i + 1) - 1 = i /\ (j + 1) - 1 = j
        /\ i + 1 # 1 /\ j + 1 # 1
    BY <1>1, <1>3
  <2>4. q \in Places(f, t) /\ q.i = i + 1 /\ q.j = j + 1 /\ q.slash = (c = "/")
    BY <2>3 DEF Place, Places, m, n
  <2>5. /\ upF[i] = Extend(A, c) /\ AreLevels(A) /\ AreLevels(upF[i])
        /\ Len(A) \in Nat \ {0}
        /\ c = "/" => Len(upF[i]) = Len(A) + 1
        /\ c # "/" => Len(upF[i]) = Len(A)
    BY <1>1, <1>3, LevelsCount DEF m
  <2>6. /\ Len(upT[j - 1]) \in Nat \ {0}
        /\ c = "/" => Len(upT[j]) = Len(upT[j - 1]) + 1
        /\ c # "/" => Len(upT[j]) = Len(upT[j - 1])
    BY <1>1, <1>3, <2>2, LevelsCount DEF n
  <2>7. PICK w : /\ AlikeUpTo(f, t, w) /\ Len(w) = (j + 1) - 1 /\ Levels(w) = Extend(B, c)
                 /\ AreLevels(B)
    <3>1. c \in CharsOf(f)
      BY <1>3 DEF m, CharsOf
    <3>2. MayBe(f, t, j, c)
      BY <2>2, <3>1 DEF MayBe
    <3>3. j \in Nat
      BY <1>3
    <3>4. AlikeUpTo(f, t, u) /\ Len(u) = j - 1 /\ c \in Char
      BY <1>1, <2>2
    <3> HIDE DEF A, c
    <3> QED
      BY <3>2, <3>3, <3>4, AlikeGrows
  <2> HIDE DEF A, B, c, q
  <2>8. Agreed(Extend(A, c), Extend(B, c))
    BY <1>1, <1>2, <2>2, AgreedGrows
  <2>9. Len(upT[j]) >= Len(upF[i])
    <3>1. Len(upT[j - 1]) >= Len(A)
      BY <1>1
    <3> QED
      BY <2>5, <2>6, <3>1
  <2>10. CASE c # "/"
    <3>1. /\ Extend(A, c)[Len(A)] = Append(A[Len(A)], c) /\ Len(Extend(A, c)) = Len(A)
          /\ Extend(B, c)[Len(B)] = Append(B[Len(B)], c) /\ Len(Extend(B, c)) = Len(B)
      BY <2>2, <2>5, <2>7, <2>10, ExtendIs
    <3>2. Extend(A, c)[Len(Extend(A, c))] = Extend(B, c)[Len(Extend(B, c))]
      BY <1>2, <3>1
    <3>3. ~q.slash /\ q.i # 1 /\ f[q.i - 1] # "/"
      BY <2>3, <2>4, <2>10 DEF c
    <3>4. FitsIn(f, upF, t, q, upF[i], Levels(w))
      BY <2>5, <2>7, <3>2, <3>3 DEF FitsIn
    <3>5. Fits(f, upF, t, upT, q, w)
      BY <2>3, <2>4, <2>5, <2>7, <2>8, <2>9, <3>4 DEF Fits, m, n
    <3> QED
      BY <2>1, <2>4, <3>5 DEF Follows, j
  <2>11. CASE c = "/"
    <3>1. /\ Len(Extend(A, c)) = Len(A) + 1 /\ Extend(A, c)[Len(A) + 1] = <<>>
          /\ Len(Extend(B, c)) = Len(B) + 1 /\ Extend(B, c)[Len(B) + 1] = <<>>
      BY <2>2, <2>5, <2>7, <2>11, ExtendIs
    <3>2. Len(A) + 1 >= 2
      BY <2>5
    <3>3. /\ q.slash /\ q.i # 1 /\ f[q.i - 1] = "/" /\ q.j # 1 /\ t[q.j - 1] = "/"
      BY <2>2, <2>3, <2>4, <2>11 DEF c
    <3>4. FitsIn(f, upF, t, q, upF[i], Levels(w))
      BY <2>5, <2>7, <3>1, <3>2, <3>3 DEF FitsIn
    <3>5. Fits(f, upF, t, upT, q, w)
      BY <2>3, <2>4, <2>5, <2>7, <2>8, <2>9, <3>4 DEF Fits, m, n
    <3> QED
      BY <2>1, <2>4, <3>5 DEF Follows, j
  <2> QED
    BY <2>10, <2>11
<1> QED
  BY <1>5, <1>6

(* State::Slash. *)
LEMMA SlashFollows ==
  ASSUME NEW f, NEW upF, NEW t, NEW upT, Compared(f, upF, t, upT),
         NEW p \in Places(f, t), NEW u, Fits(f, upF, t, upT, p, u), NEW g,
         p.i # Len(f) + 1, p.j # Len(t) + 1, p.slash
  PROVE  Follows(f, upF, t, upT, g, p)
<1> DEFINE m == Len(f)
           n == Len(t)
           i == p.i
           j == p.j
           A == upF[i - 1]
           B == Levels(u)
           c == f[i]
           After == j # 1 /\ t[j - 1] = "/"
           e == IF After THEN c ELSE t[j]
<1>1. /\ f \in Seq(Char) /\ t \in Seq(Char) /\ m \in Nat /\ n \in Nat
      /\ LevelsUpTo(f, upF) /\ LevelsUpTo(t, upT) /\ i \in 1..(m + 1) /\ j \in 1..(n + 1)
      /\ i - 1 \in 0..m /\ AlikeUpTo(f, t, u) /\ Len(u) = j - 1
      /\ Agreed(A, B) /\ Len(upT[j - 1]) >= Len(A)
  BY FitsIs
<1>2. /\ i # 1 /\ f[i - 1] = "/" /\ A[Len(A)] = <<>> /\ Len(A) >= 2
      /\ (B[Len(B)] = <<>> /\ After) \/ c \in {"+", "#"}
  BY DEF Fits, FitsIn
<1>3. i \in 1..m /\ j \in 1..n
  BY <1>1
<1>4. c # "/"
  <2>1. i - 1 # m /\ f[(i - 1) + 1] # "/"
    BY <1>1, <1>2, LevelIsNotEmpty
  <2>2. (i - 1) + 1 = i
    BY <1>1
  <2> QED
    BY <2>1, <2>2
<1>5. c \in Char /\ c \in CharsOf(f) /\ "/" \in CharsOf(f) /\ t[j] \in Char
  <2>1. c \in Char /\ c \in CharsOf(f)
    BY <1>1, <1>3 DEF CharsOf
  <2>2. i - 1 \in 1..Len(f)
    BY <1>1, <1>2
  <2>3. "/" \in CharsOf(f)
    BY <1>2, <2>2 DEF CharsOf
  <2>4. t[j] \in Char
    BY <1>1, <1>3
  <2> QED
    BY <2>1, <2>3, <2>4
<1>6. MayBe(f, t, j, e) /\ e \in Char
  BY <1>5 DEF MayBe
<1>7. j \in Nat /\ AlikeUpTo(f, t, u) /\ Len(u) = j - 1 /\ AreLevels(A) /\ AreLevels(B)
      /\ Len(A) \in Nat \ {0} /\ Len(upT[j - 1]) >= Len(A)
  BY <1>1 DEF Agreed, AreLevels
<1> HIDE DEF m, n, i, j
<1>8. ~(i > m + 1 \/ j > n + 1) /\ ~(i = m + 1 \/ j = n + 1)
  BY <1>1, <1>3
<1>9. /\ upF[i] = Extend(A, c) /\ Len(upF[i]) = Len(A)
  BY <1>1, <1>3, <1>4, LevelsCount DEF m
<1>10. /\ Len(upT[j - 1]) \in Nat \ {0}
       /\ t[j] = "/" => Len(upT[j]) = Len(upT[j - 1]) + 1
       /\ t[j] # "/" => Len(upT[j]) = Len(upT[j - 1])
  BY <1>1, <1>3, LevelsCount DEF n
<1>11. Len(upT[j]) \in Nat /\ Len(upT[j]) >= Len(A)
  BY <1>7, <1>10
<1>12. /\ i \in 1..(m + 2) /\ i + 1 \in 1..(m + 2) /\ i + 2 \in 1..(m + 2) /\ j + 1 \in 1..(n + 2)
       /\ i + 1 \in 1..(m + 1) /\ j + 1 \in 1..(n + 1)
       /\ (i + 1) - 1 = i /\ (j + 1) - 1 = j /\ (i + 2) - 1 = i + 1
       /\ i <= m /\ i + 1 # 1 /\ i + 2 # 1 /\ j + 1 # 1
  BY <1>1, <1>3
<1> HIDE DEF A, B, c, e, After
<1>13. PICK w : /\ AlikeUpTo(f, t, w) /\ Len(w) = (j + 1) - 1 /\ Levels(w) = Extend(B, e)
  <2> USE DEF B
  <2> QED
    BY <1>6, <1>7, AlikeGrows
(* A wildcard that stays where it is. *)
<1>14. ASSUME c \in {"+", "#"}, t[j] # "/",
              Verdict(f, t, g, p) = g[Place(i, j + 1, TRUE)]
       PROVE  Follows(f, upF, t, upT, g, p)
  <2> DEFINE q == Place(i, j + 1, TRUE)
  <2>1. q \in Places(f, t) /\ q.i = i /\ q.j = j + 1 /\ q.slash
    BY <1>12 DEF Place, Places, m, n
  <2>2. e # "/"
    BY <1>4, <1>14 DEF e
  <2>3. Agreed(A, Extend(B, e))
    BY <1>1, <1>4, <1>5, <1>6, <2>2, AgreedGrows
  <2> HIDE DEF q
  <2>4. FitsIn(f, upF, t, q, A, Levels(w))
    BY <1>2, <1>12, <1>14, <2>1 DEF FitsIn, m, c
  <2>5. Fits(f, upF, t, upT, q, w)
    BY <1>1, <1>11, <1>12, <1>13, <2>1, <2>3, <2>4 DEF Fits, A, m, n
  <2> QED
    BY <1>14, <2>1, <2>5 DEF Follows, q, j
<1>15. CASE c = "#"
  <2>1. CASE t[j] = "/"
    BY <1>8, <1>15, <2>1 DEF Verdict, Follows, m, n, i, j, c
  <2>2. CASE t[j] # "/" /\ j # n
    <3>1. Verdict(f, t, g, p) = g[Place(i, j + 1, TRUE)]
      BY <1>8, <1>15, <2>2 DEF Verdict, m, n, i, j, c
    <3> QED
      BY <1>14, <1>15, <2>2, <3>1
  <2>3. CASE t[j] # "/" /\ j = n
    <3> DEFINE q == Place(i + 1, j + 1, TRUE)
    <3>1. Verdict(f, t, g, p) = g[q]
      BY <1>8, <1>15, <2>3 DEF Verdict, m, n, i, j, c
    <3>2. q \in Places(f, t) /\ q.i = i + 1 /\ q.j = j + 1 /\ q.slash
      BY <1>12 DEF Place, Places, m, n
    <3>3. e # "/"
      BY <1>4, <2>3 DEF e
    <3>4. Agreed(upF[i], Extend(B, e))
      BY <1>1, <1>4, <1>5, <1>6, <1>9, <3>3, AgreedGrows
    <3>5. upF[i][Len(upF[i])] = <<"#">>
      <4>1. Extend(A, c)[Len(A)] = Append(A[Len(A)], c)
        BY <1>4, <1>5, <1>7, ExtendIs
      <4>2. Append(<<>>, "#") = <<"#">>
        OBVIOUS
      <4> QED
        BY <1>2, <1>9, <1>15, <4>1, <4>2
    <3> HIDE DEF q
    <3>6. q.j = n + 1 /\ q.i # 1 /\ f[q.i - 1] = "#"
      BY <1>12, <1>15, <2>3, <3>2 DEF c
    <3>7. FitsIn(f, upF, t, q, upF[i], Levels(w))
      BY <3>2, <3>5, <3>6 DEF FitsIn, n
    <3>8. Len(upT[j]) >= Len(upF[i])
      BY <1>9, <1>11
    <3>9. Fits(f, upF, t, upT, q, w)
      BY <1>12, <1>13, <3>2, <3>4, <3>7, <3>8 DEF Fits, m, n
    <3> QED
      BY <3>1, <3>2, <3>9 DEF Follows, j
  <2> QED
    BY <2>1, <2>2, <2>3
<1>16. CASE c = "+" /\ t[j] # "/"
  <2>1. Verdict(f, t, g, p) = g[Place(i, j + 1, TRUE)]
    BY <1>8, <1>16 DEF Verdict, m, n, i, j, c
  <2> QED
    BY <1>14, <1>16, <2>1
<1>17. CASE c = "+" /\ t[j] = "/"
  <2> DEFINE q == Place(i + 2, j + 1, TRUE)
  <2>1. Verdict(f, t, g, p) = g[q]
    BY <1>8, <1>17 DEF Verdict, m, n, i, j, c
  <2>2. i # m
    BY <1>3, <1>7, <1>17, LastPlusIsLast DEF m, n, A, c
  <2>3. i + 1 \in 1..m /\ f[i + 1] = "/" /\ i + 2 \in 1..(m + 1)
    <3>1. i + 1 \in 1..m /\ i + 2 \in 1..(m + 1)
      BY <1>1, <1>3, <2>2
    <3>2. f[i + 1] = "/"
      BY <1>3, <1>17, <2>2 DEF Compared, PlusIsLevel, m, c
    <3> QED
      BY <3>1, <3>2
  <2>4. q \in Places(f, t) /\ q.i = i + 2 /\ q.j = j + 1 /\ q.slash
    BY <1>12 DEF Place, Places, m, n
  <2>5. upF[i + 1] = Extend(upF[i], "/") /\ "/" \in Char /\ AreLevels(upF[i])
        /\ Len(upF[i + 1]) = Len(upF[i]) + 1
    <3>1. /\ f[i + 1] \in Char /\ upF[i + 1] = Extend(upF[(i + 1) - 1], f[i + 1])
          /\ AreLevels(upF[(i + 1) - 1])
          /\ Len(upF[i + 1]) = Len(upF[(i + 1) - 1]) + 1
      BY <1>1, <2>3, LevelsCount DEF m
    <3> QED
      BY <1>12, <2>3, <3>1
  <2>6. PICK v : /\ AlikeUpTo(f, t, v) /\ Len(v) = (j + 1) - 1 /\ Levels(v) = Extend(B, "/")
    <3> USE DEF B
    <3>1. MayBe(f, t, j, "/")
      BY <1>5, <1>17 DEF MayBe
    <3> QED
      BY <1>7, <2>5, <3>1, AlikeGrows
  <2>7. Agreed(upF[i], B)
    BY <1>1, <1>4, <1>5, <1>9, AgreedGrows
  <2>8. upF[i][Len(upF[i])] = <<"+">>
    <3>1. Extend(A, c)[Len(A)] = Append(A[Len(A)], c)
      BY <1>4, <1>5, <1>7, ExtendIs
    <3>2. Append(<<>>, "+") = <<"+">>
      OBVIOUS
    <3> QED
      BY <1>2, <1>9, <1>17, <3>1, <3>2
  <2>9. Agreed(upF[i + 1], Extend(B, "/"))
    <3>1. upF[i][Len(upF[i])] \in {<<"+">>, B[Len(B)]}
      BY <2>8
    <3> QED
      BY <2>5, <2>7, <3>1, AgreedGrows
  <2>10. /\ upF[i + 1][Len(upF[i + 1])] = <<>>
         /\ Extend(B, "/")[Len(Extend(B, "/"))] = <<>>
    <3>1. /\ Len(Extend(upF[i], "/")) = Len(upF[i]) + 1
          /\ Extend(upF[i], "/")[Len(upF[i]) + 1] = <<>>
      BY <2>5, ExtendIs
    <3>2. Len(Extend(B, "/")) = Len(B) + 1 /\ Extend(B, "/")[Len(B) + 1] = <<>>
      BY <1>7, <2>5, ExtendIs
    <3> QED
      BY <2>5, <3>1, <3>2
  <2> HIDE DEF q
  <2>11. /\ q.i # 1 /\ f[q.i - 1] = "/" /\ Len(upF[i + 1]) >= 2 /\ q.j # 1 /\ t[q.j - 1] = "/"
    <3>1. Len(upF[i + 1]) >= 2
      BY <1>2, <1>7, <1>9, <2>5
    <3> QED
      BY <1>12, <1>17, <2>3, <2>4, <3>1
  <2>12. FitsIn(f, upF, t, q, upF[i + 1], Levels(v))
    BY <2>4, <2>6, <2>10, <2>11 DEF FitsIn
  <2>13. Len(upT[j]) >= Len(upF[i + 1])
    BY <1>7, <1>9, <1>10, <1>17, <2>5
  <2>14. Fits(f, upF, t, upT, q, v)
    BY <1>12, <2>3, <2>4, <2>6, <2>9, <2>12, <2>13 DEF Fits, m, n
  <2> QED
    BY <2>1, <2>4, <2>14 DEF Follows, j
<1>18. CASE c \notin {"+", "#"}
  <2> DEFINE q == Place(i + 1, j + 1, FALSE)
  <2>1. Verdict(f, t, g, p) = g[q]
    BY <1>4, <1>8, <1>18, Zenon DEF Verdict, m, n, i, j, c
  <2>2. q \in Places(f, t) /\ q.i = i + 1 /\ q.j = j + 1 /\ q.slash = FALSE
    BY <1>12 DEF Place, Places, m, n
  <2>3. After /\ B[Len(B)] = <<>> /\ e = c
    BY <1>2, <1>18 DEF e
  <2>4. Agreed(upF[i], Extend(B, e))
    BY <1>1, <1>4, <1>5, <1>9, <2>3, AgreedGrows
  <2>5. upF[i][Len(upF[i])] = Extend(B, e)[Len(Extend(B, e))]
    <3>1. Extend(A, c)[Len(A)] = Append(A[Len(A)], c)
      BY <1>4, <1>5, <1>7, ExtendIs
    <3>2. Extend(B, c)[Len(B)] = Append(B[Len(B)], c) /\ Len(Extend(B, c)) = Len(B)
      BY <1>4, <1>5, <1>7, ExtendIs
    <3> QED
      BY <1>2, <1>9, <2>3, <3>1, <3>2
  <2> HIDE DEF q
  <2>6. q.i # 1 /\ f[q.i - 1] # "/"
    BY <1>4, <1>12, <2>2 DEF c
  <2>7. FitsIn(f, upF, t, q, upF[i], Levels(w))
    BY <1>13, <2>2, <2>5, <2>6 DEF FitsIn
  <2>8. Len(upT[j]) >= Len(upF[i])
    BY <1>9, <1>11
  <2>9. Fits(f, upF, t, upT, q, w)
    BY <1>12, <1>13, <2>2, <2>4, <2>7, <2>8 DEF Fits, m, n
  <2> QED
    BY <2>1, <2>2, <2>9 DEF Follows, j
<1> QED
  BY <1>15, <1>16, <1>17, <1>18

LEMMA AgreedMatches ==
  ASSUME NEW f, NEW u, Agreed(Levels(f), Levels(u)),
         Levels(f)[Len(Levels(f))] \in {<<"+">>, Levels(u)[Len(Levels(u))], <<"#">>}
  PROVE  Matches(f, u)
<1> DEFINE F == Levels(f)
           U == Levels(u)
           z == Len(F)
           SameUpTo(k) == k <= Len(U) /\ \A l \in 1..k : F[l] \in {<<"+">>, U[l]}
<1>1. z \in Nat \ {0} /\ Len(U) = z /\ \A l \in 1..z : l # z => F[l] \in {<<"+">>, U[l]}
  BY DEF Agreed, AreLevels
<1>2. F[z] \in {<<"+">>, U[z]} \/ F[z] = <<"#">>
  BY <1>1
<1> HIDE DEF F, U, z
<1>3. \A l \in 1..(z - 1) : l \in 1..z /\ l # z
  BY <1>1
<1>4. z <= z /\ z - 1 <= z
  BY <1>1
<1>5. SameUpTo(z - 1)
  BY <1>1, <1>3, <1>4
<1>6. CASE F[z] \in {<<"+">>, U[z]}
  <2>1. SameUpTo(z)
    BY <1>1, <1>4, <1>6
  <2> QED
    BY <1>1, <2>1 DEF Matches, F, U, z
<1>7. CASE F[z] = <<"#">>
  BY <1>5, <1>7 DEF Matches, F, U, z
<1> QED
  BY <1>2, <1>6, <1>7

(* Where one of the two has been read to its end. *)
LEMMA EndMatches ==
  ASSUME NEW f, NEW upF, NEW t, NEW upT, Compared(f, upF, t, upT),
         NEW p \in Places(f, t), NEW u, Fits(f, upF, t, upT, p, u), NEW g,
         p.i = Len(f) + 1 \/ p.j = Len(t) + 1, Verdict(f, t, g, p) # "no"
  PROVE  Len(u) = Len(t) /\ Matches(f, u)
<1> DEFINE m == Len(f)
           n == Len(t)
           i == p.i
           j == p.j
           A == upF[i - 1]
           B == Levels(u)
<1>1. /\ f \in Seq(Char) /\ m \in Nat /\ n \in Nat
      /\ LevelsUpTo(f, upF) /\ i \in 1..(m + 1) /\ j \in 1..(n + 1)
      /\ i - 1 \in 0..m /\ Len(u) = j - 1 /\ Agreed(A, B)
  BY FitsIs
<1>2. FitsIn(f, upF, t, p, A, B)
  BY DEF Fits
<1>3. AreLevels(A) /\ AreLevels(B) /\ Len(A) \in Nat \ {0} /\ Len(A) = Len(B)
  BY <1>1 DEF Agreed, AreLevels
<1>4. upF[m] = Levels(f) /\ upF[0] = << <<>> >>
  BY <1>1 DEF LevelsUpTo
<1> HIDE DEF m, n, i, j
<1>5. ~(i > m + 1 \/ j > n + 1) /\ (i = m + 1 \/ j = n + 1)
  BY <1>1 DEF m, n, i, j
<1>6. ReachedEnds(f, i, t, j)
  BY <1>5 DEF Verdict, m, n, i, j
<1>7. j = n + 1 /\ (i = m + 1 \/ (i = m /\ f[i] = "+"))
  BY <1>1, <1>6 DEF ReachedEnds, m, n
<1>8. Len(u) = Len(t)
  <2>1. Len(u) = n
    BY <1>1, <1>7
  <2> QED
    BY <2>1 DEF n
<1>9. CASE i = m + 1
  <2>1. A = Levels(f)
    <3>1. i - 1 = m
      BY <1>1, <1>9
    <3> QED
      BY <1>4, <3>1
  <2>2. ~(A[Len(A)] = <<>> /\ Len(A) >= 2)
    <3> SUFFICES ASSUME A[Len(A)] = <<>>, Len(A) >= 2 PROVE FALSE
      OBVIOUS
    <3>1. i - 1 \in 0..Len(f) /\ i - 1 = Len(f)
      BY <1>1, <1>9 DEF m
    <3> QED
      BY <3>1, LevelIsNotEmpty
  <2> HIDE DEF A, B
  <2>3. A[Len(A)] \in {B[Len(B)], <<"#">>}
    BY <1>2, <2>2 DEF FitsIn
  <2> QED
    BY <1>1, <1>8, <2>1, <2>3, AgreedMatches DEF B
<1>10. CASE i = m /\ f[i] = "+"
  <2>1. i \in 1..Len(f) /\ m \in 1..Len(f)
    BY <1>1, <1>10 DEF m
  <2>2. /\ f[i] \in Char /\ upF[i] = Extend(A, f[i])
    BY <1>1, <2>1, LevelsCount
  <2>3. i = 1 \/ f[i - 1] = "/"
    BY <1>10, <2>1 DEF Compared, PlusIsLevel
  <2>4. A[Len(A)] = <<>>
    <3>1. CASE i = 1
      <4>1. i - 1 = 0
        BY <3>1
      <4>2. A = << <<>> >>
        BY <1>4, <4>1
      <4> HIDE DEF A
      <4> QED
        BY <4>2
    <3>2. CASE i # 1
      <4> HIDE DEF A, B
      <4>1. f[i - 1] = "/" /\ "/" # "#"
        BY <2>3, <3>2
      <4> QED
        BY <1>2, <3>2, <4>1 DEF FitsIn, i
    <3> QED
      BY <3>1, <3>2
  <2> DEFINE c == f[i]
  <2>5. c \in Char /\ c # "/" /\ Levels(f) = Extend(A, c)
    BY <1>4, <1>10, <2>2
  <2> HIDE DEF A, B, c
  <2>6. Agreed(Levels(f), B)
    BY <1>1, <2>5, AgreedGrows
  <2>7. Levels(f)[Len(Levels(f))] = <<"+">>
    <3>1. Extend(A, c)[Len(A)] = Append(A[Len(A)], c) /\ Len(Extend(A, c)) = Len(A)
      BY <1>3, <2>5, ExtendIs
    <3>2. Append(<<>>, "+") = <<"+">> /\ c = "+"
      BY <1>10 DEF c
    <3> QED
      BY <2>4, <2>5, <3>1, <3>2
  <2> QED
    BY <1>8, <2>6, <2>7, AgreedMatches DEF B
<1> QED
  BY <1>7, <1>9, <1>10

(* What the loop does not refuse matches a topic that is alike. *)
LEMMA AlikeIsFound ==
  ASSUME NEW f, NEW upF, NEW t, NEW upT, Compared(f, upF, t, upT), CompareTopics(f, t) # "no"
  PROVE  \E u : AlikeUpTo(f, t, u) /\ Len(u) = Len(t) /\ Matches(f, u)
<1> DEFINE n == Len(t)
           P == Places(f, t)
           Fit(p) == \E u : Fits(f, upF, t, upT, p, u)
           Found == \E u : AlikeUpTo(f, t, u) /\ Len(u) = Len(t) /\ Matches(f, u)
<1>1. /\ f \in Seq(Char) /\ t \in Seq(Char) /\ n \in Nat /\ Len(f) \in Nat
      /\ LevelsUpTo(f, upF) /\ LevelsUpTo(t, upT)
  BY DEF Compared
<1>2. PICK g : /\ \A p \in P : g[p] = Verdict(f, t, g, p)
               /\ CompareTopics(f, t) = g[Place(1, 1, FALSE)]
  BY <1>1, CompareIs
<1>3. \A p \in P : p.j \in 1..(n + 2)
  BY DEF Places
<1>4. \A p \in P : Fit(p) => \/ g[p] = "no" \/ Found
                             \/ \E q \in P : g[p] = g[q] /\ q.j = p.j + 1 /\ Fit(q)
  <2> SUFFICES ASSUME NEW p \in P, Fit(p), g[p] # "no", ~Found
               PROVE  \E q \in P : g[p] = g[q] /\ q.j = p.j + 1 /\ Fit(q)
    OBVIOUS
  <2>1. PICK u : Fits(f, upF, t, upT, p, u)
    OBVIOUS
  <2>2. Verdict(f, t, g, p) # "no"
    BY <1>2
  <2>3. p.i # Len(f) + 1 /\ p.j # Len(t) + 1
    <3> SUFFICES ASSUME p.i = Len(f) + 1 \/ p.j = Len(t) + 1 PROVE FALSE
      OBVIOUS
    <3>1. Len(u) = Len(t) /\ Matches(f, u)
      BY <2>1, <2>2, EndMatches
    <3>2. AlikeUpTo(f, t, u)
      BY <2>1 DEF Fits
    <3> QED
      BY <3>1, <3>2
  <2>4. Follows(f, upF, t, upT, g, p)
    BY <2>1, <2>3, CharFollows, SlashFollows
  <2> QED
    BY <1>2, <2>2, <2>4 DEF Follows
<1> DEFINE S == {d \in Nat : \A p \in P : Fit(p) /\ p.j + d = n + 3 => g[p] = "no" \/ Found}
<1> HIDE DEF P, n, Fit, Found
<1>5. 0 \in S
  BY <1>1, <1>3
<1>6. ASSUME NEW d \in Nat, d \in S PROVE d + 1 \in S
  <2> SUFFICES ASSUME NEW p \in P, Fit(p), p.j + (d + 1) = n + 3 PROVE g[p] = "no" \/ Found
    OBVIOUS
  <2>1. ASSUME NEW q \in P, Fit(q), g[p] = g[q], q.j = p.j + 1 PROVE g[q] = "no" \/ Found
    <3>1. q.j + d = n + 3
      <4>1. n \in Nat /\ p.j \in Nat
        BY <1>1, <1>3
      <4> QED
        BY <2>1, <4>1
    <3> QED
      BY <1>6, <2>1, <3>1
  <2> QED
    BY <1>4, <2>1
<1>7. n + 2 \in S
  <2> HIDE DEF S
  <2>1. Nat \subseteq S
    BY <1>5, <1>6, NatSetInduction
  <2> QED
    BY <1>1, <2>1
<1> DEFINE p == Place(1, 1, FALSE)
<1>8. p \in P /\ p.i = 1 /\ p.j = 1 /\ p.slash = FALSE
  <2>1. 1 \in 1..(Len(f) + 2) /\ 1 \in 1..(n + 2)
    BY <1>1
  <2> QED
    BY <2>1 DEF P, n, Place, Places
<1> HIDE DEF p
<1>9. Fit(p)
  <2> DEFINE L == << <<>> >>
  <2>1. upF[0] = L /\ upT[0] = L
    BY <1>1 DEF LevelsUpTo
  <2>2. <<>> \in Seq(Char) /\ Len(<<>>) = 0 /\ L \in Seq(Seq(Char)) /\ Len(L) = 1
    <3>1. <<>> \in Seq(Char)
      OBVIOUS
    <3> QED
      BY <3>1
  <2>3. Levels(<<>>) = L
    <3>1. PICK upTo : LevelsUpTo(<<>>, upTo)
      BY <2>2, LevelsGrow
    <3> QED
      BY <2>2, <3>1 DEF LevelsUpTo
  <2> HIDE DEF L
  <2>4. Agreed(L, L)
    BY <2>2 DEF Agreed, AreLevels
  <2>5. p.i - 1 = 0 /\ p.j - 1 = 0 /\ p.i \in 1..(Len(f) + 1) /\ p.j \in 1..(Len(t) + 1)
    BY <1>1, <1>8 DEF n
  <2>6. AlikeUpTo(f, t, <<>>)
    BY <2>2 DEF AlikeUpTo
  <2>7. FitsIn(f, upF, t, p, L, L)
    BY <1>8 DEF FitsIn
  <2>8. Len(L) >= Len(L)
    BY <2>2
  <2>9. Fits(f, upF, t, upT, p, <<>>)
    BY <1>8, <2>1, <2>2, <2>3, <2>4, <2>5, <2>6, <2>7, <2>8 DEF Fits
  <2> QED
    BY <2>9 DEF Fit
<1>10. p.j + (n + 2) = n + 3
  BY <1>1, <1>8
<1>11. g[p] = "no" \/ Found
  BY <1>7, <1>8, <1>9, <1>10
<1> QED
  BY <1>2, <1>11 DEF p, Found

LEMMA AlikeIsAlike ==
  ASSUME NEW f, NEW t \in Seq(Char), NEW u, AlikeUpTo(f, t, u), Len(u) = Len(t)
  PROVE  u \in AlikeTopics(t, {f[i] : i \in 1..Len(f)})
<1> DEFINE after == {i \in 2..Len(t) : t[i - 1] = "/"}
           chars == {f[i] : i \in 1..Len(f)}
           c == [i \in after |-> u[i]]
           v == [i \in 1..Len(t) |-> IF i \in after THEN c[i] ELSE t[i]]
<1>1. u \in Seq(Char) /\ Len(t) \in Nat /\ \A k \in 1..Len(t) : MayBe(f, t, k, u[k])
  BY DEF AlikeUpTo
<1>2. \A k \in 1..Len(t) : k \in after <=> k # 1 /\ t[k - 1] = "/"
  BY <1>1
<1>3. \A k \in after : k \in 1..Len(t)
  BY <1>1
<1>4. \A k \in after : u[k] \in chars
  BY <1>1, <1>2, <1>3 DEF MayBe, CharsOf
<1>5. \A k \in 1..Len(t) : k \notin after => u[k] = t[k]
  BY <1>1, <1>2 DEF MayBe
<1> HIDE DEF after, chars
<1>6. c \in [after -> chars] /\ \A k \in after : c[k] = u[k]
  BY <1>4
<1> HIDE DEF c
<1>7. v \in AlikeTopics(t, chars)
  BY <1>6 DEF AlikeTopics, after
<1>8. u = v
  <2>1. u = [k \in 1..Len(t) |-> u[k]]
    BY <1>1
  <2>2. \A k \in 1..Len(t) : u[k] = IF k \in after THEN c[k] ELSE t[k]
    BY <1>5, <1>6
  <2> QED
    BY <2>1, <2>2
<1> QED
  BY <1>7, <1>8 DEF chars

-----------------------------------------------------------------------------
(* A consumer handles a message only if the comparison does not refuse it. *)
NoneIsRefused ==
  \A h \in handled : message # None /\ CompareTopics(FullPath(h), read) # "no"

LEMMA RefusedStay ==
  ASSUME RoutingInv, NoneIsRefused, [RoutingNext]_routingVars
  PROVE  NoneIsRefused'
<1>1. CASE \E h \in Handler : Cardinality(handlers) < MaxHandlers /\ Register(h)
  BY <1>1 DEF Register, NoneIsRefused
<1>2. CASE SubscribeLate \/ Connects \/ SubscribeNext \/ SubscribedAll \/ UNCHANGED routingVars
  <2>1. UNCHANGED <<message, read, handled>>
    BY <1>2 DEF SubscribeLate, Connects, SubscribeNext, SubscribedAll, routingVars
  <2> QED
    BY <2>1 DEF NoneIsRefused, FullPath
<1>3. CASE Breaks
  BY <1>3 DEF Breaks, NoneIsRefused
<1>4. ASSUME NEW t \in Topic, HandleMessage(t) PROVE NoneIsRefused'
  <2> DEFINE Outcome(o) == {h \in handlers : CompareTopics(FullPath(h), read') = o}
  <2>1. message' = t /\ handled' \subseteq Outcome("yes") \cup Outcome("undefined")
    BY <1>4 DEF HandleMessage
  <2>2. \A h \in handled' : CompareTopics(FullPath(h), read') \in {"yes", "undefined"}
    BY <2>1
  <2>3. t # None
    BY RoutingAssumption
  <2> QED
    BY <2>1, <2>2, <2>3 DEF NoneIsRefused, FullPath
<1> QED
  BY <1>1, <1>2, <1>3, <1>4 DEF RoutingNext

(***************************************************************************)
(* No consumer gets the message of another, but for the one character that *)
(* compareTopics() does not look at: whatever the prefix, the consumers    *)
(* and the topic, whatever stands behind the topic where it is read, and   *)
(* whatever comes of a comparison past an end, what is handled matches the *)
(* path, as it was read, after a change of characters that follow a slash  *)
(* (or the path has an empty level, or a last "+" that meets more levels). *)
(***************************************************************************)
THEOREM AlikeCorrect == RoutingSpec => []HandledIsAlike
<1>1. RoutingInit => NoneIsRefused
  BY DEF RoutingInit, NoneIsRefused
<1>2. RoutingInv /\ NoneIsRefused /\ [RoutingNext]_routingVars => NoneIsRefused'
  BY RefusedStay
<1>3. RoutingInv /\ NoneIsRefused => HandledIsAlike
  <2> SUFFICES ASSUME RoutingInv, NoneIsRefused, NEW h \in handled, ~EmptyLevel(FullPath(h)),
                      ~(/\ FullPath(h)[Len(FullPath(h))] = "+"
                        /\ Len(Levels(read)) > Len(Levels(FullPath(h))))
               PROVE  \E u \in AlikeTopics(read, {FullPath(h)[i] : i \in 1..Len(FullPath(h))}) :
                        Matches(FullPath(h), u)
    BY DEF HandledIsAlike
  <2> DEFINE f == FullPath(h)
  <2>1. /\ h \in Handler /\ message \in Topic /\ read \in Readings(message)
        /\ CompareTopics(f, read) # "no"
    BY DEF RoutingInv, RoutingTypeOK, NoneIsRefused
  <2>2. f \in Seq(Char) /\ PlusIsLevel(f)
    BY <2>1, PathsAreCharacters, RoutingAssumption DEF FullPath
  <2>3. read \in Seq(Char)
    BY <2>1, ReadingsAreCharacters
  <2> HIDE DEF f
  <2>4. PICK upF : LevelsUpTo(f, upF)
    BY <2>2, LevelsGrow
  <2>5. PICK upT : LevelsUpTo(read, upT)
    BY <2>3, LevelsGrow
  <2>6. Compared(f, upF, read, upT)
    BY <2>2, <2>3, <2>4, <2>5 DEF Compared, f
  <2>7. PICK u : AlikeUpTo(f, read, u) /\ Len(u) = Len(read) /\ Matches(f, u)
    BY <2>1, <2>6, AlikeIsFound
  <2>8. u \in AlikeTopics(read, {f[i] : i \in 1..Len(f)})
    BY <2>3, <2>7, AlikeIsAlike
  <2> QED
    BY <2>7, <2>8 DEF f
<1>4. RoutingSpec => []RoutingInv
  BY InvHolds
<1> QED
  BY <1>1, <1>2, <1>3, <1>4, PTL DEF RoutingSpec

=============================================================================
