---------------------------- MODULE MqttMessages ----------------------------
(***************************************************************************)
(* Reassembly of incoming messages: MqttService::eventHandlerData          *)
(* (src/system/mqtt/MqttService.cpp), on the task of the client.           *)
(*                                                                         *)
(* esp-mqtt hands over a message longer than its buffer in several events; *)
(* only the first names the topic.  The parts so far are kept in buffers,  *)
(* under the topic, for the next event; buffers and currentTopic are       *)
(* static and outlive a connection.                                        *)
(*                                                                         *)
(* A part is the message it belongs to and its number; all parts have the  *)
(* same length, so lengths are counted in parts.                           *)
(***************************************************************************)
EXTENDS Naturals, Sequences

CONSTANTS
  TopicName,   (* topics subscribed to                                     *)
  Garbled,     (* a text that is no such topic                             *)
  NoMessage,   (* no message, no topic                                     *)
  MaxParts,    (* bound: parts of a message                                *)
  MaxMessages  (* bound: messages in a behaviour                           *)

Key == TopicName \cup {Garbled}

Message ==
  {m \in [id : 1..MaxMessages, parts : 1..MaxParts, got : 0..MaxParts,
          doubtful : BOOLEAN] : m.got < m.parts}
Part == [id : 1..MaxMessages, number : 1..MaxParts]

ASSUME MessagesAssumption ==
  /\ Garbled \notin TopicName
  /\ MaxParts \in Nat \ {0}
  /\ MaxMessages \in Nat
  /\ NoMessage \notin Message

VARIABLES
  buffers,      (* of each key: the parts kept, <<>> for no entry          *)
  currentTopic, (* the key of the last event that named a topic            *)
  coming,       (* the message being received, or NoMessage                *)
  count,        (* messages begun                                          *)
  handed,       (* history: the content the last event gave the handlers   *)
  last,         (* history: the message that event brought the last part   *)
                (* of, or NoMessage                                        *)
  spoiled       (* history, of each key: since the last message of one part *)
                (* that was read under it, one broke off or was of more than *)
                (* two parts                                                 *)

messagesVars == <<buffers, currentTopic, coming, count, handed, last, spoiled>>

PartOf(m, k) == [id |-> m.id, number |-> k]
Whole(m) == [k \in 1..m.parts |-> PartOf(m, k)]

MessagesTypeOK ==
  /\ buffers \in [Key -> Seq(Part)]
  /\ currentTopic \in Key \cup {NoMessage}
  /\ coming \in Message \cup {NoMessage}
  /\ count \in 0..MaxMessages
  /\ handed \in Seq(Part)
  /\ last \in Message \cup {NoMessage}
  /\ spoiled \in [Key -> BOOLEAN]

MessagesInit ==
  /\ buffers = [k \in Key |-> <<>>]
  /\ currentTopic = NoMessage
  /\ coming = NoMessage
  /\ count = 0
  /\ handed = <<>>
  /\ last = NoMessage
  /\ spoiled = [k \in Key |-> FALSE]

(* The handlers of the topic read get the content.  A text that is no topic *)
(* subscribed to has none, unless a path with a wildcard matches it, too.   *)
HandOver(key, content) ==
  IF key \in TopicName THEN handed' = content ELSE handed' \in {<<>>, content}

(* Mutant: a complete message does not leave the buffer. *)
HandlePartKeeps(m, key) ==
  LET segment == Append(buffers[key], PartOf(m, m.got + 1)) IN
  /\ buffers' = IF buffers[key] = <<>> THEN [buffers EXCEPT ![key] = segment] ELSE buffers
  /\ IF Len(segment) < m.parts
     THEN handed' = <<>> ELSE HandOver(key, SubSeq(segment, 1, m.parts))

(* The next part of m, under key: keep it, or hand the content over.  An     *)
(* entry that is there already is not replaced: emplace() leaves it alone.   *)
HandlePart(m, key) ==
  LET segment == Append(buffers[key], PartOf(m, m.got + 1)) IN
  IF Len(segment) < m.parts
  THEN /\ buffers' = IF buffers[key] = <<>> THEN [buffers EXCEPT ![key] = segment] ELSE buffers
       /\ handed' = <<>>
  ELSE /\ HandOver(key, SubSeq(segment, 1, m.parts))
       /\ buffers' = [buffers EXCEPT ![key] = <<>>]

(* Mutant: one part more is waited for than the message has. *)
MoveOnLate(m) ==
  IF m.got = m.parts
  THEN coming' = NoMessage /\ last' = m
  ELSE coming' = [m EXCEPT !.got = @ + 1] /\ last' = NoMessage

(* m has got one more part, perhaps its last. *)
MoveOn(m) ==
  IF m.got + 1 = m.parts
  THEN coming' = NoMessage /\ last' = m
  ELSE coming' = [m EXCEPT !.got = @ + 1] /\ last' = NoMessage

(* The first event of a message of topic t, read as key.  rawTopic is not      *)
(* terminated: the bytes after the topic, and so the text read, may be         *)
(* anything, another topic as well.                                            *)
FirstPart(t, key, n) ==
  /\ coming = NoMessage /\ count < MaxMessages
  /\ count' = count + 1
  /\ currentTopic' = key
  /\ LET m == [id |-> count + 1, parts |-> n, got |-> 0,
               doubtful |-> n > 2 \/ key # t \/ spoiled[key]] IN
       /\ HandlePart(m, key)
       /\ MoveOn(m)
  /\ spoiled' = [spoiled EXCEPT ![key] = n > 2 \/ (n > 1 /\ spoiled[key])]

(* An event without a topic: of the same message. *)
NextPart ==
  /\ coming # NoMessage
  /\ HandlePart(coming, currentTopic)
  /\ MoveOn(coming)
  /\ UNCHANGED <<currentTopic, count, spoiled>>

(* The connection breaks in the middle of a message: the rest never comes. *)
ConnectionBreaks ==
  /\ coming # NoMessage
  /\ coming' = NoMessage
  /\ last' = NoMessage
  /\ spoiled' = [spoiled EXCEPT ![currentTopic] = TRUE]
  /\ UNCHANGED <<buffers, currentTopic, count, handed>>

MessagesNext ==
  \/ \E t \in TopicName, key \in Key, n \in 1..MaxParts : FirstPart(t, key, n)
  \/ NextPart
  \/ ConnectionBreaks

MessagesSpec == MessagesInit /\ [][MessagesNext]_messagesVars

-----------------------------------------------------------------------------
(***************************************************************************)
(* A message of at most two parts is given to the handlers of its topic,   *)
(* whole, when its last part comes, whatever other messages, topics and    *)
(* lost connections were before it.  Left out are a message whose topic    *)
(* was read past its end, and one that follows, under its topic, a message *)
(* that broke off or was longer.  What such a message leaves in the buffer *)
(* is put in front of the next one, which, if it has two parts, leaves its *)
(* own second part in turn: only a message of one part ends that.          *)
(***************************************************************************)
ShortMessagesArrive == last # NoMessage => last.doubtful \/ handed = Whole(last)

=============================================================================
