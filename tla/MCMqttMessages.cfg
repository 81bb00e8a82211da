\* Three parts and five messages: one can spoil a topic, one pass through
\* another, and two follow on the spoiled one.
CONSTANTS
  TopicName = {t1, t2}
  Garbled = Garbled
  NoMessage = NoMessage
  MaxParts = 3
  MaxMessages = 5
SPECIFICATION MessagesSpec
SYMMETRY TopicSymmetry
INVARIANTS
  MessagesTypeOK
  ShortMessagesArrive
CHECK_DEADLOCK FALSE
