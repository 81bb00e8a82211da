\* Two entries and two slots, so that an event can wait while another is half
\* delivered; three posts fill the queue behind the event being handled. Three
\* boxes: one handled, one waiting, one being filled.
CONSTANTS
  QueueSize = 2
  Entries = 2
  Event = {e1, e2}
  NoEvent = NoEvent
  Box = {b1, b2, b3}
  NoBox = NoBox
  Task = {t1}
  MaxPosts = 4
  MaxDepth = 2
SPECIFICATION BusFairSpec
INVARIANTS
  BusTypeOK
  BoxHasOneOwner
PROPERTIES
  EveryEntryIsServed
  DeliversInOrder
  ImplementsSystemLoop
CHECK_DEADLOCK FALSE
