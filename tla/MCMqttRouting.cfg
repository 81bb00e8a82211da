\* Two consumers, so that one is registered when the other is subscribed and
\* two paths can claim the same message.
CONSTANTS
  Char <- MCChar
  Path <- MCPath
  Topic <- MCTopic
  Stray <- MCStray
  Prefix <- MCPrefix
  Broadcast <- MCBroadcast
  None = None
  MaxHandlers = 2
SPECIFICATION RoutingSpec
INVARIANTS
  RoutingTypeOK
  EveryConsumerSubscribed
  MatchedIsHandled
  HandledIsAlike
