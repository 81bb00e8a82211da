\* Two slots, so that events of the client and of the station wait together;
\* two failures, so that a lost link is retried before the limit; two handles,
\* so that overlapping calls of connect() leave a client behind.
CONSTANTS
  QueueSize = 2
  RetryLimit = 2
  AppEvent = {"MQTT_CONNECTED", "MQTT_DISCONNECTED", "READY", "PUBLISH", "DNS_CONFIG"}
  NoEvent = NoEvent
  Handle = {h1, h2}
  NULL = NULL
  UserEvent = {"PUBLISH"}
SPECIFICATION RoomSpec
SYMMETRY HandleSymmetry
INVARIANTS
  MqttTypeOK
  AttemptNeverLost
PROPERTY FaultNeedsOverlap
CHECK_DEADLOCK FALSE
