\* As for the invariants, from a configured device and without publishers; see
\* RecoveryNext for the bounds.
CONSTANTS
  QueueSize = 2
  RetryLimit = 2
  AppEvent = {"MQTT_CONNECTED", "MQTT_DISCONNECTED", "READY", "PUBLISH", "DNS_CONFIG"}
  NoEvent = NoEvent
  Handle = {h1, h2}
  NULL = NULL
  UserEvent = {}
SPECIFICATION RecoverySpec
PROPERTIES
  WifiSpec
  ConnectionRecovers
CHECK_DEADLOCK FALSE
