CONSTANTS
  QueueSize = 2
  RetryLimit = 1
  AppEvent = {"MQTT_CONNECTED", "MQTT_DISCONNECTED", "READY", "PUBLISH", "DNS_CONFIG"}
  NoEvent = NoEvent
  Handle = {h1, h2}
  NULL = NULL
  UserEvent = {"PUBLISH"}
SPECIFICATION MqttSpec
INVARIANT PublishOnClientOnly
CHECK_DEADLOCK FALSE
