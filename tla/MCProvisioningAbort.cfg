\* Nobody types anything: the retry limit alone opens provisioning twice.
CONSTANTS
  QueueSize = 3
  RetryLimit = 2
  AppEvent = {app, "GOT_SSID_PSWD"}
  NoEvent = NoEvent
  MaxTyped = 0
SPECIFICATION ProvSpec
INVARIANT NeverAborts
