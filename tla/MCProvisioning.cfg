\* Three queue slots are enough for two link events and an announcement to
\* wait together, and few enough for the loop's own posts to fail; one line
\* typed, as the retry limit alone opens provisioning twice.
CONSTANTS
  QueueSize = 3
  RetryLimit = 2
  AppEvent = {app, "GOT_SSID_PSWD"}
  NoEvent = NoEvent
  MaxTyped = 1
SPECIFICATION ProvSpec
INVARIANTS
  ProvTypeOK
  ReconnectNeverLost
  WifiBitTracksLink
  AnnouncementsTrackBit
  AbortNeedsReopen
PROPERTIES
  LinkRecovers
  ReceivedIsUsed
  StrandedIsOffered
