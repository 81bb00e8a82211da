\* One line at the console, at every stage of the boot; two connections to the
\* broker, so that a second could report again.  One slot is full when the main
\* task posts behind that line, or behind a handler.
CONSTANTS
  QueueSize = 1
  Files <- MCFiles
  NoEvent = NoEvent
  Nothing = Nothing
  Value = {v, w}
  v = v
  w = w
  Empty = Empty
  MaxTyped = 1
  MaxUps = 2
SPECIFICATION BootSpec
INVARIANTS
  BootTypeOK
  HandledExactlyOnce
  SettingsAreHeld
  ConsoleIsComplete
  PortalShowsSettings
PROPERTIES
  StationIsStarted
  VersionIsPublished
CHECK_DEADLOCK FALSE
