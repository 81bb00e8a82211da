\* Two partitions as in the SDK's two-ota table; three reads, so that one is
\* neither the first nor the last; two files, so that one can be left open and
\* another opened.
CONSTANTS
  Slot = {ota_0, ota_1}
  MaxChunks = 3
  MaxFiles = 2
SPECIFICATION WebFairSpec
INVARIANTS
  WebTypeOK
  AlwaysBootable
  NothingLeftOver
PROPERTIES
  SwitchNeedsUpdate
  RequestEnds
