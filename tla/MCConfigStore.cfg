\* Two contents, so that an old one cannot pass for the new one and one can be
\* mixed with the other; two parts, so that a save or a load can stop half way.
CONSTANTS
  Parts = 2
  Value = {v1, v2}
  NoValue = NoValue
SPECIFICATION StoreSpec
INVARIANTS
  StoreTypeOK
  TornNeedsCause
PROPERTIES
  AppliedIsWhole
  SetupTakesEffect
