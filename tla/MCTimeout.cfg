SPECIFICATION Spec
CONSTANTS
  HalfRange = 64
  PerMs = 4
  MaxExposure = 63
  Timeouts <- EdgeTimeouts
INVARIANTS TypeOK WaitOnTop
PROPERTIES WaitIsBounded
