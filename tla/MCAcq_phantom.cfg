SPECIFICATION Spec
CONSTANTS
  TrigModes = {"IntTrig"}
  MaxFrames = 2
  FrameCounts = {2}
  MaxTriggers = 1
  Failing = {}
  UsrActive = TRUE
  LateConfig = FALSE
INVARIANTS NoPhantomFrame
