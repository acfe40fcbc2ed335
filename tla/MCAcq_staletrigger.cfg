SPECIFICATION Spec
CONSTANTS
  TrigModes = {"IntTrigMult"}
  MaxFrames = 2
  FrameCounts = {2}
  MaxTriggers = 2
  Failing = {}
  UsrActive = FALSE
  LateConfig = FALSE
INVARIANTS TriggerBeforeExposure
