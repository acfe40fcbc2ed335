SPECIFICATION Spec
CONSTANTS
  TrigModes = {"IntTrig"}
  MaxFrames = 2
  FrameCounts = {2}
  MaxTriggers = 2
  Failing = {}
  UsrActive = FALSE
  LateConfig = FALSE
PROPERTIES StopLeavesReady
