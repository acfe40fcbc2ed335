SPECIFICATION Spec
CONSTANTS
  TrigModes = {"IntTrigMult"}
  MaxFrames = 2
  FrameCounts = {2}
  MaxTriggers = 2
  Failing = {"stop", "open"}
  UsrActive = TRUE
  LateConfig = TRUE
INVARIANTS StartHasThread OneExposurePerTrigger DeviceQuiet
