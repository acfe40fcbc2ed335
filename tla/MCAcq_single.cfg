SPECIFICATION Spec
CONSTANTS
  TrigModes = {"IntTrig", "ExtTrigMult"}
  MaxFrames = 2
  FrameCounts = {0, 1, 2}
  MaxTriggers = 1
  Failing = {"start", "stop", "param", "read", "buffer", "open"}
  UsrActive = FALSE
  LateConfig = FALSE
INVARIANTS TypeOK FrameNumbering FrameQuota NoPhantomFrame
PROPERTIES FailuresReported RefusalIsFinal
