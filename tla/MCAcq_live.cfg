SPECIFICATION FairSpec
CONSTANTS
  TrigModes = {"IntTrig", "IntTrigMult"}
  MaxFrames = 2
  FrameCounts = {1, 2}
  MaxTriggers = 2
  Failing = {"start", "stop", "read", "buffer", "open"}
  UsrActive = FALSE
  LateConfig = FALSE
INVARIANTS BusyMeansRunning PreparedIsReady
PROPERTIES ImplementsFrameSource StopReturns AcqCompletes TriggerTaken
