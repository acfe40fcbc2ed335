SPECIFICATION Spec
CONSTANTS
  Sensor <- Sizes
  MinSize <- Minimum
  SizeInc <- SizeSteps
  OffsetInc <- OffsetSteps
  Requests <- EdgeRequests
  CallsFail = TRUE
  Depths = {8, 9}
  UserSets = {11, 12}
INVARIANTS TypeOK WritesAccepted CheckCovers SetIsExact FrameFits
CONSTRAINT NotMasked
