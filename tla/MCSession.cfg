SPECIFICATION Spec
CONSTANTS
  Modes <- UserSets
  StartupMode = "2_12_HDR_HL"
  Depths = {"Bpp12", "Bpp14"}
  DepthOf <- SetDepth
  CallsFail = TRUE
  Overlapping = {"setTrigMode"}
INVARIANTS TypeOK ClosedOnlyInReset DepthsAgree
PROPERTIES ConfiguredOnReturn
