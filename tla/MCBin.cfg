SPECIFICATION Spec
CONSTANTS
  BinMax <- Largest
  BinInc <- Steps
  MaxRequest = 10
  WritesFail = TRUE
  Overlap = FALSE
INVARIANTS TypeOK BinDivides SetBinIsExact SumModeOnly
