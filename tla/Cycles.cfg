CONSTANTS
  Steps = {s1}
  None = None
  MaxCycles = 4
  Signatures = {x, y}
  GateOn = TRUE
  Siblings = FALSE
  WallClock = FALSE
  ReviewerCross = TRUE
  ArchitectCross = FALSE
  MaxSpecs = 1
  MaxHeads = 0
  MaxMain = 0
  Corruptible = {}
  MaxCorrupt = 0
SPECIFICATION FairSpec
INVARIANTS NoFourthSameRed
PROPERTIES RedIsRevised
