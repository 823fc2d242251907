CONSTANTS
  Steps = {s1, s2}
  None = None
  MaxCycles = 1
  Signatures = {x}
  GateOn = TRUE
  Siblings = FALSE
  WallClock = FALSE
  ReviewerCross = FALSE
  ArchitectCross = TRUE
  MaxSpecs = 1
  MaxHeads = 2
  MaxMain = 0
  Corruptible = {}
  MaxCorrupt = 0
SPECIFICATION Spec
PROPERTIES DeliveryIsEarned
