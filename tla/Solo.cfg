CONSTANTS
  Steps = {s1}
  None = None
  MaxCycles = 2
  Signatures = {x}
  GateOn = TRUE
  Siblings = TRUE
  WallClock = TRUE
  ReviewerCross = FALSE
  ArchitectCross = TRUE
  MaxSpecs = 2
  MaxHeads = 2
  MaxMain = 1
  Corruptible = {"spec", "approval", "build", "verification", "review", "ruling", "outcome", "integrity", "baseline"}
  MaxCorrupt = 1
SPECIFICATION Spec
CONSTRAINT MCQuietEdits
INVARIANTS TypeOK DispatchedSpecIsApproved ReviewedIsGreen PublicStateMirrorsOpen
PROPERTIES DeliveryIsEarned TamperedNeverActedOn
