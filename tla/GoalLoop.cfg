CONSTANTS
  Files = {"a", "b", "c"}
  None = None
  Docs <- MCDocs
  Patches <- MCPatches
  Setups <- MCSetups
SPECIFICATION Spec
CHECK_DEADLOCK FALSE
INVARIANTS TypeOK LandedIsLogged ScopeHolds VerdictSawMutation ScanAgrees NoCloseOverCorrection
PROPERTY OverwritesOnlyReviewed
