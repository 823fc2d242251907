CONSTANTS
  Iterations = {"i1", "i2"}
  Families = {"claude", "codex", "gemini"}
  Files = {"f", "g"}
  Shells = {"a", "b"}
  MaxPlans = 2
  None = None
  Setups <- MCRepos
SPECIFICATION SnapshotSpec
CHECK_DEADLOCK FALSE
INVARIANTS TypeOK MarkersAgree MarkerIsBacked RestoreIsFaithful
PROPERTIES EditsWereApproved ClosedWithTokens RollbackUnseals
