CONSTANTS
  Iterations = {"i1", "i2"}
  Families = {"claude", "codex", "gemini"}
  Files = {"f", "g"}
  Shells = {"a", "b"}
  MaxPlans = 2
  None = None
  Setups <- MCCalm
SPECIFICATION SnapshotSpec
CHECK_DEADLOCK FALSE
PROPERTIES ApproveIsTransactional
