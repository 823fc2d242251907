CONSTANTS
  Contributors = {h, k}
  Hosts = {h}
  Profiles = {}
  OneMirror = {k}
  MaxDays = 1
  MaxRounds = 2
  Ballots = {"approve", "objection"}
  MaxRuns = 2
  None = None
  Setups <- MCAtOnce
SPECIFICATION Spec
CHECK_DEADLOCK FALSE
INVARIANTS TypeOK VotesAreSealed PlanIsBacked
PROPERTIES PacketsAreImmutable
