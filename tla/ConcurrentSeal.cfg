CONSTANTS
  Contributors = {h, k}
  Hosts = {h}
  Profiles = {}
  OneMirror = {k}
  MaxDays = 1
  MaxRounds = 2
  Ballots = {"approve", "objection"}
  MaxRuns = 1
  None = None
  Setups <- MCTwoAtOnce
SPECIFICATION Spec
CHECK_DEADLOCK FALSE
INVARIANTS AnswerIsIndexed
