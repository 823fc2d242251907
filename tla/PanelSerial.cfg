CONSTANTS
  Contributors = {h, k}
  Hosts = {h}
  Profiles = {k}
  OneMirror = {k}
  MaxDays = 2
  MaxRounds = 2
  Ballots = {"approve"}
  MaxRuns = 2
  None = None
  Setups <- MCOneByOne
SPECIFICATION FairSpec
CHECK_DEADLOCK FALSE
PROPERTIES SerialArchive RunEnds
