CONSTANTS
  None = None
  Setups <- MCCalls
  Ids <- MCIds
  Patches <- MCPatches
  Allowed <- MCAllowed
  Pipe = 1
SPECIFICATION ResumeSpec
CHECK_DEADLOCK FALSE
INVARIANTS TypeOK AnswerIsWhole VerdictIsSound LogIsTrue NothingLeft KimiSawThisTree MarkedOnce
PROPERTIES SnapshotIsWhole DispatchEnds
