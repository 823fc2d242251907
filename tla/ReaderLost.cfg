CONSTANTS
  None = None
  Setups <- MCOne
  Ids <- MCIds
  Patches <- MCPatches
  Allowed <- MCAllowed
  Pipe = 1
SPECIFICATION ResumeSpec
CHECK_DEADLOCK FALSE
INVARIANT ReaderErrorSurfaces
