SPECIFICATION Spec
CONSTANTS
  Agent <- MCAgent  Device <- MCDevice  Snapshots <- MCSnapshots  Modes <- MCModes
  NoScope = ""  None = None
  MaxPolls = 2  MaxSteps = 4
INVARIANTS NothingWithdrawn Organised LatestShown
PROPERTIES IdentityKept NoStaleCommit LayoutSettles
CHECK_DEADLOCK FALSE
