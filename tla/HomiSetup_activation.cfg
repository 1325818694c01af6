SPECIFICATION Spec
CONSTANTS
  p1 = p1  p2 = p2  p3 = p3  p4 = p4  r1 = r1  r2 = r2  d1 = d1  d2 = d2
  Proc <- MCProc  Release <- MCRelease  Selections <- MCSelections  Inode <- MCInode
  Free = Free  Nobody = Nobody  NoInode = NoInode  None = None
  Careful = TRUE
  MaxEvents = 4
SYMMETRY Symmetry
INVARIANTS MutualExclusion FailedSetupRestores SetupHeals OriginalKept OwnedIsRecorded RegistrationsResolve RuntimeSelected
CHECK_DEADLOCK FALSE
