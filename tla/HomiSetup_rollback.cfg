SPECIFICATION Spec
CONSTANTS
  p1 = p1  p2 = p2  p3 = p3  p4 = p4  r1 = r1  r2 = r2  d1 = d1  d2 = d2
  Proc <- MCFewProc  Release <- MCRelease  Selections <- NoClients  Inode <- MCInode
  Free = Free  Nobody = Nobody  NoInode = NoInode  None = None
  Careful = TRUE
  MaxEvents = 4
SYMMETRY FewSymmetry
INVARIANTS FailedRollbackRestores
CHECK_DEADLOCK FALSE
