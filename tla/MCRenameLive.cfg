SPECIFICATION FairSpec
CONSTANTS
  r1 = r1
  r2 = r2
  x0 = x0
  p1 = p1
  p2 = p2
  p3 = p3
  p4 = p4
  p5 = p5
  ArchRegs = {r1, r2}
  Zero = x0
  PhysRegs = {p1, p2, p3}
  InvalidReg = InvalidReg
  Insts <- LiveInsts
  MaxDests = 1
  RenameWidth = 1
  ReleaseWidth = 1
  EnableMoveElimination = TRUE
  EnableConstantFolding = FALSE
  MaxSeq = 2
PROPERTIES
  ReleaseEventually
  RegisterStallEnds
