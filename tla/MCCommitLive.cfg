SPECIFICATION FairSpec
CONSTANTS
  MaxSeq = 3
  Kinds = {"store", "csr"}
  Policy = "kmhv3"
  RobEntries = 3
  InstsPerGroup = 2
  WalkPolicy = "Replay"
  SquashWidth = 1
  CommitWidth = 1
  RenameWidth = 2
  AllowFaults = TRUE
  AllowOrderViolations = FALSE
  AllowSnoops = FALSE
  AllowTCSquash = FALSE
  AllowDrain = FALSE
PROPERTIES
  InstsLeaveROB
