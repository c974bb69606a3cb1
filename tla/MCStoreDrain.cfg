SPECIFICATION Spec
CONSTANTS
  MaxSeq = 3
  Kinds = {"alu", "store"}
  Policy = "kmhv2"
  RobEntries = 2
  InstsPerGroup = 2
  WalkPolicy = "Replay"
  SquashWidth = 1
  CommitWidth = 1
  RenameWidth = 2
  AllowFaults = FALSE
  AllowOrderViolations = FALSE
  AllowSnoops = FALSE
  AllowTCSquash = FALSE
  AllowDrain = TRUE
INVARIANTS
  ReleasedStoresSurvive
