SPECIFICATION Spec
CONSTANTS
  MaxSeq = 2
  Kinds = {"satp"}
  Policy = "kmhv2"
  RobEntries = 2
  InstsPerGroup = 2
  WalkPolicy = "Replay"
  SquashWidth = 1
  CommitWidth = 1
  RenameWidth = 2
  AllowFaults = FALSE
  AllowOrderViolations = FALSE
  AllowSnoops = FALSE
  AllowTCSquash = TRUE
  AllowDrain = FALSE
INVARIANTS
  OneSquashAfter
