SPECIFICATION Spec
CONSTANTS
  MaxSeq = 3
  Kinds = {"nop", "load", "satp"}
  Policy = "kmhv3"
  RobEntries = 2
  InstsPerGroup = 2
  WalkPolicy = "Rollback"
  SquashWidth = 1
  CommitWidth = 1
  RenameWidth = 2
  AllowFaults = TRUE
  AllowOrderViolations = FALSE
  AllowSnoops = TRUE
  AllowTCSquash = TRUE
  AllowDrain = TRUE
INVARIANTS
  WalkErasesTheDead
  RetiresOnlyLive
  CompletedIsInROB
  DispatchesOnlyLive
  NonSpecIsWaiting
PROPERTIES
  ImplementsProgramOrder
