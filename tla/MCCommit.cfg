SPECIFICATION Spec
CONSTANTS
  MaxSeq = 4
  Kinds = {"branch", "load", "store"}
  Policy = "kmhv3"
  RobEntries = 3
  InstsPerGroup = 2
  WalkPolicy = "Replay"
  SquashWidth = 1
  CommitWidth = 1
  RenameWidth = 2
  AllowFaults = FALSE
  AllowOrderViolations = TRUE
  AllowSnoops = FALSE
  AllowTCSquash = FALSE
  AllowDrain = FALSE
INVARIANTS
  TypeOK
  GroupsExact
  WalkErasesTheDead
  BuffersEmptyOnArrival
  CompletedIsInROB
  ReleasedStoresSurvive
PROPERTIES
  ImplementsProgramOrder
