SPECIFICATION FairSpec
CONSTANTS
  N = 6
  FuseAt <- Pairs
  Loads = {1, 2, 3, 5}
  KeepIgnore = 2
  InstsIn8Bytes = 2
  MaxFetch = 3
INVARIANTS
  
  NotFusedAgain
PROPERTIES
  OldestCommits
