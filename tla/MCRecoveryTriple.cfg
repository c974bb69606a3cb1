SPECIFICATION Spec
CONSTANTS
  N = 5
  FuseAt <- Triple
  Loads = {2, 5}
  KeepIgnore = 2
  InstsIn8Bytes = 2
  MaxFetch = 3
INVARIANTS
  NotFusedAgain
