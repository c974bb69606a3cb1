SPECIFICATION FairSpec
CONSTANTS
  MaxFront = 2
  MaxROB = 2
  CommitWidth = 2
PROPERTY InterruptIsTaken
