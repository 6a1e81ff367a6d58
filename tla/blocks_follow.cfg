SPECIFICATION FairSpec
CONSTANTS
  Branch = {1, 2}
  MaxHeight = 3
  Block <- Tree
  None = None
PROPERTIES
  IsFollower
  Follows
CHECK_DEADLOCK FALSE
