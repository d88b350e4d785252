\* Two generations of every pattern of three sites in a square, and of a glider.
SPECIFICATION FairSpec
CONSTANTS
  Width = 5
  Height = 4
  Generations = 2
  Seeds <- MCSeeds
  None = None
INVARIANT KicksCopies
PROPERTY ImplementsLife
CHECK_DEADLOCK FALSE
