\* A scan that the optimized code cannot do: its rounds all update one site.
SPECIFICATION Spec
CONSTANTS
  AddrBits = 5
  WordLog = 3
  MaxKicks = 0
  MaxScans = 1
  Cuts <- MCCuts
  Kicks <- MCKicks
  Lengths <- MCLengths
  Starts <- MCStarts
  Rules <- MCRules
  Planes <- MCPlanes
  Host <- MCHost
  Lut <- MCLut
INVARIANT GeneralExact
