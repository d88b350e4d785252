\* Every optimized scan of a plane of four words of eight sites.
SPECIFICATION Spec
CONSTANTS
  AddrBits = 5
  WordLog = 3
  MaxKicks = 2
  MaxScans = 1
  Cuts <- MCCuts
  Kicks <- MCKicks
  Lengths <- MCLengths
  Starts <- MCStarts
  Rules <- MCRules
  Planes <- MCPlanes
  Host <- MCHost
  Lut <- MCLut
INVARIANTS
  TypeOK
  KickInv
  TablesApart
  RowKept
  SweepExact
  SweepCounts
  ReadInOrder
