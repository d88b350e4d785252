\* Three instructions in lists of any lengths, on two modules.
SPECIFICATION FairSpec
CONSTANTS
  NumModules = 2
  MaxInstrs = 3
  Noops <- MCNoops
INVARIANTS
  TypeOK
  NeverStale
  TornByOne
  AnnouncedStarted
  RaisedByOverrun
PROPERTY ListEnds
