\* The barrier of the simulator: several rounds, re-armed, resized, zeroed.
\* It can hang (a zeroed barrier never opens), so deadlock is no error here.
SPECIFICATION Spec
CONSTANTS
  Threads = {t1, t2, t3}
  NoThread = NoThread
  Count <- MCCount
  Counts <- MCCounts
  Rounds = 3
  Resets = TRUE
INVARIANTS
  TypeOK
  LockInv
  ReadableCount
  ArrivalAccounting
  FirstRendezvous
SYMMETRY MCSymmetry
CHECK_DEADLOCK FALSE
