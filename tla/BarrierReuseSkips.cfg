\* The glue barrier as SimUpdateSite uses it: one wait() per site.
SPECIFICATION Spec
CONSTANTS
  Threads = {t1, t2}
  NoThread = NoThread
  Count <- MCCount
  Counts <- MCNoCounts
  Rounds = 2
  Resets = FALSE
INVARIANT Rendezvous
CHECK_DEADLOCK FALSE
