\* threadbarrier_test.C: every thread waits once.
SPECIFICATION FairSpec
CONSTANTS
  Threads = {t1, t2, t3, t4, t5}
  NoThread = NoThread
  Count <- MCCount
  Counts <- MCNoCounts
  Rounds = 1
  Resets = FALSE
INVARIANT Rendezvous
PROPERTY ImplementsBarrier
PROPERTY EveryWaitReturns
