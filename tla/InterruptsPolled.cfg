\* Two modules raise while two lists are scheduled and polled.
SPECIFICATION FairSpec
CONSTANTS
  Modules = {m1, m2}
  MaxLists = 2
  MaxRaises = 2
INVARIANTS
  TypeOK
  ListNoticed
  ReportedOnce
PROPERTY ScheduleReturns
