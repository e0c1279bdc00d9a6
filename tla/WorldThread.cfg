CONSTANTS
  Worlds = {w1, w2}
  Threads = {t1, t2}
  None = None
  MaxRequests = 3
SPECIFICATION Spec
INVARIANTS TypeOK ThreadsIterateTheWorld LockedAlone OpenedInQuiet TimerFollowsRunning
PROPERTY ClosingEnds
