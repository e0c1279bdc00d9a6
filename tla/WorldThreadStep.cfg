CONSTANTS
  Worlds = {w1}
  Threads = {t1}
  None = None
  MaxRequests = 3
SPECIFICATION Spec
INVARIANT EngineOnOneThread
