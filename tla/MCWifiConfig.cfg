\* Two /bin/wifi processes, timeouts of 1 and 5 seconds (one and two
\* retries of lockfile-create), each rewriting the config under the lock.
CONSTANTS
  Procs = {p1, p2}
  Timeouts = {1, 5}
  MaxTime = 16
  NoOwner = NoOwner
  NoAlarm = NoAlarm
  NoFile = NoFile
SPECIFICATION SpecConfig
INVARIANT LockedHoldsLock
INVARIANT ConfigComplete
INVARIANT ConfigIsLastWritten
SYMMETRY Symmetry
\* Every process ends done or failed; time stops at MaxTime.
CHECK_DEADLOCK FALSE
