\* lock(lockfile, 0): signal.alarm(0) arms no alarm, and lockfile-create
\* gives up after its one retry; two processes then rewrite the config.
CONSTANTS
  Procs = {p1, p2}
  Timeouts = {0}
  MaxTime = 8
  NoOwner = NoOwner
  NoAlarm = NoAlarm
  NoFile = NoFile
SPECIFICATION SpecConfig
INVARIANT ConfigComplete
CHECK_DEADLOCK FALSE
