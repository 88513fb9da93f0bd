\* Two babysit invocations among four helper calls.
CONSTANTS
  MaxStarts = 2
  MaxCalls = 4
  NoPid = NoPid
SPECIFICATION Spec
INVARIANT KillPidStopped
\* The callers stop calling after MaxCalls; with no babysit left alive
\* nothing moves.
CHECK_DEADLOCK FALSE
