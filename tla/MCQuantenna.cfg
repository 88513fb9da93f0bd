\* Four /bin/wifi calls, any command may fail, the firmware may finish
\* startprod at any time or never.  The callers stop after MaxCalls calls.
CONSTANT MaxCalls = 4
CONSTANT Bridges = {"br0"}
CONSTANT NoBridge = NoBridge
SPECIFICATION Spec
INVARIANT StaSetEnablesRadio
INVARIANT ApSetConfigured
PROPERTY CallsReturn
CHECK_DEADLOCK FALSE
