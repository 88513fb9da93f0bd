\* Two bridges: set_wifi -b br0, then set_wifi -b br1.  The second addif
\* fails because the interface is a port of br0, and the message is taken
\* for success.
CONSTANT MaxCalls = 2
CONSTANT Bridges = {"br0", "br1"}
CONSTANT NoBridge = NoBridge
SPECIFICATION Spec
INVARIANT ApSetConfigured
CHECK_DEADLOCK FALSE
