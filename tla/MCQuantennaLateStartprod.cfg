\* A startprod that outlasts the 30-check wait finishes after a later stop.
CONSTANT MaxCalls = 3
CONSTANT Bridges = {"br0"}
CONSTANT NoBridge = NoBridge
SPECIFICATION Spec
INVARIANT StopDisablesRadio
CHECK_DEADLOCK FALSE
