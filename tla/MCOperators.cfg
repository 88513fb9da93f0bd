\* The pure operators over every input of MCOperators; MAC addresses of
\* three octets (TLC's integers are 32-bit).
CONSTANT MacOctets = 3
SPECIFICATION Spec
INVARIANT UhidCreateLayout
INVARIANT FrameMatchesReference
INVARIANT FrameRoundTrips
INVARIANT MacIncrementIsSuccessor
 
\* The inputs are fixed: each initial state is a final one.
CHECK_DEADLOCK FALSE
