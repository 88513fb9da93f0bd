\* Spec 4.2: an address that is not 6 bytes must be refused; main accepts
\* any even number of hex digits and the control record takes it as is.
CONSTANTS MaxHexDigits = 14
SPECIFICATION Spec
INVARIANT ControlRecordFits
CHECK_DEADLOCK FALSE
