\* The soft remote control: frames, battery range, prev_key_code against the
\* device and auto-release; a script session ends (weak fairness of Next:
\* Run is one thread that never waits on a script file); and RcServer
\* refines SoftRcSession.  The process exits in "done",
\* "failed" and "interrupted", so those states have no successor.
CONSTANTS
  Tokens <- MCTokens
  MaxLineLen = 2
  MaxLines = 2
  DebugInit = {2}
  Aborts = {"failed", "interrupted"}
  NoKey = NoKey
  NonDigit = NonDigit
SPECIFICATION Spec
INVARIANT TypeOK
INVARIANT FramesDecode
INVARIANT PrevMirrorsDevice
INVARIANT AutoreleaseLeavesNoKeyHeld
PROPERTY ScriptTerminates
PROPERTY SessionRefined
CHECK_DEADLOCK FALSE
