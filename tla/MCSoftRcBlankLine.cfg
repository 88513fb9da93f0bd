\* Spec 4.6 says END is synthesized at end of file; the code also takes a
\* blank script line for end of file.
CONSTANTS
  MaxLineLen = 2
  MaxLines = 2
  DebugInit = {2}
  NoKey = NoKey
  NonDigit = NonDigit
  Tokens <- MCTokensNoEnd
  Aborts = {}
SPECIFICATION Spec
INVARIANT ScriptReadToEnd
CHECK_DEADLOCK FALSE
