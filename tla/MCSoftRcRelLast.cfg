\* The REL docstring says it releases the previous key pressed; the code
\* releases the report of the last code written.  The vocabulary is the
\* scenario's three tokens, so every counterexample is that scenario.
CONSTANTS
  MaxLineLen = 2
  MaxLines = 2
  DebugInit = {2}
  NoKey = NoKey
  NonDigit = NonDigit
  Tokens <- MCTokensRelLast
  Aborts = {}
SPECIFICATION Spec
PROPERTY RelReleasesLastPressed
CHECK_DEADLOCK FALSE
