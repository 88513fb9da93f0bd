------------------------------ MODULE MCSoftRc ------------------------------
(***************************************************************************)
(* Model-checking instance of SoftRc: a small token vocabulary that       *)
(* reaches every dispatch branch and the interesting keycodes.            *)
(***************************************************************************)
EXTENDS SoftRc

T(h, a) == [head |-> h, arg |-> a]

(* Tokens for the safety runs:                                             *)
(*   GUIDE (consumer report 0x40), DIGIT_1 (keyboard report 0x41),         *)
(*   BATT_LEVEL0 (a battery code with no key-down bits), BATT_LEVEL150     *)
(*   (above the clamp), "30" (a channel number: DIGIT_3 DIGIT_0 OK),        *)
(*   REL, END, RAWMODE0/RAWMODE1, DEBUG3/DEBUG7, HELP, SLEEP, RELEASE3      *)
(*   (a release-only key) and an unknown key.                              *)
MCTokens ==
  { T("GUIDE", << >>), T("DIGIT_1", << >>), T("BATT_LEVEL", << 0 >>),
    T("BATT_LEVEL", << 1, 5, 0 >>), T("", << 3, 0 >>), T("REL", << >>),
    T("END", << >>), T("RAWMODE", << 0 >>), T("RAWMODE", << 1 >>),
    T("DEBUG", << 3 >>), T("DEBUG", << 7 >>), T("HELP", << >>),
    T("SLEEP", NonDigit), T("RELEASE3", << >>), T("FOO", << >>) }
(* The scenario of the REL finding: a battery report pressed (the only  *)
(* key-down code), a release-only key, and REL.  Every counterexample is   *)
(* then BATT_LEVEL150, RELEASE3, REL in raw mode.                          *)
MCTokensRelLast ==
  { T("BATT_LEVEL", << 1, 5, 0 >>), T("RELEASE3", << >>), T("REL", << >>) }
(* The same vocabulary without an END token, so that a session ends only  *)
(* through the input source.                                               *)
MCTokensNoEnd == MCTokens \ { T("END", << >>) }
=============================================================================
