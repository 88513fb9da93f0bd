------------------------------- MODULE SoftRc -------------------------------
(***************************************************************************)
(* RcServer of src/cmds/soft_rc.py: the soft remote control.               *)
(*                                                                         *)
(* __init__ opens the input script and registers a HID device (uhid,       *)
(* falling back to bthid, or none in simulation mode).  Run then reads    *)
(* one line at a time from the script or stdin and dispatches each token  *)
(* of it; tokens that send keys go through SendKeyCode, which writes the  *)
(* code, and in auto-release mode its release code too, and remembers    *)
(* the last code written in prev_key_code.                                *)
(*                                                                         *)
(* The program is single-threaded: one token is one atomic step.  What    *)
(* can cut a step short is a failing os.write (IOError, the process exits *)
(* with status 1) or SIGINT (KeyboardInterrupt).  The device side, the    *)
(* set of keys the HID driver holds down, is modelled from the frames     *)
(* written, read back with the driver's framing (KeyCodes!Decode).         *)
(*                                                                         *)
(* A token is abstracted to a record [head, arg]: head is a keyword, a    *)
(* key name or "" (a token of digits only); arg is the rest of the token: *)
(* << >>, a sequence of decimal digits, or NonDigit (text that is not all *)
(* digits and does not start with "0").  Key names that end in digits    *)
(* (DIGIT_1, RELEASE2) are heads with arg << >>.                          *)
(***************************************************************************)
EXTENDS Integers, Sequences, SequencesExt, FiniteSets, TLC, KeyCodes

CONSTANTS
  Tokens,       \* tokens an input line may contain
  MaxLineLen,   \* bound: tokens on one input line
  MaxLines,     \* bound: lines in the script / lines typed on stdin
  DebugInit,    \* debug levels the -d option can give
  Aborts,       \* how a step may be cut short: "failed" (os.write raises),
                \* "interrupted" (SIGINT during a sleep or between writes)
  NoKey,        \* model value: prev_key_code = None
  NonDigit      \* model value: a token suffix that is not all digits

ASSUME MaxLineLen \in Nat /\ MaxLines \in Nat
ASSUME Aborts \subseteq {"failed", "interrupted"}

VARIABLES
  status,       \* "start" (in __init__), "running" (in Run), "done" (END),
                \* "failed" (IOError/OSError reached main), "interrupted"
  autorelease,  \* self.autorelease
  simu,         \* self.simu_mode
  debugLevel,   \* self.debug_level
  prev,         \* self.prev_key_code
  uhid,         \* self.uhid: framing used by WriteKeyCodeToDevice
  registered,   \* the device dev_fd registered with: "none", "uhid", "bthid"
  inScript,     \* an input script was given (self.in_script_fd)
  scriptLen,    \* number of lines in the script
  cursor,       \* lines read so far
  stdinEof,     \* stdin has reached end of file
  pending,      \* tokens of the current line not yet dispatched
  held,         \* device side: the codes of the keys the driver holds down
  written,      \* the frames written by the last step: [code, frame]
  rawUsed,      \* history: auto-release has been off at some point
  lastPress     \* history: the last key-down code written

vars == << status, autorelease, simu, debugLevel, prev, uhid, registered,
           inScript, scriptLen, cursor, stdinEof, pending, held, written,
           rawUsed, lastPress >>
inputVars  == << inScript, scriptLen, cursor, stdinEof >>
deviceVars == << uhid, registered >>

Exited == {"done", "failed", "interrupted"}

-----------------------------------------------------------------------------
(***************************************************************************)
(* Tokens                                                                  *)
(***************************************************************************)

EndToken == [head |-> "END", arg |-> << >>]

(* token == MAGIC_KEY_x                                                    *)
IsWord(t, w) == t.head = w /\ t.arg = << >>
(* token.find(MAGIC_KEY_x, 0, len(MAGIC_KEY_x)) == 0                       *)
HasPrefix(t, w) == t.head = w
(* str.isdigit(): non-empty and all decimal digits                         *)
IsDigitStr(a) == a # NonDigit /\ a # << >>
(* int() of a digit string                                                 *)
Num(a) == FoldLeft(LAMBDA n, d : 10 * n + d, 0, a)

(* A line after rstrip("\r\n").upper().split(): up to MaxLineLen tokens;  *)
(* << >> is a line of blanks only.                                         *)
Lines == UNION { [1 .. n -> Tokens] : n \in 0 .. MaxLineLen }

(* The branch of Run's token dispatch, lines 448-533, in the code's order. *)
Dispatch(t) ==
  CASE IsWord(t, "HELP")                      -> "help"
    [] IsWord(t, "END")                       -> "end"
    [] HasPrefix(t, "SLEEP")                  -> "sleep"
    [] IsWord(t, "REL")                       -> "rel"
    [] HasPrefix(t, "BATT_LEVEL")             -> "batt"
    [] HasPrefix(t, "RAWMODE")                -> "rawmode"
    [] HasPrefix(t, "DEBUG")                  -> "debug"
    [] t.head = "" /\ IsDigitStr(t.arg)       -> "number"
    [] t.head \in KeyNames /\ t.arg = << >>   -> "key"
    [] OTHER                                  -> "unknown"

-----------------------------------------------------------------------------
(***************************************************************************)
(* Device side (environment): the HID driver applies each frame.  A       *)
(* report with a non-zero usage holds that key down in place of any other *)
(* key of the same report; a zero usage releases the report.              *)
(***************************************************************************)
Receive(keys, w) ==
  LET c == Decode(w.frame, registered)
  IN  { k \in keys : ReportOf(k) # ReportOf(c) }
        \cup (IF Usage(c) # 0 THEN {c} ELSE {})

ReportHeld(code) == \E k \in held : ReportOf(k) = ReportOf(code)

-----------------------------------------------------------------------------
(***************************************************************************)
(* SendKeyCode and WriteKeyCodeToDevice                                    *)
(***************************************************************************)

(* Faulty variant: the release written before the key-down code.         *)
SendWritesReleaseFirst(keycode) ==
  IF autorelease /\ IsPress(keycode)
    THEN << GetKeyUp(keycode), keycode >>
    ELSE << keycode >>

(* SendKeyCode, lines 414-421: the codes written for one keycode.         *)
SendWrites(keycode) ==
  IF autorelease /\ IsPress(keycode)
    THEN << keycode, GetKeyUp(keycode) >>
    ELSE << keycode >>

(* Faulty variant: prev_key_code keeps the code passed in.                *)
PrevKeptAsSent(keycode) == keycode

(* SendKeyCode, line 422: prev_key_code = keycode, which lines 419 set to *)
(* the release code when one was written.                                  *)
PrevAfterSend(keycode) == Last(SendWrites(keycode))

(* A truth test on prev_key_code (lines 455, 474): None and 0 are false.   *)
Truthy(code) == code # NoKey /\ code # 0

(* SendKeyCode applied to each of codes in turn; the step then continues  *)
(* with status after.  WriteKeyCodeToDevice (lines 390-410) frames each   *)
(* code for the registered device, or only logs it in simulation mode.    *)
(* Only the first n writes may happen: os.write raising (lines 405-410)   *)
(* or SIGINT ends the process there, and prev_key_code keeps the value    *)
(* of the last SendKeyCode that completed.                                 *)
SendKeyCodes(codes, after) ==
  LET sends == [i \in 1 .. Len(codes) |-> SendWrites(codes[i])]
      ws    == FlattenSeq(sends)
      cuts  == IF simu THEN Aborts \ {"failed"} ELSE Aborts
  IN  \E n \in 0 .. Len(ws) :
        /\ n < Len(ws) => cuts # {}
        /\ LET k   == Max({ j \in 0 .. Len(sends) :
                             Len(FlattenSeq(SubSeq(sends, 1, j))) <= n })
               out == IF simu THEN << >>
                      ELSE [ i \in 1 .. n |->
                               [code |-> ws[i], frame |-> Frame(ws[i], uhid)] ]
               presses == { i \in 1 .. n : IsPress(ws[i]) }
           IN  /\ prev' = IF k = 0 THEN prev ELSE PrevAfterSend(codes[k])
               /\ IF n = Len(ws) THEN status' = after ELSE status' \in cuts
               /\ written' = out
               /\ held' = FoldLeft(Receive, held, out)
               /\ lastPress' = IF presses = {} THEN lastPress ELSE ws[Max(presses)]

-----------------------------------------------------------------------------
(***************************************************************************)
(* __init__, lines 323-359, with CreateUhidDevice and CreateBthidDevice    *)
(***************************************************************************)
Starting == status = "start"

(* Lines 337-343: open(inScript) raises IOError, re-raised to main.       *)
OpenScriptFailed ==
  /\ Starting /\ inScript
  /\ status' = "failed"
  /\ UNCHANGED << autorelease, simu, debugLevel, prev, deviceVars, inputVars,
                  pending, held, written, rawUsed, lastPress >>

(* Lines 345-347: simulation mode opens no device.                        *)
StartSimulated ==
  /\ Starting /\ simu
  /\ status' = "running"
  /\ UNCHANGED << autorelease, simu, debugLevel, prev, deviceVars, inputVars,
                  pending, held, written, rawUsed, lastPress >>

(* Lines 349-351, 361-373: /dev/uhid opens and takes the UHID_CREATE2     *)
(* record; self.uhid is set once the write succeeded.                     *)
CreateUhidDevice ==
  /\ Starting /\ ~simu
  /\ uhid' = TRUE
  /\ registered' = "uhid"
  /\ status' = "running"
  /\ UNCHANGED << autorelease, simu, debugLevel, prev, inputVars, pending,
                  held, written, rawUsed, lastPress >>

(* Faulty variant: self.uhid set as soon as /dev/uhid opened.             *)
UhidFlagOnOpen(opened) == opened

(* Lines 368-373: self.uhid after a uhid attempt whose create write       *)
(* failed; opened says whether os.open(UHID_DEV) had succeeded.            *)
UhidAfterFailedCreate(opened) == FALSE

(* Lines 352-355, 375-385: the uhid attempt raised (open or create write) *)
(* and /dev/bthid opens and accepts the BTHID_CONTROL ioctl.              *)
CreateBthidDevice ==
  /\ Starting /\ ~simu
  /\ \E opened \in BOOLEAN : uhid' = UhidAfterFailedCreate(opened)
  /\ registered' = "bthid"
  /\ status' = "running"
  /\ UNCHANGED << autorelease, simu, debugLevel, prev, inputVars, pending,
                  held, written, rawUsed, lastPress >>

(* Lines 356-359: both attempts raised; the error reaches main.           *)
DeviceUnavailable ==
  /\ Starting /\ ~simu
  /\ status' = "failed"
  /\ UNCHANGED << autorelease, simu, debugLevel, prev, deviceVars, inputVars,
                  pending, held, written, rawUsed, lastPress >>

-----------------------------------------------------------------------------
(***************************************************************************)
(* Run, lines 424-441: reading the next command line                       *)
(***************************************************************************)
Idle == status = "running" /\ pending = << >>

(* Lines 430-433: a non-empty script line.                                *)
ReadScriptLine ==
  /\ Idle /\ inScript /\ cursor < scriptLen
  /\ \E line \in Lines : pending' = line
  /\ cursor' = cursor + 1
  /\ written' = << >>
  /\ UNCHANGED << status, autorelease, simu, debugLevel, prev, deviceVars,
                  inScript, scriptLen, stdinEof, held, rawUsed, lastPress >>

(* Faulty variant: end of file read as an empty line.                     *)
ScriptEofNoEnd ==
  /\ Idle /\ inScript /\ cursor = scriptLen
  /\ pending' = << >>
  /\ written' = << >>
  /\ UNCHANGED << status, autorelease, simu, debugLevel, prev, deviceVars,
                  inputVars, held, rawUsed, lastPress >>

(* Lines 434-436: readline() returned "" after rstrip("\r\n"): at end of  *)
(* file, or on a blank line of the script, and END is dispatched.          *)
ReadScriptEof ==
  /\ Idle /\ inScript
  /\ \/ cursor < scriptLen /\ cursor' = cursor + 1
     \/ cursor = scriptLen /\ UNCHANGED cursor
  /\ pending' = << EndToken >>
  /\ written' = << >>
  /\ UNCHANGED << status, autorelease, simu, debugLevel, prev, deviceVars,
                  inScript, scriptLen, stdinEof, held, rawUsed, lastPress >>

(* Lines 438-439: a line typed on stdin.                                  *)
ReadStdinLine ==
  /\ Idle /\ ~inScript /\ ~stdinEof /\ cursor < MaxLines
  /\ \E line \in Lines : pending' = line
  /\ cursor' = cursor + 1
  /\ written' = << >>
  /\ UNCHANGED << status, autorelease, simu, debugLevel, prev, deviceVars,
                  inScript, scriptLen, stdinEof, held, rawUsed, lastPress >>

(* Lines 438-439 at end of stdin: readline() returns "" again and again;  *)
(* the line has no tokens and the loop reads once more.                    *)
ReadStdinEof ==
  /\ Idle /\ ~inScript
  /\ stdinEof' = TRUE
  /\ written' = << >>
  /\ UNCHANGED << status, autorelease, simu, debugLevel, prev, deviceVars,
                  inScript, scriptLen, cursor, pending, held, rawUsed, lastPress >>

(* Lines 440-441: KeyboardInterrupt in readline() leaves the loop; no     *)
(* release is sent.                                                        *)
InterruptRead ==
  /\ Idle /\ ~inScript
  /\ "interrupted" \in Aborts
  /\ status' = "interrupted"
  /\ written' = << >>
  /\ UNCHANGED << autorelease, simu, debugLevel, prev, deviceVars, inputVars,
                  pending, held, rawUsed, lastPress >>
-----------------------------------------------------------------------------
(***************************************************************************)
(* Run, lines 445-533: dispatching the next token of the line             *)
(***************************************************************************)
Token == Head(pending)

Dispatching(rule) ==
  /\ status = "running" /\ pending # << >>
  /\ Dispatch(Token) = rule

(* The release code REL and END send, lines 455-456 and 474-475.          *)
RelCodes == IF Truthy(prev) THEN << GetKeyUp(prev) >> ELSE << >>

(* A token that changes nothing but is consumed: HELP (lines 449-450,     *)
(* PrintKeys), SLEEPx.y (lines 461-470, a float() or the 0.1 s default,   *)
(* then time.sleep) and an unknown key (lines 529-531, a warning).        *)
NoEffectToken ==
  /\ \/ Dispatching("help") \/ Dispatching("sleep") \/ Dispatching("unknown")
  /\ pending' = Tail(pending)
  /\ written' = << >>
  /\ UNCHANGED << status, autorelease, simu, debugLevel, prev, deviceVars,
                  inputVars, held, rawUsed, lastPress >>

(* END, lines 453-458: release the previous key if prev_key_code is true, *)
(* then leave both loops; the rest of the line is dropped.                *)
End ==
  /\ Dispatching("end")
  /\ SendKeyCodes(RelCodes, "done")
  /\ pending' = << >>
  /\ UNCHANGED << autorelease, simu, debugLevel, deviceVars, inputVars, rawUsed >>

(* REL, lines 473-478: release the previous key, or only warn.            *)
Rel ==
  /\ Dispatching("rel")
  /\ SendKeyCodes(RelCodes, "running")
  /\ pending' = Tail(pending)
  /\ UNCHANGED << autorelease, simu, debugLevel, deviceVars, inputVars, rawUsed >>

(* Lines 486-487: a level above 100 is sent as 100.                       *)
BattLevel(level) == IF level > 100 THEN 100 ELSE level

(* Line 489: keymap["BATT_LEVEL"] | (level << 16).  The base code has no *)
(* bit at or above bit 16, so the | adds the shifted level.                *)
BattKeycode(level) == Keymap.BATT_LEVEL + BattLevel(level) * \h10000

(* BATT_LEVELx, lines 481-493: send the battery level, or warn when x is  *)
(* not a digit string.                                                     *)
Battery ==
  /\ Dispatching("batt")
  /\ SendKeyCodes(IF IsDigitStr(Token.arg)
                    THEN << BattKeycode(Num(Token.arg)) >> ELSE << >>,
                  "running")
  /\ pending' = Tail(pending)
  /\ UNCHANGED << autorelease, simu, debugLevel, deviceVars, inputVars, rawUsed >>

(* RAWMODEx, lines 496-503: the character after RAWMODE being "0" turns   *)
(* auto-release on; anything else, nothing included, turns it off.        *)
RawMode ==
  /\ Dispatching("rawmode")
  /\ LET a == Token.arg
     IN  autorelease' = (a # NonDigit /\ a # << >> /\ Head(a) = 0)
  /\ rawUsed' = (rawUsed \/ ~autorelease')
  /\ pending' = Tail(pending)
  /\ written' = << >>
  /\ UNCHANGED << status, simu, debugLevel, prev, deviceVars, inputVars, held,
                  lastPress >>

(* DEBUGx, lines 506-516: a digit string in LOG_ERR..LOG_VERB sets the    *)
(* debug level; anything else is logged as an error.                      *)
Debug ==
  /\ Dispatching("debug")
  /\ debugLevel' = IF IsDigitStr(Token.arg) /\ Num(Token.arg) \in 0 .. 3
                     THEN Num(Token.arg) ELSE debugLevel
  /\ pending' = Tail(pending)
  /\ written' = << >>
  /\ UNCHANGED << status, autorelease, simu, prev, deviceVars, inputVars, held,
                  rawUsed, lastPress >>

(* A digit string, lines 521-525: DIGIT_d for each digit d, then OK.      *)
NumberCodes(digits) ==
  [ i \in 1 .. Len(digits) |-> Keymap["DIGIT_" \o ToString(digits[i])] ]
    \o << Keymap.OK >>

Number ==
  /\ Dispatching("number")
  /\ SendKeyCodes(NumberCodes(Token.arg), "running")
  /\ pending' = Tail(pending)
  /\ UNCHANGED << autorelease, simu, debugLevel, deviceVars, inputVars, rawUsed >>

(* A key of the keymap, lines 528-533.                                    *)
Key ==
  /\ Dispatching("key")
  /\ SendKeyCodes(<< Keymap[Token.head] >>, "running")
  /\ pending' = Tail(pending)
  /\ UNCHANGED << autorelease, simu, debugLevel, deviceVars, inputVars, rawUsed >>

-----------------------------------------------------------------------------
(***************************************************************************)
(* Specification                                                           *)
(***************************************************************************)

(* main, lines 546-565: the flags give auto-release, simulation mode and  *)
(* the debug level; -i gives a script (of up to MaxLines lines).           *)
Init ==
  /\ status = "start"
  /\ autorelease \in BOOLEAN
  /\ simu \in BOOLEAN
  /\ debugLevel \in DebugInit
  /\ prev = NoKey
  /\ uhid = FALSE
  /\ registered = "none"
  /\ inScript \in BOOLEAN
  /\ scriptLen \in IF inScript THEN 0 .. MaxLines ELSE {0}
  /\ cursor = 0
  /\ stdinEof = FALSE
  /\ pending = << >>
  /\ held = {}
  /\ written = << >>
  /\ rawUsed = ~autorelease
  /\ lastPress = NoKey

Next ==
  \/ OpenScriptFailed \/ StartSimulated \/ CreateUhidDevice
  \/ CreateBthidDevice \/ DeviceUnavailable
  \/ ReadScriptLine \/ ReadScriptEof
  \/ ReadStdinLine \/ ReadStdinEof \/ InterruptRead
  \/ NoEffectToken \/ End \/ Rel \/ Battery \/ RawMode \/ Debug \/ Number \/ Key

(* Run is a plain loop on one thread: while it has input it keeps going.  *)
Spec == Init /\ [][Next]_vars /\ WF_vars(Next)

-----------------------------------------------------------------------------
(***************************************************************************)
(* Properties                                                              *)
(***************************************************************************)

(* Every variable keeps the type of the attribute it models; in           *)
(* particular every byte WriteKeyCodeToDevice writes is in 0..255.        *)
TypeOK ==
  /\ status \in {"start", "running"} \cup Exited
  /\ autorelease \in BOOLEAN /\ simu \in BOOLEAN /\ rawUsed \in BOOLEAN
  /\ debugLevel \in Int
  /\ prev \in Nat \cup {NoKey} /\ lastPress \in Nat \cup {NoKey}
  /\ uhid \in BOOLEAN /\ registered \in {"none", "uhid", "bthid"}
  /\ inScript \in BOOLEAN /\ scriptLen \in 0 .. MaxLines /\ cursor \in 0 .. MaxLines
  /\ stdinEof \in BOOLEAN
  /\ pending \in Lines \cup {<< EndToken >>}
  /\ held \subseteq Nat
  /\ written \in Seq([code : Nat, frame : Seq(0 .. 255)])

(* Every frame WriteKeyCodeToDevice writes reads back, with the framing of *)
(* the device __init__ registered, as the keycode it was asked to write:  *)
(* byte extraction, the uhid header and size field, and the uhid/bthid    *)
(* choice all agree.                                                       *)
FramesDecode ==
  \A i \in DOMAIN written : Decode(written[i].frame, registered) = written[i].code

(* prev_key_code tells the truth about the device: when it is a key-down  *)
(* code that key is held, and when it is a release code its report is    *)
(* released.  REL and END rely on this to release the right key.          *)
PrevMirrorsDevice ==
  (status \in {"running", "done"} /\ ~simu /\ Truthy(prev)) =>
    IF IsPress(prev) THEN prev \in held ELSE ~ReportHeld(prev)

(* In auto-release mode (never switched off by -r or RAWMODE) at most one *)
(* key transaction is in flight (spec 5): no key is left held after a     *)
(* token or at END, and when os.write raises or SIGINT lands between a    *)
(* key-down and its release (lines 414-421, uncaught outside the stdin     *)
(* read) the only key left held is the last one pressed.                  *)
AutoreleaseLeavesNoKeyHeld ==
  ~rawUsed =>
    /\ held \subseteq {lastPress}
    /\ status \in {"running", "done"} => held = {}

(* A script session always ends: each line is read once and end of file  *)
(* dispatches END.                                                         *)
ScriptTerminates == inScript => <>(status \in Exited)

(* Docstring of REL: the release sent is the one of the previous key      *)
(* pressed, so after REL that key is no longer held.                      *)
RelReleasesLastPressed ==
  [][ (Dispatching("rel") /\ status' = "running" /\ lastPress # NoKey)
        => ~\E k \in held' : ReportOf(k) = ReportOf(lastPress) ]_vars

(* RcServer implements the session abstraction: the status, the keys the *)
(* device holds, self.autorelease and self.simu_mode map onto it, and     *)
(* every step of Run and __init__ is a Start, a Step or a stutter.         *)
Session == INSTANCE SoftRcSession
  WITH Codes <- { c \in Nat : IsPress(c) }, ReportOf <- ReportOf,
       status <- status, held <- held, auto <- autorelease, simu <- simu

SessionRefined == Session!Spec

(* Spec 4.6: only the end of the script file dispatches END, so a script *)
(* that contains no END token is read to its last line before the session *)
(* is done (the run's vocabulary has no END token).                        *)
ScriptReadToEnd == (inScript /\ status = "done") => cursor = scriptLen
=============================================================================
