------------------------------ MODULE KeyCodes ------------------------------
(***************************************************************************)
(* The keycode table and the key-event encoder of src/cmds/soft_rc.py.    *)
(*                                                                         *)
(* A keycode is an unsigned 32-bit integer.  Its low byte is the number   *)
(* of report bytes that follow it on the wire; bits 8..15 are the HID     *)
(* report id; bits 16.. are the key usage (zero for a release code).      *)
(* WriteKeyCodeToDevice turns a keycode into the byte frame written to    *)
(* /dev/uhid (prefixed by a UHID_INPUT2 header) or /dev/bthid (bare).     *)
(*                                                                         *)
(* The second half of the module is the receiving side, the HID driver's  *)
(* reading of a frame.  It is not code of this repository: it is the      *)
(* environment the properties judge the frames by.                        *)
(***************************************************************************)
EXTENDS Integers, Sequences

(* Masks and shifts of non-negative integers, as the code's & and >> do   *)
(* them: k & (2^n - 1) = k % 2^n and k >> n = k \div 2^n.                  *)

(* keymap, soft_rc.py lines 158-201: key name -> keycode.                  *)
Keymap ==
  [ BATT_LEVEL    |-> \h001302,
    DIGIT_1       |-> \h1e4102, DIGIT_2 |-> \h1f4102, DIGIT_3 |-> \h204102,
    DIGIT_4       |-> \h214102, DIGIT_5 |-> \h224102, DIGIT_6 |-> \h234102,
    DIGIT_7       |-> \h244102, DIGIT_8 |-> \h254102, DIGIT_9 |-> \h264102,
    DIGIT_0       |-> \h274102, DEL     |-> \h2a4102, RELEASE2 |-> \h004102,
    TV_BOX_POWER  |-> \h00304003, TV_POWER |-> \h00821203,
    INPUT         |-> \h00824003, STOP     |-> \h00b74003,
    RECORD        |-> \h00b24003, REWIND   |-> \h00b44003,
    PLAY          |-> \h00b04003, FAST_FORWARD |-> \h00b34003,
    SKIP_BACKWARD |-> \h00b64003, PAUSE    |-> \h00b14003,
    SKIP_FORWARD  |-> \h00b54003, MENU     |-> \h00404003,
    BACK          |-> \h02244003, GUIDE    |-> \h008d4003,
    UP            |-> \h00424003, LEFT     |-> \h00444003,
    OK            |-> \h00414003, RIGHT    |-> \h00454003,
    DOWN          |-> \h00434003, EXIT     |-> \h02044003,
    INFO          |-> \h00044003, VOL_UP   |-> \h00e94003,
    SEARCH        |-> \h00f74003, CH_UP    |-> \h009c4003,
    VOL_DOWN      |-> \h00ea4003, MUTE     |-> \h00e24003,
    CH_DOWN       |-> \h009d4003, PREV     |-> \h00834003,
    RELEASE3      |-> \h00004003 ]

KeyNames == DOMAIN Keymap

(* UHID_INPUT2, line 204: the uhid_event type word of an input report.     *)
UHID_INPUT2 == << \h0c, 0, 0, 0 >>

(* Faulty variant: release code taken with a 24-bit mask.                 *)
GetKeyUpMask24(keycode) == keycode % \h1000000

(* GetKeyUp, lines 387-388: the release code of a keycode.                 *)
GetKeyUp(keycode) == keycode % \h10000

(* The key-down test of SendKeyCode, line 417: keycode & 0xffff0000 is     *)
(* non-zero, i.e. a bit of the upper half-word of the 32-bit code is set.  *)
IsPress(keycode) == (keycode \div \h10000) % \h10000 # 0

(* Faulty variant: bytes appended without the & 0xff mask.               *)
KeyBytesNoMask(keycode) ==
  LET count == keycode % 256
  IN  [ j \in 1 .. count |-> keycode \div 2^(8 * j) ]

(* Faulty variant: the shift misses the byte count, 8*i instead of        *)
(* 8*(i+1).                                                                *)
KeyBytesShiftFromZero(keycode) ==
  LET count == keycode % 256
  IN  [ j \in 1 .. count |-> (keycode \div 2^(8 * (j - 1))) % 256 ]

(* WriteKeyCodeToDevice, lines 395 and 400-401: count = keycode & 0xff,    *)
(* then byte i (i = 0 .. count-1) is (keycode >> 8*(i+1)) & 0xff.  With    *)
(* TLA+ indices j = i+1 the shift is 8*j.                                  *)
KeyBytes(keycode) ==
  LET count == keycode % 256
  IN  [ j \in 1 .. count |-> (keycode \div 2^(8 * j)) % 256 ]

(* Faulty variant: the count field packed big-endian (struct.pack(">H")). *)
FrameBigEndianCount(keycode, uhid) ==
  LET count == keycode % 256
  IN  IF uhid
        THEN UHID_INPUT2 \o << count \div 256, count % 256 >> \o KeyBytes(keycode)
        ELSE KeyBytes(keycode)

(* WriteKeyCodeToDevice, lines 396-404: on uhid the bytes follow the       *)
(* 4-byte UHID_INPUT2 word and struct.pack("H", count), the 16-bit count   *)
(* in the target's (little-endian) byte order; buffer(warr, 0, count + 6)  *)
(* then covers the whole array.  On bthid the bytes are written bare.      *)
Frame(keycode, uhid) ==
  LET count == keycode % 256
  IN  IF uhid
        THEN UHID_INPUT2 \o << count % 256, count \div 256 >> \o KeyBytes(keycode)
        ELSE KeyBytes(keycode)

-----------------------------------------------------------------------------
(***************************************************************************)
(* Receiving side (the uhid / bthid driver; environment).                  *)
(***************************************************************************)

(* Little-endian value of a byte sequence.                                 *)
RECURSIVE LittleEndian(_)
LittleEndian(bytes) ==
  IF bytes = << >> THEN 0 ELSE Head(bytes) + 256 * LittleEndian(Tail(bytes))

(* The report bytes a driver takes from a frame: uhid reads the 6-byte     *)
(* header and then as many bytes as its size field says; bthid takes the   *)
(* whole write.                                                             *)
Payload(frame, variant) ==
  IF variant = "uhid"
    THEN LET size == frame[5] + 256 * frame[6]
         IN  IF Len(frame) >= 6 /\ size <= Len(frame) - 6
               THEN SubSeq(frame, 7, 6 + size) ELSE << >>
    ELSE frame

(* The keycode the receiver reads back from a frame: the byte count in the *)
(* low byte, the report bytes above it.                                    *)
Decode(frame, variant) ==
  LET p == Payload(frame, variant)
  IN  Len(p) + 256 * LittleEndian(p)

(* The HID report a code belongs to: usage of zero releases the report.    *)
ReportOf(code) == code % \h10000
Usage(code)    == code \div \h10000
=============================================================================
