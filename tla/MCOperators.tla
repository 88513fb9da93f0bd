---------------------------- MODULE MCOperators ----------------------------
(***************************************************************************)
(* The pure operators of the project, each applied to every input of a    *)
(* small set and compared with a reference definition:                    *)
(*  - the UHID_CREATE2 record against the kernel's uhid_event layout    *)
(*    (HidRecords);                                                        *)
(*  - the key-event encoder (KeyCodes!Frame) over every code soft_rc can  *)
(*    write: each key of the table, its release code and the battery code *)
(*    for every level BATT_LEVELx can produce, on both framings;          *)
(*  - increment_mac_address at the wraparound, and                        *)
(*    validate_and_sanitize_psk at the length boundaries 8, 63 and 64,    *)
(*    with and without control characters (WifiUtils).                    *)
(* The variable holds the input under test.                               *)
(***************************************************************************)
EXTENDS KeyCodes, HidRecords, WifiUtils, FiniteSets

(* Every keycode SendKeyCode can be given or write.                        *)
AllCodes ==
  { Keymap[k] : k \in KeyNames } \cup { GetKeyUp(Keymap[k]) : k \in KeyNames }
    \cup { Keymap.BATT_LEVEL + level * \h10000 : level \in 0 .. 100 }

RecordInputs == [kind : {"uhid"}]

KeyInputs == [kind : {"key"}, code : AllCodes, uhid : BOOLEAN]

OctetVals == {0, 1, 254, 255}

MacInputs == [kind : {"mac"}, mac : [1 .. MacOctets -> OctetVals]]

PskInputs ==
  [kind : {"psk"},
   psk  : [hex : {0, 1, 7, 8, 62, 63, 64}, text : {0, 1, 56},
           ctrl : {0, 1}, del : {0, 1}, high : {0, 1}]]

VARIABLE input

Init == input \in RecordInputs \cup KeyInputs \cup MacInputs \cup PskInputs

Next == UNCHANGED input

Spec == Init /\ [][Next]_input

(* Reference (spec 4.3): count bytes taken by successive 8-bit right      *)
(* shifts starting at bit 8.                                               *)
RECURSIVE ShiftOut(_, _)
ShiftOut(value, n) ==
  IF n = 0 THEN << >>
  ELSE << (value \div 256) % 256 >> \o ShiftOut(value \div 256, n - 1)

RefFrame(keycode, withHeader) ==
  LET count  == keycode % 256
      header == IF withHeader THEN << 12, 0, 0, 0, count % 256, count \div 256 >>
                ELSE << >>
  IN  header \o ShiftOut(keycode, count)

(* Reference: the next address, by carrying from the last octet.          *)
RECURSIVE Successor(_)
Successor(octets) ==
  IF octets = << >> THEN << >>
  ELSE IF Last(octets) < 255 THEN Front(octets) \o << Last(octets) + 1 >>
  ELSE Successor(Front(octets)) \o << 0 >>

-----------------------------------------------------------------------------
(* The UHID_CREATE2 record CreateUhidDevice writes has every field at the *)
(* offset and width of the packed uhid_event, is 4376 bytes long, and      *)
(* declares the report descriptor's real size.                             *)
UhidCreateLayout ==
  input.kind = "uhid" =>
    /\ Fits(GetUhidCreateStruct, UhidEventLayout)
    /\ RecordLen(GetUhidCreateStruct) = 4376
    /\ GetUhidCreateStruct[5].value = RdDataLen

(* WriteKeyCodeToDevice builds the frame spec 4.3 describes: the uhid     *)
(* frame is six bytes longer, with the count in a little-endian field.    *)
FrameMatchesReference ==
  input.kind = "key" => Frame(input.code, input.uhid) = RefFrame(input.code, input.uhid)

(* No code of the table carries bits above the bytes its count says are  *)
(* sent: the driver reads every code back unchanged.                      *)
FrameRoundTrips ==
  input.kind = "key" =>
    Decode(Frame(input.code, input.uhid), IF input.uhid THEN "uhid" ELSE "bthid") = input.code

(* increment_mac_address gives the next address, and ff:..:ff wraps to   *)
(* 00:..:00 as octets of the same width rather than raising.              *)
MacIncrementIsSuccessor ==
  input.kind = "mac" => IncrementMacAddress(input.mac) = Successor(input.mac)

=============================================================================
