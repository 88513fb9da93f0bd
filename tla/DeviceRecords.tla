---------------------------- MODULE DeviceRecords ----------------------------
(***************************************************************************)
(* main's --bdaddr parsing in src/cmds/soft_rc.py, which supplies the    *)
(* address of the bthid control record, and the records CreateUhidDevice *)
(* and CreateBthidDevice hand to the kernel (HidRecords).                 *)
(***************************************************************************)
EXTENDS HidRecords

CONSTANTS
  MaxHexDigits  \* bound: length of the --bdaddr argument after "0x"

-----------------------------------------------------------------------------
(***************************************************************************)
(* main, lines 553-562, then the record built from the address.           *)
(***************************************************************************)
VARIABLES
  phase,      \* "parse", "parsed", "built", "exit"
  arg,        \* the --bdaddr text: [prefix (has "0x"), digits, hex (all hex)]
  bdAddrLen,  \* len(bd_addr) after a2b_hex
  record      \* the BTHID_CONTROL record built, << >> before

vars == << phase, arg, bdAddrLen, record >>

Args == [prefix : BOOLEAN, digits : 0 .. MaxHexDigits, hex : BOOLEAN]

Init ==
  /\ phase = "parse"
  /\ arg \in Args
  /\ bdAddrLen = 0
  /\ record = << >>

(* Lines 554-562: strip "0x"; binascii.a2b_hex raises TypeError on an odd *)
(* length or a non-hex digit, and main prints an error and exits.         *)
ParseBdaddr ==
  /\ phase = "parse"
  /\ IF arg.hex /\ arg.digits % 2 = 0
       THEN phase' = "parsed" /\ bdAddrLen' = arg.digits \div 2
       ELSE phase' = "exit" /\ UNCHANGED bdAddrLen
  /\ UNCHANGED << arg, record >>

(* CreateBthidDevice, line 383: the record passed to the ioctl.            *)
BuildControlStruct ==
  /\ phase = "parsed"
  /\ record' = GetBthidControlStruct(bdAddrLen)
  /\ phase' = "built"
  /\ UNCHANGED << arg, bdAddrLen >>

Next == ParseBdaddr \/ BuildControlStruct

Spec == Init /\ [][Next]_vars

(* Spec 4.2: an address that is not 6 bytes is refused (InvalidAddress),  *)
(* so every control record built has the BTHID_CONTROL layout.            *)
ControlRecordFits == phase = "built" => Fits(record, BthidControlLayout)
=============================================================================
