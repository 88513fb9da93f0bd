----------------------------- MODULE HidRecords -----------------------------
(***************************************************************************)
(* The device-registration records of src/cmds/soft_rc.py, as pure        *)
(* operators: GetUhidCreateStruct and GetBthidControlStruct.               *)
(*                                                                         *)
(* A record is modelled as its sequence of fields, each with the number   *)
(* of bytes the code puts in it and, for the integer fields the kernel    *)
(* reads, its value.  Byte contents other than those are abstracted: the  *)
(* properties are about where each field lands, which is what the kernel  *)
(* (uhid_event, BTHID_CONTROL; both packed) depends on.                   *)
(***************************************************************************)
EXTENDS Integers, Sequences, SequencesExt

Field(name, len, value) == [name |-> name, len |-> len, value |-> value]

(* Python's s += (n - len(s)) * "\x00": pads to n; a negative count pads  *)
(* nothing, so a longer s keeps its length.                                *)
Padded(len, width) == IF len < width THEN width ELSE len

(* GFRM100_RD_DATA, lines 212-224: 11 lines of 16 bytes and one of 3.      *)
RdDataLen == 11 * 16 + 3

(* Faulty variant: the uhid record given the 32-bit report size.          *)
UhidCreateStructWideSize ==
  << Field("type", 4, 11), Field("name", Padded(11, 128), 0),
     Field("phys", Padded(0, 64), 0), Field("uniq", Padded(0, 64), 0),
     Field("rd_size", 4, \hb3), Field("bus", 2, 5),
     Field("vendor", 4, \h58), Field("product", 4, \h2000),
     Field("version", 4, \h11b), Field("country", 4, \h21),
     Field("rd_data", Padded(RdDataLen, 4096), 0) >>

(* GetUhidCreateStruct, lines 227-269: UHID_CREATE2, the name             *)
(* "GFRM-SOFTRC" padded to 128, empty phys and uniq padded to 64,          *)
(* GFRM100_RD_SIZE_16, BUS_BLUETOOTH, vendor, product, version, country,  *)
(* and the report descriptor padded to 4096 (constants of lines 203-211). *)
GetUhidCreateStruct ==
  << Field("type", 4, 11), Field("name", Padded(11, 128), 0),
     Field("phys", Padded(0, 64), 0), Field("uniq", Padded(0, 64), 0),
     Field("rd_size", 2, \hb3), Field("bus", 2, 5),
     Field("vendor", 4, \h58), Field("product", 4, \h2000),
     Field("version", 4, \h11b), Field("country", 4, \h21),
     Field("rd_data", Padded(RdDataLen, 4096), 0) >>

(* GetBthidControlStruct, lines 272-291: GFRM100_RD_SIZE_32, the report   *)
(* descriptor padded to 800, then bd_addr as given.                       *)
GetBthidControlStruct(bdAddrLen) ==
  << Field("size", 4, \hb3), Field("data", Padded(RdDataLen, 800), 0),
     Field("bd_addr", bdAddrLen, 0) >>

(* Byte offset of field i: the lengths of the fields before it.           *)
Offset(rec, i) == FoldLeft(LAMBDA acc, f : acc + f.len, 0, SubSeq(rec, 1, i - 1))
RecordLen(rec) == Offset(rec, Len(rec) + 1)

(* The kernel's layouts, from the docstrings at lines 235-250 and         *)
(* 280-285: field name and width.                                          *)
UhidEventLayout ==
  << <<"type", 4>>, <<"name", 128>>, <<"phys", 64>>, <<"uniq", 64>>,
     <<"rd_size", 2>>, <<"bus", 2>>, <<"vendor", 4>>, <<"product", 4>>,
     <<"version", 4>>, <<"country", 4>>, <<"rd_data", 4096>> >>
BthidControlLayout == << <<"size", 4>>, <<"data", 800>>, <<"bd_addr", 6>> >>

(* A record fits a layout: same fields in the same order, each exactly as *)
(* wide as the kernel's.                                                   *)
Fits(rec, layout) ==
  /\ Len(rec) = Len(layout)
  /\ \A i \in 1 .. Len(rec) : rec[i].name = layout[i][1] /\ rec[i].len = layout[i][2]
=============================================================================
