------------------------------- MODULE Repack -------------------------------
(***************************************************************************)
(* src/signing/repack.py: packing the kernel image with its dm-verity      *)
(* table and hash tree, then signing it.                                   *)
(*                                                                         *)
(* main generates the verity table (an external tool), PackVerity rewrites *)
(* the kernel file in place as                                             *)
(*     info block (4080 bytes) | kernel | zero padding to 4096 | hash tree *)
(* and the image is then signed: FakeSign prepends a 16-byte header, the   *)
(* production signing tool prepends a 16-byte header and appends a 256-    *)
(* byte signature (layout from the module docstring, lines 6-36), and the  *)
(* bolt tool returns an image whose layout this repository does not know.  *)
(*                                                                         *)
(* The file is a sequence of segments [kind, len, val]; val is the         *)
(* hashstart the info block's table carries, the size field of a fake      *)
(* header, and 0 elsewhere.  Byte contents are abstracted.                 *)
(***************************************************************************)
EXTENDS Integers, Sequences, SequencesExt

CONSTANTS
  KernelSizes,     \* bytes in the kernel file before packing
  HashSizes,       \* bytes in hash.bin
  TableHashStarts, \* hashstart values the verity tool may write
  NoHashStart      \* model value: a table without a hashstart= field

BLOCK_SIZE == 4096
SECTOR_SIZE == 512   \* the unit of hashstart, UpdateVerityTable's docstring
HEADER_SIZE == 16    \* struct.pack('<IIII', ...), line 126
SIGNATURE_SIZE == 256

Seg(kind, len, val) == [kind |-> kind, len |-> len, val |-> val]

Size(file) == FoldLeft(LAMBDA n, s : n + s.len, 0, file)

(* Byte position at which the first segment of a kind starts.             *)
OffsetOf(file, kind) ==
  LET i == SelectInSeq(file, LAMBDA s : s.kind = kind)
  IN  Size(SubSeq(file, 1, i - 1))

ValOf(file, kind) == file[SelectInSeq(file, LAMBDA s : s.kind = kind)].val

(* CeilingBlock, lines 97-99: Python 2 integer division.                  *)
CeilingBlock(size) == (size + BLOCK_SIZE - 1) \div BLOCK_SIZE

(* Faulty variant: a whole block of padding when the kernel is aligned.  *)
PaddingWholeBlockWhenAligned(kernelSize) == BLOCK_SIZE - (kernelSize % BLOCK_SIZE)

(* Line 190: zeros from the end of the kernel to the next block boundary. *)
Padding(kernelSize) == CeilingBlock(kernelSize) * BLOCK_SIZE - kernelSize

(* Lines 191-195: sectors to the hash data, one block of header and info  *)
(* and the kernel's blocks.                                                *)
HashStart(kernelSize) == (1 + CeilingBlock(kernelSize)) * 8

(* UpdateVerityTable, lines 102-113: hashstart=N is rewritten to the      *)
(* offset (a table without hashstart= is returned unchanged).             *)
UpdateVerityTable(table, hashOffset) ==
  IF table = NoHashStart THEN table ELSE hashOffset

(* Line 201: '%-4080.4080s' pads or truncates the info text to 4080.      *)
InfoLen == 4080

(* FakeSign, lines 122 and 126: the size os.stat gave before the header   *)
(* was written, i.e. the length of the file after the header.             *)
FakeHeaderSize(fileSize) == fileSize

-----------------------------------------------------------------------------
VARIABLES
  phase,      \* "start", "generated", "packed", "signed", "failed"
  sign,       \* opt.sign
  bolt,       \* opt.bolt_sign
  table,      \* hashstart of the table GenerateVerityTable returned
              \* (NoHashStart before)
  hashSize,   \* len(verity_data)
  file        \* the kernel file, bindir/kernel

vars == << phase, sign, bolt, table, hashSize, file >>

(* main, lines 210-215: the options, the kernel and hash.bin as the build *)
(* left them.                                                              *)
Init ==
  /\ phase = "start"
  /\ sign \in BOOLEAN
  /\ bolt \in BOOLEAN
  /\ table = NoHashStart
  /\ hashSize \in HashSizes
  /\ file \in { << Seg("kernel", k, 0) >> : k \in KernelSizes }

(* GenerateVerityTable and CheckOutput, lines 78-94 and 216: the tool's   *)
(* table, or an exception when it exits non-zero.                          *)
GenerateVerityTable ==
  /\ phase = "start"
  /\ \/ \E h \in TableHashStarts : table' = h /\ phase' = "generated"
     \/ phase' = "failed" /\ UNCHANGED table
  /\ UNCHANGED << sign, bolt, hashSize, file >>

(* PackVerity, lines 184-207: the whole file is read as the kernel and     *)
(* rewritten from byte 0 as info block, kernel, padding, hash tree.        *)
PackVerity ==
  /\ phase = "generated"
  /\ LET kernelSize == Size(file)
         pad        == Padding(kernelSize)
     IN  file' = << Seg("info", InfoLen,
                        UpdateVerityTable(table, HashStart(kernelSize))) >>
                 \o file
                 \o (IF pad > 0 THEN << Seg("pad", pad, 0) >> ELSE << >>)
                 \o << Seg("hash", hashSize, 0) >>
  /\ phase' = "packed"
  /\ UNCHANGED << sign, bolt, table, hashSize >>

(* Line 188: hash.bin cannot be opened; nothing has been written yet.     *)
PackVerityFailed ==
  /\ phase = "generated"
  /\ phase' = "failed"
  /\ UNCHANGED << sign, bolt, table, hashSize, file >>

(* FakeSign, lines 116-127 (main line 232, without -s).                   *)
FakeSign ==
  /\ phase = "packed" /\ ~sign
  /\ file' = << Seg("header", HEADER_SIZE, FakeHeaderSize(Size(file))) >> \o file
  /\ phase' = "signed"
  /\ UNCHANGED << sign, bolt, table, hashSize >>

(* RealSign, lines 130-143 (main lines 225-230): the tool signs a copy    *)
(* and writes the kernel file; its header fields are not modelled.        *)
RealSign ==
  /\ phase = "packed" /\ sign /\ ~bolt
  /\ \/ /\ file' = << Seg("header", HEADER_SIZE, 0) >> \o file
                     \o << Seg("sig", SIGNATURE_SIZE, 0) >>
        /\ phase' = "signed"
     \/ phase' = "failed" /\ UNCHANGED file
  /\ UNCHANGED << sign, bolt, table, hashSize >>

(* RealSignBolt, lines 146-173 (main lines 222-224): imagetool's output   *)
(* is copied over the file only when the tool succeeded.                   *)
RealSignBolt ==
  /\ phase = "packed" /\ sign /\ bolt
  /\ \/ /\ file' = << Seg("bolt", Size(file), 0) >>
        /\ phase' = "signed"
     \/ phase' = "failed" /\ UNCHANGED file
  /\ UNCHANGED << sign, bolt, table, hashSize >>

Next ==
  \/ GenerateVerityTable \/ PackVerity \/ PackVerityFailed
  \/ FakeSign \/ RealSign \/ RealSignBolt

Spec == Init /\ [][Next]_vars

-----------------------------------------------------------------------------
SignedWithHeader == phase = "signed" /\ file[1].kind = "header"

(* The hashstart PackVerity writes into the verity table is where the     *)
(* hash tree begins in the signed image, counted in 512-byte sectors from *)
(* byte 0: the kernel reads the hash tree from there.                     *)
HashStartLocatesHashData ==
  SignedWithHeader =>
    ValOf(file, "info") * SECTOR_SIZE = OffsetOf(file, "hash")

=============================================================================
