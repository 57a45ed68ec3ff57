------------------------------ MODULE JpegScanIO ------------------------------
(***************************************************************************)
(* The entropy-coded segment of a baseline scan, read and written again.   *)
(*                                                                         *)
(*   BitReader   src/unnamed/part_004   (FF 00 unstuffing, pad bits, RST)  *)
(*   BitWriter   src/lepton/branch.go   (register, FF stuffing, Pad)       *)
(*   readBaselineScan            src/lepton/jpeg_read.go  (reader's loop)  *)
(*   writeScanData[NonInterleaved] src/unnamed/part_001   (writer's loop)  *)
(*   writeScanDataPartitioned[NonInterleaved], encodeScan{Mcu,Dpos}Range,  *)
(*   trailing RST markers       src/unnamed/part_001  (partitioned path)   *)
(*                                                                         *)
(* The original scan is the stream a standard JPEG encoder writes: the     *)
(* units' Huffman bits, each restart interval padded to a byte with the    *)
(* encoder's pad bits, FF-stuffed, and followed by FF RSTn except the last *)
(* one; the file goes on with EOI (FF D9).  The reader parses it, the      *)
(* writer regenerates it from what the reader recovered, and the two must  *)
(* agree byte for byte.                                                    *)
(*                                                                         *)
(* Abstraction: a unit is an MCU of an interleaved scan or a block of a    *)
(* single-component scan (the units the restart interval counts); its      *)
(* Huffman-coded bits are one value of a few bits.  The reader reads a     *)
(* unit in reads of any sizes (nextHuffCode reads codes a bit at a time,   *)
(* the VLI bits in one read).  The writer's register has width W (64 in    *)
(* the code); its value and the reader's are kept as numbers, the reader's *)
(* modulo 2^RegBits since only its low bitsLeft + 8 bits are ever used.    *)
(* The reader records a JpegPartition at the start of every MCU row.  A   *)
(* Lepton file that several threads wrote (C++ Lepton) carries a handoff   *)
(* per thread, cut at some of these rows, and the writer then regenerates  *)
(* the scan segment by segment (the partitioned path); its output must be  *)
(* the original scan followed by the original's extra RST markers.  Early  *)
(* EOF, the DC values of a handoff and the Huffman coding are not          *)
(* modelled here.                                                          *)
(***************************************************************************)
EXTENDS Naturals, Sequences, SequencesExt

CONSTANTS
  W,                 \* BitWriter register width (64 in the code)
  RegBits,           \* low bits of BitReader.bits that are kept
  NumUnits,          \* MCUs (interleaved) or blocks (single component)
  RestartIntervals,  \* values jpegHeader.RestartInterval can take, 0 = none
  UnitBits,          \* bit lengths a unit's Huffman data can have
  Interleaved,       \* more than one component in the scan
  FinalPadMayDiffer, \* the original's last pad may differ from its RST pads
  RowUnits,          \* units per MCU row (jpegHeader.Mcuh)
  MaxRstErr          \* bound on RestartErrors[0], the original's extra RSTs

ASSUME /\ W % 8 = 0 /\ RegBits >= 16
       /\ \A n \in UnitBits : n \in 1..(W - 1)
       /\ RestartIntervals \subseteq 0..NumUnits /\ NumUnits >= 1
       /\ RowUnits >= 1 /\ NumUnits % RowUnits = 0 /\ MaxRstErr \in Nat

VARIABLES
  units,      \* the original units: <<[n, val], ...>>
  ri,         \* the scan's restart interval
  origPad,    \* pad pattern of the original encoder at RSTs (0 or 0xFF)
  finalPad,   \* pad pattern of the original encoder at scan end
  original,   \* OriginalScan(units, origPad, finalPad), fixed in Init
  rd,         \* BitReader: [bits, bitsLeft, pos, eof, truncatedFF, cpos]
  scan,       \* readBaselineScan: [unit, rstw, left, acc, padBit, padSet]
  decoded,    \* values the reader recovered, one per unit
  wr,         \* BitWriter: [fill, currentBit, buf]
  out,        \* bytes the JpegWriter wrote to its output
  wscan,      \* writer loop: [unit, mcuCount, restartMarkerIdx]
  phase,      \* "read", "write", "done", "rejected", "pwrite", "ptrail", "pdone"
  parts,      \* JpegPartitions the reader recorded: [row, start, ovByte, ovBits]
  hdr,        \* Lepton header of the partitioned file: [handoffs, crs, rstErr]
  pw,         \* partitioned writer: [h, unit, endUnit, mcuCount, restartMarkerIdx, slack]
  pout        \* bytes the partitioned path wrote

pvars == <<parts, hdr, pw, pout>>
vars == <<units, ri, origPad, finalPad, original, rd, scan, decoded, wr, out, wscan, phase, pvars>>

MarkerRST0 == 208
MarkerEOI  == 217

\* MSB-first bits of val as an n-bit number.
Bits(val, n) == [j \in 1..n |-> (val \div 2^(n - j)) % 2]

\* A byte value from eight bits, MSB first.
ByteOf(b) == FoldLeft(LAMBDA acc, x : 2 * acc + x, 0, b)

\* JPEG byte stuffing: every 0xFF is followed by 0x00.
Stuff(bytes) == FoldLeft(LAMBDA acc, b : acc \o (IF b = 255 THEN <<255, 0>> ELSE <<b>>),
                         << >>, bytes)

-----------------------------------------------------------------------------
(* Reference: the scan as a standard encoder writes it.                    *)

NumIntervals == IF ri = 0 THEN 1 ELSE (NumUnits + ri - 1) \div ri

IntervalOf(i) == IF ri = 0 THEN 0 ELSE (i - 1) \div ri

IntervalBits(u, k) ==
  FlattenSeq([i \in 1..Len(u) |->
                IF IntervalOf(i) = k THEN Bits(u[i].val, u[i].n) ELSE << >>])

PadTo8(b, p) == b \o [j \in 1..((8 - (Len(b) % 8)) % 8) |-> p % 2]

ToBytes(b) == [j \in 1..(Len(b) \div 8) |-> ByteOf(SubSeq(b, 8 * j - 7, 8 * j))]

OriginalScan(u, p, fp) ==
  FlattenSeq([k \in 1..NumIntervals |->
     Stuff(ToBytes(PadTo8(IntervalBits(u, k - 1), IF k = NumIntervals THEN fp ELSE p)))
     \o (IF k < NumIntervals THEN <<255, MarkerRST0 + ((k - 1) % 8)>> ELSE << >>)])

\* The bytes the BitReader sees: the scan, then EOI.
Stream == original \o <<255, MarkerEOI>>
-----------------------------------------------------------------------------
(* BitWriter, src/lepton/branch.go.  fill is fillRegister, its bits below  *)
(* currentBit are zero, so "|" is "+".  Write's tests currentBit - numBits *)
(* < 64 and leftoverNewBits < 64 always hold for numBits <= 16 < W.        *)

NewBitWriter == [fill |-> 0, currentBit |-> W, buf |-> << >>]

\* Mutant: writeFFEncoded without the 0x00 after an 0xFF byte.
FFEncodedNoEscape(fill) == [i \in 1..(W \div 8) |-> (fill \div 2^(W - 8 * i)) % 256]

\* writeFFEncoded: the W / 8 bytes of a full register, each 0xFF followed
\* by 0x00.
FFEncoded(fill) ==
  FoldLeft(LAMBDA acc, b : acc \o (IF b = 255 THEN <<255, 0>> ELSE <<b>>), << >>,
           [i \in 1..(W \div 8) |-> (fill \div 2^(W - 8 * i)) % 256])

\* Write(val, numBits), numBits > 0: into the register if it fits, else the
\* register is completed with the top bits of val, flushed, and reloaded
\* with the leftover bits.
BWWrite(w, val, n) ==
  IF n <= w.currentBit
  THEN [w EXCEPT !.fill = @ + val * 2^(w.currentBit - n), !.currentBit = @ - n]
  ELSE LET left == n - w.currentBit
       IN [w EXCEPT !.buf = @ \o FFEncoded(w.fill + val \div 2^left),
                    !.fill = (val % 2^left) * 2^(W - left),
                    !.currentBit = W - left]

\* flushWholeBytes: whole bytes leave the top of the register, stuffed.
RECURSIVE FlushWholeBytes(_)
FlushWholeBytes(w) ==
  IF w.currentBit > W - 8 THEN w
  ELSE LET b == w.fill \div 2^(W - 8)
       IN FlushWholeBytes([buf |-> w.buf \o (IF b = 255 THEN <<255, 0>> ELSE <<b>>),
                           fill |-> (w.fill % 2^(W - 8)) * 256,
                           currentBit |-> w.currentBit + 8])

\* The bit loop of Pad: bit j (from the least significant) of fillBit is
\* written while the register is not at a byte boundary.
RECURSIVE PadBits(_, _, _)
PadBits(w, fillBit, j) ==
  IF w.currentBit % 8 = 0 THEN w
  ELSE PadBits(BWWrite(w, (fillBit \div 2^j) % 2, 1), fillBit, j + 1)

Pad(w, fillBit) == FlushWholeBytes(PadBits(w, fillBit, 0))

\* DetachBuffer: the flushed bytes, and the writer reset.
DetachBuffer(w) == [data |-> FlushWholeBytes(w).buf, w |-> NewBitWriter]
-----------------------------------------------------------------------------
(* BitReader, src/unnamed/part_004, reading the byte sequence st.  pos is  *)
(* the index of the next byte readByte returns; err records the error a    *)
(* call returned.  bits is kept modulo 2^RegBits.                          *)

NewBitReader == [bits |-> 0, bitsLeft |-> 0, pos |-> 1, eof |-> FALSE,
                 truncatedFF |-> FALSE, cpos |-> 0, err |-> FALSE]

\* r.bits = (r.bits << 8) | b; r.bitsLeft += 8
ShiftIn(r, b) == [r EXCEPT !.bits = ((@ % 2^(RegBits - 8)) * 256) + b,
                           !.bitsLeft = @ + 8]

\* Mutant: the fill loop one bit short, so a read can find fewer bits than
\* it takes.
RECURSIVE FillRegisterShort(_, _, _)
FillRegisterShort(r, k, st) ==
  IF r.err \/ r.bitsLeft + 1 >= k THEN r
  ELSE IF r.pos > Len(st) THEN FillRegisterShort([ShiftIn(r, 0) EXCEPT !.eof = TRUE], k, st)
  ELSE IF st[r.pos] # 255 THEN FillRegisterShort([ShiftIn(r, st[r.pos]) EXCEPT !.pos = @ + 1], k, st)
  ELSE IF r.pos + 1 > Len(st)
       THEN FillRegisterShort([ShiftIn(r, 255) EXCEPT !.pos = @ + 1, !.truncatedFF = TRUE], k, st)
  ELSE IF st[r.pos + 1] = 0 THEN FillRegisterShort([ShiftIn(r, 255) EXCEPT !.pos = @ + 2], k, st)
  ELSE [r EXCEPT !.pos = @ + 2, !.err = TRUE]

\* Mutant: the fill loop runs while bitsLeft <= bitsToRead, a byte ahead.
RECURSIVE FillRegisterEager(_, _, _)
FillRegisterEager(r, k, st) ==
  IF r.err \/ r.bitsLeft > k THEN r
  ELSE IF r.pos > Len(st) THEN FillRegisterEager([ShiftIn(r, 0) EXCEPT !.eof = TRUE], k, st)
  ELSE IF st[r.pos] # 255 THEN FillRegisterEager([ShiftIn(r, st[r.pos]) EXCEPT !.pos = @ + 1], k, st)
  ELSE IF r.pos + 1 > Len(st)
       THEN FillRegisterEager([ShiftIn(r, 255) EXCEPT !.pos = @ + 1, !.truncatedFF = TRUE], k, st)
  ELSE IF st[r.pos + 1] = 0 THEN FillRegisterEager([ShiftIn(r, 255) EXCEPT !.pos = @ + 2], k, st)
  ELSE [r EXCEPT !.pos = @ + 2, !.err = TRUE]

\* fillRegister: bytes are loaded while fewer than k bits are left.  EOF
\* loads zeros; FF 00 loads FF; FF at EOF loads FF (truncatedFF); FF then
\* anything else is an invalid reset code.
RECURSIVE FillRegister(_, _, _)
FillRegister(r, k, st) ==
  IF r.err \/ r.bitsLeft >= k THEN r
  ELSE IF r.pos > Len(st) THEN FillRegister([ShiftIn(r, 0) EXCEPT !.eof = TRUE], k, st)
  ELSE IF st[r.pos] # 255 THEN FillRegister([ShiftIn(r, st[r.pos]) EXCEPT !.pos = @ + 1], k, st)
  ELSE IF r.pos + 1 > Len(st)
       THEN FillRegister([ShiftIn(r, 255) EXCEPT !.pos = @ + 1, !.truncatedFF = TRUE], k, st)
  ELSE IF st[r.pos + 1] = 0 THEN FillRegister([ShiftIn(r, 255) EXCEPT !.pos = @ + 2], k, st)
  ELSE [r EXCEPT !.pos = @ + 2, !.err = TRUE]

\* Read(k), k > 0: the reader after the call and the value returned.  Were
\* fewer than k bits left, the uint32 bitsLeft would wrap (shown here as a
\* negative number) and the shift by it would give 0.
Read(r, k, st) ==
  LET f == FillRegister(r, k, st)
  IN [r |-> [f EXCEPT !.bitsLeft = @ - k],
      val |-> IF f.bitsLeft >= k THEN (f.bits \div 2^(f.bitsLeft - k)) % 2^k ELSE 0]

\* ReadAndVerifyFillBits: the rest of the current byte must be all zeros or
\* all ones the first time (which sets the pad bit), and equal to the pad
\* bit's low bits afterwards.
ReadAndVerifyFillBits(r, padBit, padBitSet) ==
  IF r.bitsLeft > 0 /\ ~r.eof
  THEN LET n      == r.bitsLeft
           actual == r.bits % 2^n
           r1     == [r EXCEPT !.bitsLeft = 0]
       IN IF ~padBitSet
          THEN IF actual = 0 THEN [r |-> r1, padBit |-> 0, padBitSet |-> TRUE, ok |-> TRUE]
               ELSE IF actual = 2^n - 1
                    THEN [r |-> r1, padBit |-> 255, padBitSet |-> TRUE, ok |-> TRUE]
               ELSE [r |-> r1, padBit |-> padBit, padBitSet |-> FALSE, ok |-> FALSE]
          ELSE [r |-> r1, padBit |-> padBit, padBitSet |-> TRUE,
                ok |-> actual = padBit % 2^n]
  ELSE [r |-> r, padBit |-> padBit, padBitSet |-> padBitSet, ok |-> TRUE]

\* VerifyResetCode: two raw bytes must be FF, RST0 + (cpos & 7); the
\* register is then emptied.
VerifyResetCode(r, st) ==
  LET ok == /\ r.pos + 1 <= Len(st)
            /\ st[r.pos] = 255
            /\ st[r.pos + 1] = MarkerRST0 + (r.cpos % 8)
  IN IF ~ok THEN [r EXCEPT !.err = TRUE]
     ELSE [r EXCEPT !.pos = @ + 2, !.cpos = @ + 1, !.bits = 0, !.bitsLeft = 0]

\* Overhang: the bits already read from the current byte, and that byte
\* with its unread bits cleared.
OvBits(r) == (64 - r.bitsLeft) % 8
OvByte(r) == LET k == OvBits(r) IN ((r.bits % 256) \div 2^(8 - k)) * 2^(8 - k)

\* Where a thread's segment of the original scan begins: the byte holding
\* the next unread bit (the FF of an FF 00 pair), or the next byte when the
\* reader is at a byte boundary.  This is the boundary the multi-threaded
\* encoder records; the reader's own StreamPosition is not used by the code.
SegmentStart(r, st) ==
  IF r.bitsLeft = 0 THEN r.pos
  ELSE IF r.pos >= 3 /\ st[r.pos - 1] = 0 /\ st[r.pos - 2] = 255 THEN r.pos - 2
  ELSE r.pos - 1

\* The JpegPartition readBaselineScan records before the first unit of an
\* MCU row.
Partition(r, u) == [row |-> u \div RowUnits, start |-> SegmentStart(r, Stream),
                    ovByte |-> OvByte(r), ovBits |-> OvBits(r)]

\* doHandoff: a partition is recorded when the unit the reader moves to
\* starts a row.
RecordPartition(r, u) == IF u % RowUnits = 0 THEN Append(parts, Partition(r, u)) ELSE parts
-----------------------------------------------------------------------------
(* The two loops.  A unit's Huffman data is abstracted to its n bits; the  *)
(* writer re-derives the same n from the decoded block (the Huffman tables *)
(* are the original's), so writeBlock is Write(decoded value, n).          *)

UnitChoices == UNION {{[n |-> n, val |-> v] : v \in {0, 1, 2^n - 1}} : n \in UnitBits}

\* The pad bit the writer uses: the P0D byte of the Lepton header, which
\* writeLeptonHeader fills with result.PadBit, or 0 when it was never set.
WriterPadBit == IF scan.padSet THEN scan.padBit ELSE 0

Init ==
  /\ ri \in RestartIntervals
  /\ units \in [1..NumUnits -> UnitChoices]
  /\ origPad \in {0, 255}
  /\ finalPad \in IF FinalPadMayDiffer THEN {0, 255} ELSE {origPad}
  /\ original = OriginalScan(units, origPad, finalPad)
  /\ rd = NewBitReader
  /\ scan = [unit |-> 0, rstw |-> ri, left |-> units[1].n, acc |-> 0,
             padBit |-> 0, padSet |-> FALSE]
  /\ decoded = << >>
  /\ wr = NewBitWriter
  /\ out = << >>
  /\ wscan = [unit |-> 0, mcuCount |-> 0, restartMarkerIdx |-> 0]
  /\ phase = "read"
  /\ parts = <<Partition(NewBitReader, 0)>>
  /\ hdr = [handoffs |-> << >>, crs |-> -1, rstErr |-> 0]
  /\ pw = [h |-> 0, unit |-> 0, endUnit |-> 0, mcuCount |-> 0, restartMarkerIdx |-> 0, slack |-> 0]
  /\ pout = << >>

\* One BitReader.Read(k) of the current unit's bits.
ReadBits(k) ==
  /\ phase = "read"
  /\ k \in 1..scan.left
  /\ LET res == Read(rd, k, Stream)
     IN /\ rd' = res.r
        /\ scan' = [scan EXCEPT !.left = @ - k, !.acc = @ * 2^k + res.val]
        /\ phase' = IF res.r.err THEN "rejected" ELSE "read"
  /\ UNCHANGED <<units, ri, origPad, finalPad, original, decoded, wr, out, wscan, pvars>>

\* The end of readBaselineScan's loop body after a unit: NextMcuPos
\* (ScanCompleted at the last unit, else rstw counts down to
\* RestartIntervalExpired).  The early-EOF return is never taken: the
\* scan is complete and followed by EOI.
Completed  == scan.unit + 1 >= NumUnits
Expired    == ~Completed /\ ri > 0 /\ scan.rstw = 1

\* DecodeInProgress: on to the next unit.
DecodeInProgress ==
  /\ phase = "read" /\ scan.left = 0 /\ ~rd.eof
  /\ ~Completed /\ ~Expired
  /\ decoded' = Append(decoded, scan.acc)
  /\ scan' = [scan EXCEPT !.unit = @ + 1, !.rstw = IF ri > 0 THEN @ - 1 ELSE @,
                          !.left = units[scan.unit + 2].n, !.acc = 0]
  /\ parts' = RecordPartition(rd, scan.unit + 1)
  /\ UNCHANGED <<units, ri, origPad, finalPad, original, rd, wr, out, wscan, phase, hdr, pw, pout>>

\* RestartIntervalExpired: fill bits checked against (or setting) the pad
\* bit, the RST marker verified, the outer loop's ResetRstw.
RestartIntervalExpired ==
  /\ phase = "read" /\ scan.left = 0 /\ ~rd.eof
  /\ Expired
  /\ LET fb == ReadAndVerifyFillBits(rd, scan.padBit, scan.padSet)
         r2 == VerifyResetCode(fb.r, Stream)
     IN /\ decoded' = Append(decoded, scan.acc)
        /\ rd' = IF fb.ok THEN r2 ELSE fb.r
        /\ scan' = [unit |-> scan.unit + 1, rstw |-> ri, left |-> units[scan.unit + 2].n,
                    acc |-> 0, padBit |-> fb.padBit, padSet |-> fb.padBitSet]
        /\ phase' = IF fb.ok /\ ~r2.err THEN "read" ELSE "rejected"
        /\ parts' = RecordPartition(rd', scan.unit + 1)
  /\ UNCHANGED <<units, ri, origPad, finalPad, original, wr, out, wscan, hdr, pw, pout>>

\* ScanCompleted: the final fill bits are read only if no pad bit is known
\* yet.  Reading is over; the JPEG is then written back.
ScanCompleted ==
  /\ phase = "read" /\ scan.left = 0 /\ ~rd.eof
  /\ Completed
  /\ LET fb == ReadAndVerifyFillBits(rd, 0, FALSE)
     IN /\ decoded' = Append(decoded, scan.acc)
        /\ IF scan.padSet
           THEN UNCHANGED <<rd, scan>> /\ phase' = "write"
           ELSE /\ rd' = fb.r
                /\ scan' = [scan EXCEPT !.padBit = fb.padBit, !.padSet = fb.padBitSet]
                /\ phase' = IF fb.ok THEN "write" ELSE "rejected"
  /\ UNCHANGED <<units, ri, origPad, finalPad, original, wr, out, wscan, pvars>>
\* writeScanData (interleaved) writes an RST after an interval only if it
\* was not the last MCU; writeScanDataNonInterleaved writes it whenever the
\* output limit was not reached, and no limit applies here (maxScanBytes is
\* -1 without early EOF and without a recorded SegmentSize).
WritesRst(u) == IF Interleaved THEN u < NumUnits ELSE TRUE

\* One iteration of the writer loop that does not end an interval.
WriteUnit ==
  /\ phase = "write" /\ wscan.unit < NumUnits
  /\ ~(ri > 0 /\ wscan.mcuCount + 1 >= ri)
  /\ wr' = BWWrite(wr, decoded[wscan.unit + 1], units[wscan.unit + 1].n)
  /\ wscan' = [wscan EXCEPT !.unit = @ + 1, !.mcuCount = @ + 1]
  /\ UNCHANGED <<units, ri, origPad, finalPad, original, rd, scan, decoded, out, phase, pvars>>

\* One iteration that ends an interval: Pad, DetachBuffer to the output,
\* the RST marker, mcuCount reset.
WriteUnitAndRestart ==
  /\ phase = "write" /\ wscan.unit < NumUnits
  /\ ri > 0 /\ wscan.mcuCount + 1 >= ri
  /\ LET u   == wscan.unit + 1
         d   == DetachBuffer(Pad(BWWrite(wr, decoded[u], units[u].n), WriterPadBit))
         rst == IF WritesRst(u) THEN <<255, MarkerRST0 + (wscan.restartMarkerIdx % 8)>>
                ELSE << >>
     IN /\ wr' = d.w
        /\ out' = out \o d.data \o rst
        /\ wscan' = [unit |-> u, mcuCount |-> 0,
                     restartMarkerIdx |-> wscan.restartMarkerIdx + Len(rst) \div 2]
  /\ UNCHANGED <<units, ri, origPad, finalPad, original, rd, scan, decoded, phase, pvars>>

\* After the loop: Pad and DetachBuffer.
WriteEnd ==
  /\ phase = "write" /\ wscan.unit = NumUnits
  /\ out' = out \o DetachBuffer(Pad(wr, WriterPadBit)).data
  /\ wr' = NewBitWriter
  /\ phase' = "done"
  /\ UNCHANGED <<units, ri, origPad, finalPad, original, rd, scan, decoded, wscan, pvars>>

-----------------------------------------------------------------------------
(* The partitioned path, src/unnamed/part_001.  writeBaselineJpeg takes it *)
(* when the header has more than one handoff and no early EOF.  The        *)
(* header is C++ Lepton's: a handoff per thread, cut at MCU rows the reader *)
(* recorded, whose SegmentSize is the length of its part of the original;  *)
(* the last one also holds the RestartErrors[0] extra RST markers that     *)
(* follow the scan.  RestartCounts[0] (crs, -1 when absent) is the number  *)
(* of RSTs the encoder counted, with or without some of the extra ones.    *)

NumRows == NumUnits \div RowUnits

\* The RSTs of the original scan; the extra ones go on with its numbering.
ScanRsts == NumIntervals - 1
ExtraRsts(e) == FlattenSeq([i \in 1..e |-> <<255, MarkerRST0 + ((ScanRsts + i - 1) % 8)>>])
Expected(e) == original \o ExtraRsts(e)

\* The handoffs of a file split at the recorded rows rs (row 0 among them):
\* parseThreadHandoffs sets LumaYEnd to the next LumaYStart, and
\* ReadLeptonHeader the last one's to the luma block height.
Handoffs(rs, e) ==
  LET ps  == SelectSeq(parts, LAMBDA p : p.row \in rs)
      n   == Len(ps)
      end(j) == IF j < n THEN ps[j + 1].start ELSE Len(Expected(e)) + 1
  IN [j \in 1..n |-> [lumaYStart |-> ps[j].row,
                      lumaYEnd |-> IF j < n THEN ps[j + 1].row ELSE NumRows,
                      segmentSize |-> end(j) - ps[j].start,
                      ovByte |-> ps[j].ovByte, ovBits |-> ps[j].ovBits]]

\* Mutant: the writer reset as new, the overhang bits dropped.
ResetFromOverhangDropped(ovByte, ovBits) == NewBitWriter

\* ResetFromOverhang: the register primed with the overhang bits.
ResetFromOverhang(ovByte, ovBits) == [fill |-> ovByte * 2^(W - 8), currentBit |-> W - ovBits, buf |-> << >>]

\* encodeScanMcuRange's restart position of the range's first MCU.
McuRangeStart(start) ==
  [mcuCount |-> IF ri > 0 THEN start % ri ELSE 0,
   restartMarkerIdx |-> IF ri > 0 THEN start \div ri ELSE 0]

\* The start of one handoff's iteration: the writer reset from the
\* overhang, and the MCU range of its rows.
BeginSegment(j, hs) ==
  LET start == hs[j].lumaYStart * RowUnits
      rs    == McuRangeStart(start)
  IN /\ wr' = ResetFromOverhang(hs[j].ovByte, hs[j].ovBits)
     /\ pw' = [h |-> j, unit |-> start, endUnit |-> Min({hs[j].lumaYEnd, NumRows}) * RowUnits,
               mcuCount |-> rs.mcuCount, restartMarkerIdx |-> rs.restartMarkerIdx,
               slack |-> pw.slack]

\* The header of a multi-threaded file is read and the partitioned path
\* starts with the first handoff.
StartPartitioned ==
  /\ phase = "done" /\ NumRows > 1
  /\ \E rs \in {S \cup {0} : S \in SUBSET (1..(NumRows - 1)) \ {{}}},
        e \in 0..MaxRstErr :
       \E crs \in {-1} \cup (ScanRsts..(ScanRsts + e)) :
         /\ hdr' = [handoffs |-> Handoffs(rs, e), crs |-> crs, rstErr |-> e]
         /\ BeginSegment(1, hdr'.handoffs)
  /\ phase' = "pwrite"
  /\ UNCHANGED <<units, ri, origPad, finalPad, original, rd, scan, decoded, out, wscan, parts, pout>>

\* shouldWriteRst: without recorded RestartCounts, or while the marker's
\* index is below RestartCounts[0].
ShouldWriteRst(idx) == hdr.crs = -1 \/ idx < hdr.crs

\* One MCU of encodeScanMcuRange that does not end an interval.
PWriteUnit ==
  /\ phase = "pwrite" /\ pw.unit < pw.endUnit
  /\ ~(ri > 0 /\ pw.mcuCount + 1 >= ri)
  /\ wr' = BWWrite(wr, decoded[pw.unit + 1], units[pw.unit + 1].n)
  /\ pw' = [pw EXCEPT !.unit = @ + 1, !.mcuCount = @ + 1]
  /\ UNCHANGED <<units, ri, origPad, finalPad, original, rd, scan, decoded, out, wscan, phase, parts, hdr, pout>>

\* One MCU that ends an interval: Pad, the RST marker if shouldWriteRst,
\* restartMarkerIdx counted either way, mcuCount reset.
PWriteUnitAndRestart ==
  /\ phase = "pwrite" /\ pw.unit < pw.endUnit
  /\ ri > 0 /\ pw.mcuCount + 1 >= ri
  /\ LET u == pw.unit + 1
         p == Pad(BWWrite(wr, decoded[u], units[u].n), WriterPadBit)
     IN wr' = [p EXCEPT !.buf = @ \o (IF ShouldWriteRst(pw.restartMarkerIdx)
                                      THEN <<255, MarkerRST0 + (pw.restartMarkerIdx % 8)>>
                                      ELSE << >>)]
  /\ pw' = [pw EXCEPT !.unit = @ + 1, !.mcuCount = 0, !.restartMarkerIdx = @ + 1]
  /\ UNCHANGED <<units, ri, origPad, finalPad, original, rd, scan, decoded, out, wscan, phase, parts, hdr, pout>>

\* The end of a handoff's iteration: the last one is padded, the buffer
\* detached, its slack noted and it is cut to SegmentSize; then the next
\* handoff, or the trailing markers.
EndSegment ==
  /\ phase = "pwrite" /\ pw.unit = pw.endUnit
  /\ LET hs   == hdr.handoffs
         last == pw.h = Len(hs)
         buf  == DetachBuffer(IF last THEN Pad(wr, WriterPadBit) ELSE wr).data
         size == hs[pw.h].segmentSize
     IN /\ pout' = pout \o SubSeq(buf, 1, Min({size, Len(buf)}))
        /\ IF last
           THEN /\ wr' = NewBitWriter
                /\ pw' = [pw EXCEPT !.slack = size - Len(buf)]
                /\ phase' = "ptrail"
           ELSE /\ BeginSegment(pw.h + 1, hs)
                /\ UNCHANGED phase
  /\ UNCHANGED <<units, ri, origPad, finalPad, original, rd, scan, decoded, out, wscan, parts, hdr>>

\* The RestartErrors[0] trailing RSTs of writeBaselineJpeg, numbered from
\* (mcuc - 1) / RestartInterval.
RstErrMarkers(e) ==
  LET cumulative == IF ri # 0 THEN (NumUnits - 1) \div ri ELSE 0
  IN FlattenSeq([i \in 1..e |-> <<255, MarkerRST0 + ((cumulative + i - 1) % 8)>>])

\* On the partitioned path they are written only when the last segment
\* left slack.
WriteTrailingRst ==
  /\ phase = "ptrail"
  /\ pout' = pout \o (IF hdr.rstErr > 0 /\ pw.slack # 0 THEN RstErrMarkers(hdr.rstErr) ELSE << >>)
  /\ phase' = "pdone"
  /\ UNCHANGED <<units, ri, origPad, finalPad, original, rd, scan, decoded, wr, out, wscan, parts, hdr, pw>>

Next ==
  \/ \E k \in 1..Max(UnitBits) : ReadBits(k)
  \/ DecodeInProgress
  \/ RestartIntervalExpired
  \/ ScanCompleted
  \/ WriteUnit
  \/ WriteUnitAndRestart
  \/ WriteEnd
  \/ StartPartitioned
  \/ PWriteUnit
  \/ PWriteUnitAndRestart
  \/ EndSegment
  \/ WriteTrailingRst

Spec == Init /\ [][Next]_vars

-----------------------------------------------------------------------------
TypeOK ==
  /\ rd.bitsLeft \in 0..RegBits /\ rd.bits \in 0..(2^RegBits - 1)
  /\ wr.fill \in 0..(2^W - 1) /\ wr.currentBit \in 0..W
  /\ scan.left \in Nat /\ Len(decoded) <= NumUnits
  /\ phase \in {"read", "write", "done", "rejected", "pwrite", "ptrail", "pdone"}

\* A standard scan is accepted, every unit is read back as written, and
\* the writer's output never departs from the original bytes and ends
\* equal to them: the pad bit learnt by ReadAndVerifyFillBits, the RST
\* numbering of VerifyResetCode and of the writer loop, and the FF
\* stuffing of both sides agree, whatever the read sizes.
RoundTrip ==
  /\ phase # "rejected"
  /\ \A i \in 1..Len(decoded) : decoded[i] = units[i].val
  /\ IsPrefix(out, original)
  /\ phase = "done" => out = original

\* Between reads the BitReader never holds a whole unread byte: fillRegister
\* stops as soon as it has enough bits, so Peek in nextHuffCode never
\* reports 8 bits and Overhang's low byte is the byte being consumed.
PeekNeverFull == phase = "read" => rd.bitsLeft <= 7

\* A file that several threads wrote is regenerated exactly: the segments,
\* each begun from its handoff's overhang with the restart position of its
\* first MCU and cut to its SegmentSize, join into the original scan, and
\* the extra RSTs after it are written once, in-band or from
\* RestartErrors, with the original's numbers.
PartitionedRoundTrip ==
  /\ phase \in {"pwrite", "ptrail", "pdone"} => IsPrefix(pout, Expected(hdr.rstErr))
  /\ phase = "pdone" => pout = Expected(hdr.rstErr)
=============================================================================
