----------------------------- MODULE VPXBoolCoder -----------------------------
(***************************************************************************)
(* The VP8 binary arithmetic coder of src/lepton/vpx_bool_reader.go: the   *)
(* VPXBoolWriter that encodes a sequence of coding operations into bytes   *)
(* and the VPXBoolReader that decodes them again.                          *)
(*                                                                         *)
(* Registers.  The Go writer keeps its low value in a 64-bit word with the *)
(* marker bit at 9 + (pending stream bits) and flushes six bytes whenever  *)
(* one of the top seven bits is set; the reader keeps a 64-bit window      *)
(* whose lowest set bit is a guard marker.  TLC's integers are 32-bit, so  *)
(* the register widths are the constants W (writer) and WD (reader).      *)
(* Every constant of the Go code that depends on the width is written as   *)
(* a function of it (0xfe00..00 is the top seven bits of W, the six       *)
(* flushed bytes are (W - 16) \div 8 bytes, the rotation is by W, and 56  *)
(* = bitsInValueMinusLastByte is WD - 8); the constants that do not        *)
(* depend on it (0xffff, 0x20000, the 8-bit range) are kept.  The byte     *)
(* stream produced is the same arithmetic code at every width.             *)
(*                                                                         *)
(* Data.  A Branch's probability evolves identically on both sides (see   *)
(* the Branch module), so each operation takes its probability as an      *)
(* input p from the set Probs, recorded so the reader uses the same one.  *)
(***************************************************************************)
EXTENDS Naturals, Sequences, SequencesExt

CONSTANTS
  W,         \* width of the writer's lowValue register (64 in the code)
  WD,        \* width of the reader's value register (bitsInValue, 64)
  Probs,     \* probabilities GetProbability can return, a subset of 1..255
  MaxOps,    \* bound on the coding operations encoded after the prefix
  NBitsLen,  \* n of PutNBits / GetNBits
  GridSize,  \* len(branches) of PutGrid / GetGrid, a power of two
  UnaryLen,  \* len(branches) of PutUnaryEncoded / GetUnaryEncoded
  OpKinds,   \* which of "bit", "nbits", "grid", "unary" the writer uses
  StartOps   \* operations the writer may have encoded in the initial state

ASSUME /\ W \in 24..30 /\ (W - 16) % 8 = 0
       /\ WD \in 16..30
       /\ Probs \subseteq 1..255
       /\ GridSize \in {2, 4, 8} /\ UnaryLen \in 1..6 /\ NBitsLen \in 1..4
       /\ OpKinds \subseteq {"bit", "nbits", "grid", "unary"}

VARIABLES
  writer,   \* [lowValue, rang, buffer, panicked] of the VPXBoolWriter
  reader,   \* [value, rang, pos] of the VPXBoolReader; pos = bytes consumed
  stream,   \* the bytes Finish wrote to the underlying writer
  ops,      \* the coding operations encoded so far, in order
  decoded,  \* the values the reader returned so far, in order
  phase,    \* "encode", "finished", "decode" or "inconsistent"
  start     \* the length of the prefix the writer started from

vars == <<writer, reader, stream, ops, decoded, phase, start>>

Byte == 0..255
Pow2(n) == 2^n

RECURSIVE BitLen(_)
\* bitLength; also gives leadingZeros64 / leadingZeros8 as width - BitLen.
BitLen(x) == IF x = 0 THEN 0 ELSE 1 + BitLen(x \div 2)

LeadingZeros(x, width) == width - BitLen(x)

RECURSIVE TrailingZeros(_)
\* trailingZeros64, for x > 0.
TrailingZeros(x) == IF x % 2 = 1 THEN 0 ELSE 1 + TrailingZeros(x \div 2)

\* rotateLeft64 at width W.
RotateLeft(x, n) == ((x * Pow2(n)) % Pow2(W)) + (x \div Pow2(W - n))

\* Bit i of x (x & (1 << i) != 0).
BitOf(x, i) == (x \div Pow2(i)) % 2 = 1

-----------------------------------------------------------------------------
(* The writer.                                                             *)

\* carry: the last byte that is not 0xFF is incremented and the 0xFF bytes
\* after it become 0.  When every byte is 0xFF the Go loop indexes
\* buffer[-1] and panics.
Carry(w) ==
  LET nonFF == {x \in 1..Len(w.buffer) : w.buffer[x] # 255}
      x     == Max(nonFF)
  IN IF nonFF = {} THEN [w EXCEPT !.panicked = TRUE]
     ELSE [w EXCEPT !.buffer = [i \in 1..Len(w.buffer) |->
                                  IF i < x THEN @[i]
                                  ELSE IF i = x THEN @[i] + 1 ELSE 0]]

\* Mutant: the carry is taken from the rotated marker bit (vAligned & 2)
\* instead of the overflow bit (vAligned & 1).
FlushCarryOnMarker(w, tmpValue) ==
  LET leftoverBits == LeadingZeros(tmpValue, W) + 2
      vAligned     == RotateLeft(tmpValue, leftoverBits)
      w1           == IF (vAligned \div 2) % 2 = 1 THEN Carry(w) ELSE w
      out          == [i \in 1..(W - 16) \div 8 |->
                         (vAligned \div Pow2(W - 8 * i)) % 256]
  IN [w1 EXCEPT !.buffer   = @ \o out,
                !.lowValue = ((vAligned % 65536) + 131072) \div Pow2(leftoverBits)]

\* The flush at the end of put, applied to the renormalised tmpValue.
Flush(w, tmpValue) ==
  LET leftoverBits == LeadingZeros(tmpValue, W) + 2
      vAligned     == RotateLeft(tmpValue, leftoverBits)
      w1           == IF vAligned % 2 = 1 THEN Carry(w) ELSE w
      out          == [i \in 1..(W - 16) \div 8 |->
                         (vAligned \div Pow2(W - 8 * i)) % 256]
  IN [w1 EXCEPT !.buffer   = @ \o out,
                !.lowValue = ((vAligned % 65536) + 131072) \div Pow2(leftoverBits)]

\* Mutant: renormalisation by one bit less than leadingZeros8.
PutShiftShort(w, bit, p) ==
  LET split    == 1 + (((w.rang - 1) * p) \div 256)
      v1       == IF bit THEN w.lowValue + split ELSE w.lowValue
      r1       == IF bit THEN w.rang - split ELSE split
      shift    == IF LeadingZeros(r1, 8) > 0 THEN LeadingZeros(r1, 8) - 1 ELSE 0
      tmpValue == v1 * Pow2(shift)
      w1       == [w EXCEPT !.rang = r1 * Pow2(shift), !.lowValue = tmpValue]
  IN IF tmpValue >= Pow2(W - 7) THEN Flush(w1, tmpValue) ELSE w1

\* put: one bit coded with probability p.
Put(w, bit, p) ==
  LET split    == 1 + (((w.rang - 1) * p) \div 256)
      v1       == IF bit THEN w.lowValue + split ELSE w.lowValue
      r1       == IF bit THEN w.rang - split ELSE split
      shift    == LeadingZeros(r1, 8)
      tmpValue == v1 * Pow2(shift)
      w1       == [w EXCEPT !.rang = r1 * Pow2(shift), !.lowValue = tmpValue]
  IN IF tmpValue >= Pow2(W - 7) THEN Flush(w1, tmpValue) ELSE w1

\* The bits the Put* operations hand to put, in order.
PutNBitsBits(bits, n)   == [k \in 1..n |-> BitOf(bits, n - k)]
PutGridBits(v, A)       == [k \in 1..BitLen(A) - 1 |-> BitOf(v, BitLen(A) - 1 - k)]
PutUnaryBits(v, A)      == [k \in 1..(IF v < A THEN v + 1 ELSE A) |-> v # k - 1]

PutBits(w, bits, p) == FoldLeft(LAMBDA acc, b : Put(acc, b, p), w, bits)

\* The bits of one logged operation.
OpBits(op) ==
  CASE op.kind = "bit"   -> <<op.val = 1>>
    [] op.kind = "nbits" -> PutNBitsBits(op.val, NBitsLen)
    [] op.kind = "grid"  -> PutGridBits(op.val, GridSize)
    [] op.kind = "unary" -> PutUnaryBits(op.val, UnaryLen)

\* NewVPXBoolWriter: lowValue = 1 << 9, rang = 255, then the dummy false bit
\* with a fresh Branch (probability 128).
NewWriter == Put([lowValue |-> 512, rang |-> 255, buffer |-> <<>>,
                  panicked |-> FALSE], FALSE, 128)

\* Mutant: Finish writes streamBits >> 3 bytes, dropping a partial byte.
FinishBytesTruncated(w) ==
  LET streamBits == W - LeadingZeros(w.lowValue, W) - 2
      tmpValue   == (w.lowValue * Pow2(W - 1 - streamBits)) % Pow2(W)
      w1         == IF tmpValue >= Pow2(W - 1) THEN Carry(w) ELSE w
      numBytes   == streamBits \div 8
  IN [w1 EXCEPT !.buffer = @ \o [i \in 1..numBytes |->
                           (tmpValue \div Pow2(W - 1 - 8 * i)) % 256]]

\* Finish: the bytes still held in lowValue, after a last carry.
FinishBytes(w) ==
  LET streamBits == W - LeadingZeros(w.lowValue, W) - 2
      tmpValue   == (w.lowValue * Pow2(W - 1 - streamBits)) % Pow2(W)
      w1         == IF tmpValue >= Pow2(W - 1) THEN Carry(w) ELSE w
      numBytes   == (streamBits + 7) \div 8
  IN [w1 EXCEPT !.buffer = @ \o [i \in 1..numBytes |->
                           (tmpValue \div Pow2(W - 1 - 8 * i)) % 256]]

-----------------------------------------------------------------------------
(* The reader.                                                             *)

RECURSIVE ReadBytes(_, _, _)
\* The loop of vpxReaderFill: bytes go in at shift, shift - 8, ... while
\* shift > 0; an exhausted stream (n == 0) ends the loop.
ReadBytes(v, shift, pos) ==
  IF shift > 0 /\ pos < Len(stream)
  THEN ReadBytes(v + stream[pos + 1] * Pow2(shift), shift - 8, pos + 1)
  ELSE [value |-> v, pos |-> pos]

\* vpxReaderFill: when the low byte is empty, move the guard bit down to
\* (shift & 7) and read bytes into the gap above it.
Fill(r) ==
  IF r.value % 256 # 0 THEN r
  ELSE LET shift == TrailingZeros(r.value)
           v1    == r.value - Pow2(shift) + Pow2(shift % 8)
           got   == ReadBytes(v1, shift - 7, r.pos)
       IN [r EXCEPT !.value = got.value, !.pos = got.pos]

\* mulProb, with 56 = WD - 8.
MulProb(rang, p) ==
  LET k == WD - 8
  IN ((((((rang - Pow2(k)) \div 256) * p) \div Pow2(k)) % 256) * Pow2(k)) + Pow2(k)

\* get: one bit decoded with probability p; returns the reader and the bit.
Get(r, p) ==
  LET split == MulProb(r.rang, p)
      bit   == r.value >= split
      r1    == IF bit THEN r.rang - split ELSE split
      v1    == IF bit THEN r.value - split ELSE r.value
      shift == LeadingZeros(r1, WD)
  IN [r |-> [r EXCEPT !.value = (v1 * Pow2(shift)) % Pow2(WD),
                      !.rang = r1 * Pow2(shift)],
      bit |-> bit]

\* GetBit: fill only when fewer than eight stream bits are left.
GetBitR(r, p) ==
  Get(IF r.value % Pow2(WD - 8) = 0 THEN Fill(r) ELSE r, p)

RECURSIVE GetNBitsFrom(_, _, _, _)
\* GetNBits, bits i .. 0 still to read, coef the value so far.
GetNBitsFrom(r, i, coef, p) ==
  IF i < 0 THEN [r |-> r, val |-> coef]
  ELSE LET g == GetBitR(r, p)
       IN GetNBitsFrom(g.r, i - 1, IF g.bit THEN coef + Pow2(i) ELSE coef, p)

RECURSIVE GetGridFrom(_, _, _, _)
\* The loop of GetGrid after its single fill.
GetGridFrom(r, k, decodedSoFar, p) ==
  IF k = 0 THEN [r |-> r, val |-> decodedSoFar]
  ELSE LET g == Get(r, p)
       IN GetGridFrom(g.r, k - 1, 2 * decodedSoFar + (IF g.bit THEN 1 ELSE 0), p)

RECURSIVE GetUnaryFrom(_, _, _, _)
\* The loop of GetUnaryEncoded: refills only at value 0 and value 7.
GetUnaryFrom(r, value, A, p) ==
  IF value >= A THEN [r |-> r, val |-> A]
  ELSE LET r1 == IF value = 0 \/ value = 7 THEN Fill(r) ELSE r
           g  == Get(r1, p)
       IN IF g.bit THEN GetUnaryFrom(g.r, value + 1, A, p)
          ELSE [r |-> g.r, val |-> value]

-----------------------------------------------------------------------------
(* Actions.  The writer encodes up to MaxOps operations, Finish hands its  *)
(* buffer to the stream, and the reader decodes the same operations, in    *)
(* the same order and with the same probabilities, from that stream.      *)

\* A writer that has encoded one of StartOps after NewVPXBoolWriter.
Init ==
  /\ ops \in StartOps
  /\ start = Len(ops)
  /\ writer = FoldLeft(LAMBDA w, op : PutBits(w, OpBits(op), op.p), NewWriter, ops)
  /\ reader = [value |-> 0, rang |-> 0, pos |-> 0]
  /\ stream = <<>>
  /\ decoded = <<>>
  /\ phase = "encode"

\* One writer operation: code its bits with probability p and log it.
Encode(kind, val, p) ==
  /\ phase = "encode"
  /\ kind \in OpKinds
  /\ ~writer.panicked
  /\ Len(ops) < start + MaxOps
  /\ LET op == [kind |-> kind, val |-> val, p |-> p]
     IN /\ writer' = PutBits(writer, OpBits(op), p)
        /\ ops' = Append(ops, op)
  /\ UNCHANGED <<reader, stream, decoded, phase, start>>

PutBit(value, p) == Encode("bit", IF value THEN 1 ELSE 0, p)

PutNBits(bits, p) == Encode("nbits", bits, p)

PutGrid(v, p) == Encode("grid", v, p)

PutUnaryEncoded(v, p) == Encode("unary", v, p)

Finish ==
  /\ phase = "encode"
  /\ ~writer.panicked
  /\ LET w == FinishBytes(writer)
     IN writer' = w /\ stream' = w.buffer
  /\ phase' = "finished"
  /\ UNCHANGED <<reader, ops, decoded, start>>

\* NewVPXBoolReader: guard bit at the top, full range, then the sentinel
\* bit, which must decode as false (ErrStreamInconsistent otherwise).
NewVPXBoolReader ==
  /\ phase = "finished"
  /\ LET g == GetBitR([value |-> Pow2(WD - 1), rang |-> 255 * Pow2(WD - 8),
                       pos |-> 0], 128)
     IN /\ reader' = g.r
        /\ phase' = IF g.bit THEN "inconsistent" ELSE "decode"
  /\ UNCHANGED <<writer, stream, ops, decoded, start>>

\* The operation the reader's caller performs next.
NextOp == ops[Len(decoded) + 1]

\* One reader operation of the kind the writer used at the same position.
Decode(kind, g) ==
  /\ phase = "decode"
  /\ Len(decoded) < Len(ops)
  /\ NextOp.kind = kind
  /\ reader' = g.r
  /\ decoded' = Append(decoded, g.val)
  /\ UNCHANGED <<writer, stream, ops, phase, start>>

GetBit ==
  LET g == GetBitR(reader, NextOp.p)
  IN Decode("bit", [r |-> g.r, val |-> IF g.bit THEN 1 ELSE 0])

GetNBits == Decode("nbits", GetNBitsFrom(reader, NBitsLen - 1, 0, NextOp.p))

\* GetGrid: one fill, then the tree walk; decodedSoFar ^ A drops the top bit.
GetGrid ==
  LET g == GetGridFrom(Fill(reader), BitLen(GridSize) - 1, 1, NextOp.p)
  IN Decode("grid", [r |-> g.r, val |-> g.val - GridSize])

GetUnaryEncoded == Decode("unary", GetUnaryFrom(reader, 0, UnaryLen, NextOp.p))

Next ==
  \/ \E value \in BOOLEAN, p \in Probs : PutBit(value, p)
  \/ \E bits \in 0..Pow2(NBitsLen) - 1, p \in Probs : PutNBits(bits, p)
  \/ \E v \in 0..GridSize - 1, p \in Probs : PutGrid(v, p)
  \/ \E v \in 0..UnaryLen, p \in Probs : PutUnaryEncoded(v, p)
  \/ Finish
  \/ NewVPXBoolReader
  \/ GetBit \/ GetNBits \/ GetGrid \/ GetUnaryEncoded

Spec == Init /\ [][Next]_vars

-----------------------------------------------------------------------------
TypeOK ==
  /\ writer.lowValue \in 0..Pow2(W) - 1
  /\ writer.rang \in 128..255
  /\ writer.buffer \in Seq(Byte)
  /\ reader.value \in 0..Pow2(WD) - 1
  /\ reader.pos \in 0..Len(stream)
  /\ phase \in {"encode", "finished", "decode", "inconsistent"}

\* Roundtrip of the coder: every value the reader has returned so far is
\* the value the writer encoded at the same position, and the reader
\* accepts the writer's sentinel bit.  This exercises put's flush and
\* carry, Finish's final bytes, vpxReaderFill's refills and EOF zero fill,
\* and the fill schedules of GetBit, GetGrid, GetUnaryEncoded, GetNBits.
RoundTrip ==
  /\ phase # "inconsistent"
  /\ \A i \in 1..Len(decoded) : decoded[i] = ops[i].val

\* A carry out of put or Finish always finds a byte that is not 0xFF to
\* absorb it: carry never walks off the front of the buffer.
NoCarryUnderflow == ~writer.panicked
=============================================================================
