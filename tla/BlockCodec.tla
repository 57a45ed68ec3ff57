------------------------------ MODULE BlockCodec ------------------------------
(***************************************************************************)
(* Huffman coding of baseline blocks: the encoder's reader                 *)
(* (decodeBlockSeq, readDC, readACCoef, nextHuffCode, decodeVLI and the   *)
(* eob check and DC prediction of readBaselineScan, src/lepton/jpeg_read.go*)
(* with the derived tables of HuffmanTable.BuildDerivedTable) against the *)
(* decoder's writer (writeBlock, encodeDC, encodeAC with the code table of *)
(* buildEncodeTable, src/unnamed/part_001).                                *)
(*                                                                         *)
(* The original scan is the bit string a standard encoder produces for    *)
(* NumBlocks blocks of one component, built by the reference definitions *)
(* of the JPEG standard (Annex C code assignment, Annex F.1.2 tokens).    *)
(* The reader decodes it one Huffman token per step; the writer then      *)
(* encodes the blocks the reader stored, one block per step.  Bytes, FF   *)
(* stuffing and markers are JpegScanIO's; here the stream is a sequence   *)
(* of bits and a BitWriter.Write of n bits appends them MSB first.        *)
(***************************************************************************)
EXTENDS Naturals, Integers, Sequences, SequencesExt

CONSTANTS
  DcSymbols, AcSymbols,  \* the symbols of the DHT segments, in table order
  DcProfiles, AcProfiles,\* code counts per length 1..16 (BITS of the DHT)
  Blocks,                \* blocks as [dc |-> Int, ac |-> [1..63 -> Int]]
  NumBlocks

EOB == 0
ZRL == 240

VARIABLES
  dcHt, acHt,     \* HuffmanTable: [nc |-> NumCodes, syms |-> Symbols]
  dcDt, acDt,     \* the derived tables built when the DHT is parsed
  blocks,         \* the blocks of the original image
  original,       \* the original scan bits
  rpos,           \* the reader's next bit
  rlast,          \* readBaselineScan's lastDC
  cur,            \* the block being decoded: [pos, blk, eob]
  phase,          \* "dc", "ac", "end" per block; "write"; "done"; "rejected"
  decoded,        \* blocks stored by the reader
  wlast,          \* the writer's lastDC
  written,        \* blocks the writer has written
  out             \* the writer's bits

vars == <<dcHt, acHt, dcDt, acDt, blocks, original, rpos, rlast, cur, phase,
          decoded, wlast, written, out>>

Wrap16(x) == ((x + 32768) % 65536) - 32768
Int16 == -32768..32767

\* BitWriter.Write(val, n): the n low bits of val, most significant first.
Bits(val, n) == [i \in 1..n |-> (val \div 2^(n - i)) % 2]

RECURSIVE BitsValue(_)
BitsValue(s) == IF s = <<>> THEN 0 ELSE 2 * BitsValue(Front(s)) + Last(s)

RECURSIVE SymBase(_, _)
\* symbolIdx at the start of length b: the codes of lengths below b.
SymBase(nc, b) == IF b = 1 THEN 0 ELSE SymBase(nc, b - 1) + nc[b - 1]

RECURSIVE DecFirstCode(_, _)
\* BuildDerivedTable: code = (code + NumCodes[bits]) << 1 at each length.
DecFirstCode(nc, b) ==
  IF b = 1 THEN 0 ELSE (DecFirstCode(nc, b - 1) + nc[b - 1]) * 2

\* Mutant: symbolIdx advanced before ValPtr is set.
BuildDerivedTableLateBase(ht) ==
  [MaxCode |-> [b \in 1..16 |-> IF ht.nc[b] > 0
                                 THEN DecFirstCode(ht.nc, b) + ht.nc[b] - 1
                                 ELSE -1],
   ValPtr  |-> [b \in 1..16 |-> SymBase(ht.nc, b) + ht.nc[b]
                                 - DecFirstCode(ht.nc, b)]]

\* BuildDerivedTable: MaxCode and ValPtr per length (FastLookup is unused
\* because Read never leaves 8 bits buffered; see JpegScanIO).
BuildDerivedTable(ht) ==
  [MaxCode |-> [b \in 1..16 |-> IF ht.nc[b] > 0
                                 THEN DecFirstCode(ht.nc, b) + ht.nc[b] - 1
                                 ELSE -1],
   ValPtr  |-> [b \in 1..16 |-> SymBase(ht.nc, b) - DecFirstCode(ht.nc, b)]]

RECURSIVE EncFirstCodeNoShiftOnEmpty(_, _)
\* Mutant: the shift of buildEncodeTable skipped after an empty length.
EncFirstCodeNoShiftOnEmpty(nc, b) ==
  IF b = 1 THEN 0
  ELSE IF nc[b - 1] = 0 THEN EncFirstCodeNoShiftOnEmpty(nc, b - 1)
  ELSE (EncFirstCodeNoShiftOnEmpty(nc, b - 1) + nc[b - 1]) * 2

RECURSIVE EncFirstCode(_, _)
\* buildEncodeTable: code++ per symbol, code <<= 1 after every length.
EncFirstCode(nc, b) ==
  IF b = 1 THEN 0 ELSE (EncFirstCode(nc, b - 1) + nc[b - 1]) * 2

\* buildEncodeTable: codes[symbol] and lengths[symbol]; a symbol listed
\* twice keeps the later code.
BuildEncodeTable(ht) ==
  LET LenOf(k) == CHOOSE b \in 1..16 : SymBase(ht.nc, b) < k
                                       /\ k <= SymBase(ht.nc, b) + ht.nc[b]
      LastIdx(s) == CHOOSE k \in DOMAIN ht.syms :
                      ht.syms[k] = s /\ \A j \in DOMAIN ht.syms : ht.syms[j] = s => j <= k
  IN [s \in ToSet(ht.syms) |->
        LET k == LastIdx(s)
            b == LenOf(k)
        IN [code |-> EncFirstCode(ht.nc, b) + (k - 1 - SymBase(ht.nc, b)),
            len  |-> b]]

-----------------------------------------------------------------------------
(* Values and categories.                                                  *)

\* absVal := x; if absVal < 0 { absVal = -absVal } on an int16: -32768
\* stays -32768.
Abs16(x) == IF x < 0 THEN Wrap16(-x) ELSE x

RECURSIVE BitLength(_)
\* for temp > 0 { category++; temp >>= 1 }
BitLength(x) == IF x <= 0 THEN 0 ELSE 1 + BitLength(x \div 2)

\* The additional bits: the value, or (v - 1) & ((1 << category) - 1).
VLIBits(v, cat) == IF v >= 0 THEN v ELSE (v - 1) % 2^cat

\* decodeVLI.
DecodeVLI(size, bits) ==
  IF size = 0 THEN 0
  ELSE IF bits < 2^(size - 1) THEN bits - (2^size - 1) ELSE bits

-----------------------------------------------------------------------------
(* Reference: the scan a standard encoder writes (ISO 10918-1).           *)

\* Annex C: HUFFSIZE lists the code length of each symbol in table order;
\* the code of symbol k is the Kraft sum of the codes before it, read at
\* its own length.
RefSizes(ht) == FlattenSeq([b \in 1..16 |-> [i \in 1..ht.nc[b] |-> b]])

RefCode(ht, s) ==
  LET sz == RefSizes(ht)
      k  == CHOOSE k \in DOMAIN ht.syms : ht.syms[k] = s
      kraft == FoldLeft(LAMBDA acc, j : acc + 2^(16 - sz[j]), 0,
                        [j \in 1..k - 1 |-> j])
  IN Bits(kraft \div 2^(16 - sz[k]), sz[k])

RefValue(v) == LET c == BitLength(IF v < 0 THEN -v ELSE v)
               IN <<c, Bits(VLIBits(v, c), c)>>

RECURSIVE RefAC(_, _, _)
\* Annex F.1.2.2: from position i with r zeros pending, ZRL for each run of
\* 16 before a non-zero coefficient, EOB if the block ends in zeros.
RefAC(ht, ac, i) ==
  LET nz == {j \in i..63 : ac[j] # 0}
  IN IF nz = {} THEN (IF i <= 63 THEN RefCode(ht, EOB) ELSE <<>>)
     ELSE LET j == CHOOSE j \in nz : \A m \in nz : j <= m
              r == j - i
              v == RefValue(ac[j])
          IN FlattenSeq([n \in 1..(r \div 16) |-> RefCode(ht, ZRL)])
             \o RefCode(ht, (r % 16) * 16 + v[1]) \o v[2]
             \o RefAC(ht, ac, j + 1)

RefBlock(dcT, acT, blk, prevDC) ==
  LET d == RefValue(blk.dc - prevDC)
  IN RefCode(dcT, d[1]) \o d[2] \o RefAC(acT, blk.ac, 1)

RefScan(dcT, acT, bs) ==
  FlattenSeq([k \in 1..Len(bs) |->
                RefBlock(dcT, acT, bs[k], IF k = 1 THEN 0 ELSE bs[k - 1].dc)])

-----------------------------------------------------------------------------
(* The reader: readBaselineScan's per-block part.                          *)

\* The bit at p; past the end of the scan the BitReader delivers zeros.
BitAt(p) == IF p <= Len(original) THEN original[p] ELSE 0

\* Read(n) from bit p.
ReadVal(p, n) == BitsValue([i \in 1..n |-> BitAt(p + i - 1)])

RECURSIVE HuffLoop(_, _, _, _, _)
\* nextHuffCode's slow path: one more bit per length until the code is at
\* most MaxCode[bits]; no code of 16 bits or fewer is an error.
HuffLoop(p, dt, syms, bits, code) ==
  IF bits > 16 THEN [ok |-> FALSE, sym |-> 0, pos |-> p]
  ELSE LET c == 2 * code + BitAt(p)
       IN IF c <= dt.MaxCode[bits]
          THEN [ok |-> TRUE, sym |-> syms[dt.ValPtr[bits] + c + 1], pos |-> p + 1]
          ELSE HuffLoop(p + 1, dt, syms, bits + 1, c)

NextHuffCode(p, dt, ht) == HuffLoop(p, dt, ht.syms, 1, 0)

EmptyBlock == [i \in 0..63 |-> 0]

Init ==
  /\ dcHt \in {[nc |-> nc, syms |-> DcSymbols] : nc \in DcProfiles}
  /\ acHt \in {[nc |-> nc, syms |-> AcSymbols] : nc \in AcProfiles}
  /\ dcDt = BuildDerivedTable(dcHt)
  /\ acDt = BuildDerivedTable(acHt)
  /\ blocks \in [1..NumBlocks -> Blocks]
  /\ original = RefScan(dcHt, acHt, blocks)
  /\ rpos = 1 /\ rlast = 0
  /\ cur = [pos |-> 0, blk |-> EmptyBlock, eob |-> 64]
  /\ phase = "dc"
  /\ decoded = <<>>
  /\ wlast = 0 /\ written = 0 /\ out = <<>>

Fixed == <<dcHt, acHt, dcDt, acDt, blocks, original>>

\* readDC: a category symbol, then that many bits as a signed VLI.
ReadDC ==
  /\ phase = "dc"
  /\ LET h == NextHuffCode(rpos, dcDt, dcHt) IN
       IF ~h.ok THEN phase' = "rejected" /\ UNCHANGED <<rpos, cur>>
       ELSE /\ rpos' = h.pos + h.sym
            /\ cur' = [pos |-> 1, eob |-> 64,
                       blk |-> [EmptyBlock EXCEPT ![0] =
                                  DecodeVLI(h.sym, ReadVal(h.pos, h.sym))]]
            /\ phase' = "ac"
  /\ UNCHANGED <<Fixed, rlast, decoded, wlast, written, out>>

\* One iteration of decodeBlockSeq's AC loop with readACCoef: EOB ends the
\* block, a zero size is a run of z + 1 zeros (ZRL when z = 15), a run past
\* the block is an error (the stream is not at EOF here).
ReadACCoef ==
  /\ phase = "ac" /\ cur.pos < 64
  /\ LET h == NextHuffCode(rpos, acDt, acHt)
         z == h.sym \div 16
         s == h.sym % 16
     IN CASE ~h.ok ->
               phase' = "rejected" /\ UNCHANGED <<rpos, cur>>
          [] h.sym = EOB ->
               /\ rpos' = h.pos
               /\ cur' = [cur EXCEPT !.eob = cur.pos]
               /\ phase' = "end"
          [] z + cur.pos >= 64 ->
               /\ rpos' = h.pos + s
               /\ phase' = "rejected" /\ UNCHANGED cur
          [] OTHER ->
               LET at == cur.pos + z IN
               /\ rpos' = h.pos + s
               /\ cur' = [cur EXCEPT !.pos = at + 1,
                                     !.blk[at] = IF s = 0 THEN 0
                                                 ELSE DecodeVLI(s, ReadVal(h.pos, s))]
               /\ phase' = IF at + 1 >= 64 THEN "end" ELSE "ac"
  /\ UNCHANGED <<Fixed, rlast, decoded, wlast, written, out>>

\* After decodeBlockSeq: the block is refused if its EOB follows a zero
\* (the writer could not regenerate that coding), the DC prediction is
\* added with int16 wrap-around and the block is stored.
StoreBlock ==
  /\ phase = "end"
  /\ IF cur.eob > 1 /\ cur.blk[cur.eob - 1] = 0
     THEN phase' = "rejected" /\ UNCHANGED <<rlast, decoded>>
     ELSE LET dc == Wrap16(cur.blk[0] + rlast) IN
          /\ rlast' = dc
          /\ decoded' = Append(decoded, [dc |-> dc, ac |-> [i \in 1..63 |-> cur.blk[i]]])
          /\ phase' = IF Len(decoded) + 1 = NumBlocks THEN "write" ELSE "dc"
  /\ UNCHANGED <<Fixed, rpos, cur, wlast, written, out>>

-----------------------------------------------------------------------------
(* The writer: writeBlock with encodeDC and encodeAC.                      *)

\* BitWriter.Write(codes[sym], lengths[sym]); a symbol missing from the
\* table has length 0 and writes nothing.
PutCode(enc, sym) ==
  IF sym \in DOMAIN enc THEN Bits(enc[sym].code, enc[sym].len) ELSE <<>>

\* The additional bits of a value of the given category.
PutValue(v, cat) == IF cat > 0 THEN Bits(VLIBits(v, cat), cat) ELSE <<>>

\* encodeDC.
EncodeDC(diff, enc) ==
  LET cat == BitLength(Abs16(diff)) IN PutCode(enc, cat) \o PutValue(diff, cat)

RECURSIVE EncodeACFrom(_, _, _, _)
\* encodeAC from coefficient i with zeroRunLength z: ZRLs while z >= 16
\* before a non-zero coefficient, then (z << 4) | category; EOB at the end
\* if zeros are pending.
EncodeACFrom(ac, i, z, enc) ==
  IF i > 63 THEN (IF z > 0 THEN PutCode(enc, EOB) ELSE <<>>)
  ELSE IF ac[i] = 0 THEN EncodeACFrom(ac, i + 1, z + 1, enc)
  ELSE LET cat == BitLength(Abs16(ac[i])) IN
       FlattenSeq([n \in 1..(z \div 16) |-> PutCode(enc, ZRL)])
       \o PutCode(enc, (z % 16) * 16 + cat) \o PutValue(ac[i], cat)
       \o EncodeACFrom(ac, i + 1, 0, enc)

\* writeBlock: the DC difference against lastDC (int16), then the AC run.
WriteBlock ==
  /\ phase = "write"
  /\ LET blk  == decoded[written + 1]
         diff == Wrap16(blk.dc - wlast)
     IN /\ out' = out \o EncodeDC(diff, BuildEncodeTable(dcHt))
                      \o EncodeACFrom(blk.ac, 1, 0, BuildEncodeTable(acHt))
        /\ wlast' = blk.dc
        /\ written' = written + 1
        /\ phase' = IF written + 1 = NumBlocks THEN "done" ELSE "write"
  /\ UNCHANGED <<Fixed, rpos, rlast, cur, decoded>>

Next == ReadDC \/ ReadACCoef \/ StoreBlock \/ WriteBlock

Spec == Init /\ [][Next]_vars

-----------------------------------------------------------------------------
\* The derived tables are well formed: every code nextHuffCode accepts
\* indexes one of the table's symbols.
TypeOK ==
  /\ phase \in {"dc", "ac", "end", "write", "done", "rejected"}
  /\ rpos \in Nat /\ written \in 0..NumBlocks
  /\ out \in Seq({0, 1})
  /\ \A dt \in {<<dcDt, dcHt>>, <<acDt, acHt>>} : \A b \in 1..16 :
       dt[1].MaxCode[b] >= 0 =>
         /\ dt[1].ValPtr[b] + DecFirstCode(dt[2].nc, b) >= 0
         /\ dt[1].ValPtr[b] + dt[1].MaxCode[b] + 1 <= Len(dt[2].syms)

\* Whatever the code lengths of the DHT tables (including lengths with no
\* codes), the reader accepts the standard coding of every block, stores
\* exactly the original coefficients, consumes exactly the scan, and the
\* writer's codes, ZRL runs, EOBs and additional bits regenerate the scan
\* bit for bit.
RoundTrip ==
  /\ phase # "rejected"
  /\ \A k \in 1..Len(decoded) : decoded[k] = blocks[k]
  /\ IsPrefix(out, original)
  /\ phase \in {"write", "done"} => rpos = Len(original) + 1
  /\ phase = "done" => out = original
====
