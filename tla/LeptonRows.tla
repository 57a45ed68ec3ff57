------------------------------ MODULE LeptonRows ------------------------------
(***************************************************************************)
(* Coding order of the coefficient blocks and the container around them.  *)
(*                                                                         *)
(* Encoder: EncodeRowRange with processRow (src/unnamed/part_003) walks    *)
(* rows in getRowSpecFromIndex order (src/unnamed/part_007), chooses the   *)
(* neighbor model (isTopRow, x = 0), gathers the neighbors with a          *)
(* BlockContext (src/lepton/block_context.go) over a two-row summary cache *)
(* indexed by y & 1, and codes each block.  Encode (src/unnamed/part_002)  *)
(* runs it over one handoff and wraps the stream with                      *)
(* multiplexSingleThread.  A file with several handoffs, as other Lepton   *)
(* encoders write, is made here by the environment: it runs               *)
(* EncodeRowRange once per handoff and interleaves the partitions in      *)
(* chunks with the variable-length header.                                 *)
(*                                                                         *)
(* Decoder: DecodeLepton (src/unnamed/part_001) demultiplexes               *)
(* (newDemultiplexer, getPartitionData) and runs DecodeRowRange with       *)
(* decodeRow per handoff, appending each block to its BlockBasedImage.    *)
(*                                                                         *)
(* A block is its coefficients, Coefs of its identity <<c, dpos>>; a      *)
(* NeighborSummary is the block it summarises.  A block is coded by       *)
(* writeCoefficientsBlock (LeptonCoef) in the neighborhood the walker     *)
(* gathers, and the token of the stream holds its decisions; the decoder  *)
(* runs decodeBlock on them in the neighborhood it gathers from its own   *)
(* image, and a block it cannot read back is Garbage.  A stream element   *)
(* of the container is a header, a length byte or a token.                *)
(***************************************************************************)
EXTENDS Integers, Sequences, SequencesExt, FiniteSetsExt, LeptonCoef

CONSTANTS
  Frames,     \* [n, w, h, mcuv]: components, Bch and Bcv by component, MCU rows
  Handoffs,   \* sequences of LumaYStart, one per thread, the first 0
  MaxBlock,   \* largest chunk multiplexSingleThread writes (65536)
  LenMod,     \* modulus of the uint16 length field (65536)
  ByteMod,    \* modulus of one byte of it (256)
  Coefs       \* the RawData of each block <<c, dpos>> of the source JPEG

VARIABLES
  frame, hand,
  phase,    \* "encode", "mux", "demux", "decode", "done", "failed"
  enc,      \* [t, idx, row, top, cache, ctx] of the encoder's current thread
  estr,     \* the token stream of each thread
  muxed,    \* the container's multiplexed bytes
  sent,     \* tokens of each thread already multiplexed
  dem,      \* the demultiplexed data of each partition
  pos,      \* newDemultiplexer's read position in muxed
  dec,      \* [t, idx, row, top, cache, ctx, rpos] of the decoder
  dimg      \* the blocks of each component, in append order

vars == <<frame, hand, phase, enc, estr, muxed, sent, dem, pos, dec, dimg>>

\* The frame of a header (ReadLeptonHeader): per component sampling factors
\* sfh and sfv, with Bch = Mcuh * Sfh and Bcv = Mcuv * Sfv.
FrameOf(sfh, sfv, mcuh, mcuv) ==
  [n |-> Len(sfh), mcuv |-> mcuv,
   w |-> [c \in 0..Len(sfh) - 1 |-> mcuh * sfh[c + 1]],
   h |-> [c \in 0..Len(sfv) - 1 |-> mcuv * sfv[c + 1]]]

Empty == ZeroBlock     \* emptyBlock and emptyNeighborSummary are all zero
Garbage == [i \in 0..63 |-> -1]  \* a block the decoder could not read back
Cmps == 0..frame.n - 1
Bc(c) == frame.w[c] * frame.h[c]
NumThreads == Len(hand)

\* ProbabilityTables of part_008: which neighbors a model uses.
NoNeighbors  == [left |-> FALSE, above |-> FALSE, all |-> FALSE]
TopOnly      == [left |-> FALSE, above |-> TRUE, all |-> FALSE]
LeftOnly     == [left |-> TRUE, above |-> FALSE, all |-> FALSE]
AllNeighbors == [left |-> TRUE, above |-> TRUE, all |-> TRUE]

\* The handoff's luma row range; the last ends at the luma height
\* (parseThreadHandoffs and ReadLeptonHeader; Encode's single handoff).
LumaYStart(t) == hand[t]
LumaYEnd(t) == IF t < NumThreads THEN hand[t + 1] ELSE frame.h[0]

(***************************************************************************)
(* getRowSpecFromIndex: the component and row the decodeIndex-th row is.  *)
(***************************************************************************)
CompMultiple(c) == frame.h[c] \div frame.mcuv

\* TruncateComponents.Init without early EOF: the coded height of each
\* component is its Bcv (also the encoder's GetOriginalHeight), and its
\* size in blocks is Bc.
MaxCodedHeight(c) == frame.h[c]
ComponentSizeInBlocks(c) == Bc(c)

RECURSIVE RowSpecScan(_, _, _, _)
RowSpecScan(i, place, mcuRow, base) ==
  IF place < CompMultiple(i)
  THEN LET currY == mcuRow * CompMultiple(i) + place
           skip  == currY >= MaxCodedHeight(i)
           done  == skip /\ \A j \in 0..frame.n - 2 : mcuRow * CompMultiple(j) >= MaxCodedHeight(j)
       IN [base EXCEPT !.component = i, !.currY = currY, !.skip = skip,
                       !.done = done, !.lumaY = IF i = 0 THEN currY ELSE base.lumaY]
  ELSE IF i = 0 THEN [base EXCEPT !.skip = TRUE, !.done = TRUE]
  ELSE RowSpecScan(i - 1, place - CompMultiple(i), mcuRow, base)

McuMultiple == LET RECURSIVE S(_) S(i) == IF i < 0 THEN 0 ELSE CompMultiple(i) + S(i - 1)
               IN S(frame.n - 1)

GetRowSpecFromIndex(decodeIndex) ==
  LET mcuRow == decodeIndex \div McuMultiple
  IN RowSpecScan(frame.n - 1, decodeIndex - mcuRow * McuMultiple, mcuRow,
                 [skip |-> FALSE, done |-> FALSE, component |-> frame.n,
                  lumaY |-> mcuRow * CompMultiple(0), currY |-> 0])

(***************************************************************************)
(* BlockContext and the neighbor summary cache.                            *)
(***************************************************************************)
NewBlockContextForRow(y, w) ==
  [w |-> w, cur |-> w * y,
   curNS |-> IF y % 2 # 0 THEN w ELSE 0, aboveNS |-> IF y % 2 # 0 THEN 0 ELSE w]

\* Mutant: Next leaves aboveNeighborSummaryIndex behind.
Next1NoAbove(ctx) == [ctx EXCEPT !.cur = @ + 1, !.curNS = @ + 1]

SetNeighborSummaryHere(cache, ctx, ns) == [cache EXCEPT ![ctx.curNS] = ns]

Next1(ctx) == [ctx EXCEPT !.cur = @ + 1, !.curNS = @ + 1, !.aboveNS = @ + 1]

\* NewBlockBasedImage: the decoder's images start with no blocks.
NewImages == [c \in Cmps |-> << >>]

\* BlockBasedImage.GetBlock: emptyBlock past the blocks held; a dpos below
\* zero is a uint32 that wrapped, so past them too.
GetBlock(img, dpos) == IF 0 <= dpos /\ dpos < Len(img) THEN img[dpos + 1] ELSE Empty

\* BlockBasedImage.AppendBlock.
AppendBlock(img, blk) == Append(img, blk)

\* GetNeighborData over the blocks img and the cache of one component.
GetNeighborData(img, cache, pt, ctx) ==
  IF pt.all
  THEN [aboveLeft |-> GetBlock(img, ctx.cur - ctx.w - 1),
        above |-> GetBlock(img, ctx.cur - ctx.w), left |-> GetBlock(img, ctx.cur - 1),
        nAbove |-> cache[ctx.aboveNS], nLeft |-> cache[ctx.curNS - 1]]
  ELSE [aboveLeft |-> Empty,
        above |-> IF pt.above THEN GetBlock(img, ctx.cur - ctx.w) ELSE Empty,
        left |-> IF pt.left THEN GetBlock(img, ctx.cur - 1) ELSE Empty,
        nAbove |-> IF pt.above THEN cache[ctx.aboveNS] ELSE Empty,
        nLeft |-> IF pt.left THEN cache[ctx.curNS - 1] ELSE Empty]

FreshCache == [c \in Cmps |-> [i \in 0..2 * frame.w[c] - 1 |-> Empty]]
NoRow == [on |-> FALSE, cmp |-> 0, x |-> 0, lm |-> NoNeighbors, mm |-> NoNeighbors]

\* A row walker (encoder or decoder) at the start of thread t.
NewWalker(t) == [t |-> t, idx |-> 0, row |-> NoRow, top |-> [c \in Cmps |-> TRUE],
                 cache |-> FreshCache, ctx |-> NewBlockContextForRow(0, 1), rpos |-> 1]

\* Mutant: the row loop never breaks at lumaYEnd.
RowEndsNoEnd(s) == GetRowSpecFromIndex(s.idx).done

\* Mutant: a skipped row does not advance decodeIndex.
RowLoopStuck(s) ==
  LET rs == GetRowSpecFromIndex(s.idx)
      c  == rs.component
  IN IF rs.skip \/ rs.lumaY < LumaYStart(s.t)
     THEN s
     ELSE [s EXCEPT !.top[c] = FALSE,
                    !.row = [on |-> TRUE, cmp |-> c, x |-> 0,
                             lm |-> IF s.top[c] THEN NoNeighbors ELSE TopOnly,
                             mm |-> IF s.top[c] THEN LeftOnly ELSE AllNeighbors],
                    !.ctx = NewBlockContextForRow(rs.currY, frame.w[c])]

\* The row loop of EncodeRowRange and DecodeRowRange between two rows:
\* RowEnds says the loop breaks; otherwise RowLoop moves the walker to its
\* next row (choosing the models by isTopRow) or past a skipped one.
RowEnds(s) ==
  LET rs == GetRowSpecFromIndex(s.idx)
  IN rs.done \/ (~rs.skip /\ rs.lumaY >= LumaYStart(s.t) /\ rs.lumaY >= LumaYEnd(s.t))

RowLoop(s) ==
  LET rs == GetRowSpecFromIndex(s.idx)
      c  == rs.component
  IN IF rs.skip \/ rs.lumaY < LumaYStart(s.t)
     THEN [s EXCEPT !.idx = @ + 1]
     ELSE [s EXCEPT !.top[c] = FALSE,
                    !.row = [on |-> TRUE, cmp |-> c, x |-> 0,
                             lm |-> IF s.top[c] THEN NoNeighbors ELSE TopOnly,
                             mm |-> IF s.top[c] THEN LeftOnly ELSE AllNeighbors],
                    !.ctx = NewBlockContextForRow(rs.currY, frame.w[c])]

\* After a block: SetNeighborSummaryHere and Next, then the end of the
\* row: the last column, or stop (decodeRow's offset >= componentSizeInBlocks).
AfterBlock(s, ns, stop) ==
  LET c == s.row.cmp
      endRow == s.row.x + 1 = frame.w[c] \/ stop
  IN [s EXCEPT !.cache[c] = SetNeighborSummaryHere(@, s.ctx, ns),
               !.ctx = Next1(s.ctx),
               !.row = IF endRow THEN NoRow ELSE [s.row EXCEPT !.x = @ + 1],
               !.idx = IF endRow THEN @ + 1 ELSE @]

PtOf(s) == IF s.row.x = 0 THEN s.row.lm ELSE s.row.mm

\* getColorIndex: luma has ModelPerColor 0, the chroma components share 1.
ColorIndex(c) == IF c = 0 THEN 0 ELSE 1

\* The source image of component c: every block present (ReadJpegFile).
Original(c) == [i \in 1..Bc(c) |-> Coefs[<<c, i - 1>>]]

Threads == 1..NumThreads

Init ==
  /\ frame \in Frames
  /\ hand \in {h \in Handoffs : \A i \in 1..Len(h) : h[i] < frame.h[0]}
  /\ phase = "encode"
  /\ enc = NewWalker(1)
  /\ estr = [t \in Threads |-> << >>]
  /\ muxed = << >>
  /\ sent = [t \in Threads |-> 0]
  /\ dem = [t \in Threads |-> << >>]
  /\ pos = 1
  /\ dec = NewWalker(1)
  /\ dimg = NewImages

(***************************************************************************)
(* EncodeRowRange over the handoffs: the row loop, processRow's block step *)
(* (writeCoefficientsBlock; its error ends Encode), and the end of a      *)
(* handoff.  A token keeps the neighbor data it was coded with for the    *)
(* property SummaryMatchesNeighbor; the decoder reads only its code.      *)
(***************************************************************************)
EncRow ==
  /\ phase = "encode" /\ ~enc.row.on /\ ~RowEnds(enc)
  /\ enc' = RowLoop(enc)
  /\ UNCHANGED <<frame, hand, phase, estr, muxed, sent, dem, pos, dec, dimg>>

EncBlock ==
  /\ phase = "encode" /\ enc.row.on
  /\ LET c == enc.row.cmp IN
     \E img \in {Original(c)} :
     \E nb \in {[pt |-> PtOf(enc), nd |-> GetNeighborData(img, enc.cache[c], PtOf(enc), enc.ctx)]} :
     \E blk \in {GetBlock(img, enc.ctx.cur)} :
     \E w \in {WriteCoefficientsBlock(ColorIndex(c), blk, nb)} :
        IF w.ok
        THEN /\ estr' = [estr EXCEPT ![enc.t] = Append(@, [code |-> w.s, nd |-> nb.nd])]
             /\ enc' = AfterBlock(enc, blk, FALSE)
             /\ UNCHANGED phase
        ELSE phase' = "failed" /\ UNCHANGED <<estr, enc>>
  /\ UNCHANGED <<frame, hand, muxed, sent, dem, pos, dec, dimg>>

EncEnd ==
  /\ phase = "encode" /\ ~enc.row.on /\ RowEnds(enc)
  /\ IF enc.t < NumThreads
     THEN enc' = NewWalker(enc.t + 1) /\ UNCHANGED phase
     ELSE phase' = "mux" /\ UNCHANGED enc
  /\ UNCHANGED <<frame, hand, estr, muxed, sent, dem, pos, dec, dimg>>

(***************************************************************************)
(* multiplexSingleThread: chunks of at most MaxBlock stream elements, each *)
(* after a header byte (the partition) and lenMinus1 as uint16 in little-  *)
(* endian bytes.  With one thread this is the Go loop; with several, the   *)
(* environment picks the partition and the chunk size.                     *)
(***************************************************************************)
\* Mutant: chunks of up to 65537, one more than lenMinus1 can hold.
MuxSizeOver(left) == Min({left, MaxBlock + 1})

MuxSize(left) == Min({left, MaxBlock})

MuxSizes(t) ==
  LET left == Len(estr[t]) - sent[t]
  IN {MuxSize(left)}

MuxChunk ==
  /\ phase = "mux"
  /\ \E t \in Threads, size \in 1..MaxBlock + 1 :
       /\ sent[t] < Len(estr[t]) /\ size \in MuxSizes(t)
       /\ LET lenMinus1 == (size - 1) % LenMod
          IN muxed' = muxed \o << [b |-> t - 1], [b |-> lenMinus1 % ByteMod],
                                  [b |-> lenMinus1 \div ByteMod] >>
                            \o SubSeq(estr[t], sent[t] + 1, sent[t] + size)
       /\ sent' = [sent EXCEPT ![t] = @ + size]
  /\ UNCHANGED <<frame, hand, phase, enc, estr, dem, pos, dec, dimg>>

MuxEnd ==
  /\ phase = "mux" /\ \A t \in Threads : sent[t] = Len(estr[t])
  /\ phase' = "demux"
  /\ UNCHANGED <<frame, hand, enc, estr, muxed, sent, dem, pos, dec, dimg>>

(***************************************************************************)
(* newDemultiplexer, one chunk per step.  A framing byte has its value; a *)
(* stream element read as a byte (the framing went wrong) may be any byte *)
(* of the classes the loop tells apart: partition 0, partition 1, a        *)
(* partition past the last one, a fixed-length header (16 and up, whose   *)
(* length 1024 << 2*flags exceeds every stream here and is clamped).      *)
(***************************************************************************)
ReadBytes == {0, 1, 2, 16}
ByteAt(i) == IF "b" \in DOMAIN muxed[i] THEN {muxed[i].b} ELSE ReadBytes

DemuxAppend(id, from, blockLen) ==
  LET n == Min({blockLen, Len(muxed) - from + 1})
  IN /\ dem' = IF id < NumThreads
               THEN [dem EXCEPT ![id + 1] = @ \o SubSeq(muxed, from, from + n - 1)]
               ELSE dem
     /\ pos' = from + n

DemuxChunk ==
  /\ phase = "demux" /\ pos <= Len(muxed)
  /\ \E header \in ByteAt(pos) :
       IF header < 16
       THEN IF pos + 2 > Len(muxed)
            THEN phase' = "decode" /\ UNCHANGED <<dem, pos>>
            ELSE \E b0 \in ByteAt(pos + 1), b1 \in ByteAt(pos + 2) :
                   /\ DemuxAppend(header % 16, pos + 3, b1 * ByteMod + b0 + 1)
                   /\ UNCHANGED phase
       ELSE DemuxAppend(header % 16, pos + 1, Len(muxed)) /\ UNCHANGED phase
  /\ UNCHANGED <<frame, hand, enc, estr, muxed, sent, dec, dimg>>

DemuxEnd ==
  /\ phase = "demux" /\ pos > Len(muxed)
  /\ phase' = "decode"
  /\ UNCHANGED <<frame, hand, enc, estr, muxed, sent, dem, pos, dec, dimg>>

(***************************************************************************)
(* DecodeLepton's thread loop with DecodeRowRange and decodeRow.  The      *)
(* decoder runs decodeBlock on the next element of its partition; a       *)
(* framing byte, the end of the data, or decisions it cannot read back    *)
(* in the neighborhood it has, decode to Garbage.                         *)
(***************************************************************************)
DecRow ==
  /\ phase = "decode" /\ ~dec.row.on /\ ~RowEnds(dec)
  /\ dec' = RowLoop(dec)
  /\ UNCHANGED <<frame, hand, phase, enc, estr, muxed, sent, dem, pos, dimg>>

DecodeToken(item, c, nb) ==
  IF "code" \in DOMAIN item
  THEN With(DecodeBlock(ColorIndex(c), item.code, nb), LAMBDA r : IF r.ok THEN r.b ELSE Garbage)
  ELSE Garbage

DecBlock ==
  /\ phase = "decode" /\ dec.row.on
  /\ LET c    == dec.row.cmp
         data == dem[dec.t]
     IN \E nb \in {[pt |-> PtOf(dec), nd |-> GetNeighborData(dimg[c], dec.cache[c], PtOf(dec), dec.ctx)]} :
        \E blk \in {IF dec.rpos <= Len(data) THEN DecodeToken(data[dec.rpos], c, nb) ELSE Garbage} :
        /\ dimg' = [dimg EXCEPT ![c] = AppendBlock(@, blk)]
        /\ dec' = [AfterBlock(dec, blk, dec.ctx.cur + 1 >= ComponentSizeInBlocks(c)) EXCEPT !.rpos = @ + 1]
  /\ UNCHANGED <<frame, hand, phase, enc, estr, muxed, sent, dem, pos>>

DecEnd ==
  /\ phase = "decode" /\ ~dec.row.on /\ RowEnds(dec)
  /\ IF dec.t < NumThreads
     THEN dec' = NewWalker(dec.t + 1) /\ UNCHANGED phase
     ELSE phase' = "done" /\ UNCHANGED dec
  /\ UNCHANGED <<frame, hand, enc, estr, muxed, sent, dem, pos, dimg>>

Next ==
  \/ EncRow \/ EncBlock \/ EncEnd
  \/ MuxChunk \/ MuxEnd
  \/ DemuxChunk \/ DemuxEnd
  \/ DecRow \/ DecBlock \/ DecEnd

\* Encode and DecodeLepton are sequential loops: each step that is enabled
\* is eventually taken.
Spec == Init /\ [][Next]_vars /\ WF_vars(Next)

-----------------------------------------------------------------------------
\* Types, and the decoder's images never hold more blocks than Bc: no row
\* is decoded twice, by one thread or by two.
TypeOK ==
  /\ phase \in {"encode", "mux", "demux", "decode", "done", "failed"}
  /\ \A t \in Threads : sent[t] <= Len(estr[t])
  /\ \A c \in Cmps : /\ Len(dimg[c]) <= Bc(c)
                     /\ \A i \in 1..Len(dimg[c]) : dimg[c][i] \in Range(Coefs) \cup {Garbage}

\* Every block the encoder codes is coded with the neighbor summaries of the
\* very blocks its model names: the summary read from the two-row cache at
\* aboveNeighborSummaryIndex is that of the block above, the one at
\* curNeighborSummaryIndex - 1 that of the block to the left, and both are
\* empty exactly when the model leaves that neighbor out.
SummaryMatchesNeighbor ==
  \A t \in Threads : \A i \in 1..Len(estr[t]) :
    LET nd == estr[t][i].nd IN nd.nAbove = nd.above /\ nd.nLeft = nd.left

\* After Encode, multiplexing, demultiplexing and DecodeLepton's thread loop,
\* each component image holds exactly the original blocks in dpos order:
\* every block's coefficients come back through the coefficient coder.
DecodedImage ==
  phase = "done" => \A c \in Cmps : dimg[c] = Original(c)

\* The coefficient coders of model.go (writeLengthSignCoef for 7x7 and DC,
\* WriteEdgeCoefficient) accept exactly the coefficients of at most 11 bits
\* and read back what they accept, decision for decision (CoefCodersInverse),
\* and writeCoefficientsBlock never refuses a block of the frame: the
\* encoder does not stop with ExitCodeCoefficientOutOfRange.
CoefCodersRoundTrip == CoefCodersInverse /\ phase # "failed"

\* advPredictOrUnpredictDC's unprediction inverts its prediction for every
\* DC of an 8-bit JPEG (DCWrapInverse), and every DC of the frame lies in
\* that range, where the wrap loses nothing.
DCWrapRoundTrip ==
  /\ DCWrapInverse
  /\ \A c \in Cmps : \A i \in 1..Bc(c) : Coefs[<<c, i - 1>>][0] \in DCRange

\* decodeBlock reads back every block writeCoefficientsBlock codes, in every
\* test neighborhood and colour model (BlockCoderInverse), and in particular
\* the block processRow is about to code, in the neighborhood the encoder
\* has gathered for it.
BlockRoundTrip ==
  /\ BlockCoderInverse
  /\ phase = "encode" /\ enc.row.on =>
       LET c == enc.row.cmp
           nb == [pt |-> PtOf(enc), nd |-> GetNeighborData(Original(c), enc.cache[c], PtOf(enc), enc.ctx)]
           blk == GetBlock(Original(c), enc.ctx.cur)
           w == WriteCoefficientsBlock(ColorIndex(c), blk, nb)
       IN w.ok => DecodeBlock(ColorIndex(c), w.s, nb) = [ok |-> TRUE, b |-> blk]

\* The round trip ends.
Terminates == <>(phase = "done")
====
