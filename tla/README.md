# TLA+ models of lepton_jpeg_go

This directory holds TLA+ models of the Go port of Lepton. Lepton is a
lossless JPEG recompressor: it parses a JPEG, codes its DCT coefficients with
an adaptive binary arithmetic coder, and on decode regenerates the original
JPEG byte for byte. Each module models one part of `src/` and is checked
with TLC. `PROJECT.json` maps every modelled definition to the source lines
it translates. It also lists the runs, the mutants that show each property
can fail, and the hazards of the code.

## 1. Inventory of the system

### Components, their state and operations

| Component | Source | State | Operations |
|---|---|---|---|
| Branch (adaptive probability) | `lepton/branch.go` 1-78 | packed `counts` uint16 (false count high byte, true count low byte) | `NewBranch`, `GetProbability`, `RecordAndUpdateBit` |
| VP8 bool writer | `lepton/vpx_bool_reader.go` 315-560 | `lowValue` (64-bit, marker bit), `rang` (8-bit), `buffer` | `NewVPXBoolWriter`, `put`, `carry`, `PutBit`, `PutGrid`, `PutNBits`, `PutUnaryEncoded`, `Finish`, `FlushNonFinalData` (unused) |
| VP8 bool reader | `lepton/vpx_bool_reader.go` 1-314 | `value` (64-bit window, guard marker), `rang`, upstream reader | `NewVPXBoolReader`, `get`, `GetBit`, `GetGrid`, `GetUnaryEncoded`, `GetNBits`, `vpxReaderFill` |
| JPEG bit writer | `lepton/branch.go` 79-213 | 64-bit accumulator, bit count, output bytes | `Write` (FF stuffing), `WriteByteUnescaped`, `Pad`, `flushWholeBytes`, `DetachBuffer`, `ResetFromOverhang` |
| JPEG bit reader | `unnamed/part_004` | register, bit count, `eof`, `truncatedFF`, restart counter `cpos`, byte offset | `Read`, `Peek`, `Advance`, `fillRegister` (FF 00 unstuffing), `ReadAndVerifyFillBits` (pad bit learning), `VerifyResetCode`, `Overhang`, `StreamPosition` |
| MCU / block position | `lepton/jpeg_position_state.go` | `mcu`, `cmp`, `csc`, `sub`, `dpos`, `rstw`, EOB run | `NewJpegPositionState`, `NextMcuPos`, `nextMcuPosNonInterleaved`, `ResetRstw`, `SkipEobrun`, `CheckOptimalEobrun` |
| JPEG parser and scan reader | `lepton/jpeg_read.go` | header, coefficient images, `lastDC`, partitions, `MaxDPos`, early EOF | `ReadJpegFile`, the segment parsers, `readBaselineScan`, the four progressive scan readers |
| JPEG writer | `unnamed/part_001` 1-1552 | bit writer, `lastDC`, restart counters, `maxScanBytes` | `WriteJpeg`, `writeBaselineJpeg`, `writeScanData*`, `encodeScan*Range`, trailing RST and early-EOF handling, the progressive writers |
| Lepton decode driver | `unnamed/part_001` 1555-1732 | partitions, demultiplexed streams | `DecodeLepton`, `newDemultiplexer`, `limitedWriter` |
| Lepton encode driver and container | `unnamed/part_002` | header sections, multiplexed blocks | `Encode`, `multiplexSingleThread`, `writeLeptonHeader`, `EncodeVerify` |
| Lepton row encoder / decoder | `unnamed/part_003`, `unnamed/part_007` | neighbor-summary cache, row index, per-partition coder | `EncodeRowRange`, `DecodeRowRange`, `getRowSpecFromIndex`, `processRow`, `decodeRow`, `writeCoefficientsBlock`, `encodeOneEdge`, `decodeBlock`, `decodeOneEdge`, `advPredictOrUnpredictDC` |
| Model and coefficient codecs | `lepton/model.go` | about 5e5 Branch cells | `ReadCoef`/`WriteCoef`, `readLengthSignCoef`, `ReadEdgeCoefficient`, the header readers |
| Coefficient images and contexts | `lepton/block_based_image.go`, `lepton/block_context.go` | block arrays, two-row neighbor cache | `AppendBlock`, `SetBlockByDpos`, `NewBlockContextForRow`, `Next`, `TruncateComponents` |
| Predictors, IDCT, quantisation | `unnamed/part_000`, `unnamed/part_008` | none (pure arithmetic) | IDCT, edge and DC predictors, `ProbabilityTables` |
| Errors and component info | `unnamed/part_005`, `unnamed/part_006` | none | constructors |
| verify CLI | `cmd/verify/main.go` | directory walk, counters | out of scope |

### How the components interact

Encoding works as follows:
- `ReadJpegFile` parses the JPEG and fills one coefficient image per component.
- While it reads a scan, the bit reader tracks `JpegPositionState` for the MCU order and the restart markers.
- The scan reader records a partition handoff per MCU row: byte position, overhang and `lastDC`.
- `LeptonEncoder` walks the rows in `getRowSpecFromIndex` order. For each block it looks up the neighbor context and codes the coefficients with the model's Branches through the `VPXBoolWriter`.
- `Encode` multiplexes the coder output into blocks, then writes the header and the trailer.

Decoding mirrors this:
- `DecodeLepton` demultiplexes the blocks and runs one `LeptonDecoder` (with a `VPXBoolReader`) per partition.
- `WriteJpeg` regenerates the scan with the JPEG bit writer.
- The writer walks the same MCU order as the reader and puts the restart markers back at the same points.
- It reproduces the pad bits, the trailing RST markers and the early-EOF truncation.

The encoder and decoder each keep their own copy of the model. The coder is correct only if the two copies evolve identically and the reader's refill keeps up with the writer's flushes.

### Behaviours that are hard to test

- **Carry propagation in the writer.** `put` flushes bytes when the top 7 bits of `lowValue` fill up. A later carry has to walk back over a run of flushed `0xFF` bytes. This needs a specific sequence of about ten coded bits with unlikely probabilities. In a search over 3 million random 8-bit sequences, one such sequence was found.
- **The reader's refill schedule.** `GetUnaryEncoded` refills only at iterations 0 and 7, and `GetGrid` only once. Each `get` moves the guard marker up to 7 bits. A refill point moved by one iteration would corrupt one rare decode.
- **Finish and EOF.** `Finish` writes only the bytes the final interval needs. The reader fills with zeros past the end of the stream.
- **Branch overflow.** A count of 255 plus one triggers normalisation. The `0xff01` case keeps the other side at 1.
- **JPEG bit IO:**
  - FF stuffing;
  - FF at EOF (`truncatedFF`);
  - pad-bit learning;
  - RST numbering `cpos & 7` in the reader against `restartMarkerIdx & 7` in the writer;
  - `StreamPosition` when the current byte was an escaped `FF 00`.
- **MCU order.** The reader's `NextMcuPos` names sampling factors in packJPG style, while the writer's `writeScanData` loop uses standard naming. The two must visit the same blocks in the same order.
- **Partitions.** Rows must be visited in `getRowSpecFromIndex` order. The neighbor cache is indexed by `y & 1`. Segments are truncated to `SegmentSize`, and intermediate RSTs are gated by `RestartCounts`.
- **Progressive EOB runs.** A run must not span a restart interval, and `CheckOptimalEobrun` must hold.
- **Refinement correction bits.** They are buffered by the writer and emitted after the next symbol, possibly blocks later, and the reader consumes them block by block; an off-by-one symbol moves a bit onto another coefficient.

### Properties per component

- **Branch:**
  - both counts stay in 1..255, so `GetProbability` is in 1..255;
  - the packed, rotating update implements the counter-pair reading of the code's comment (a refinement);
  - recording a bit never lowers that bit's probability by more than 1/256, and a probability driven to 255 by a long run stays there (the purpose of the `0xff01` case).
- **VP8 coder:**
  - roundtrip: every value the reader returns is the value written at the same position, including across flushes, carries through `0xFF` runs, `Finish` and EOF;
  - a carry never walks off the front of the buffer;
  - at 64 bits, every comparison of `get` is made with the guard marker below bit 56.
- **JPEG bit IO:**
  - roundtrip of `Write`/`Pad`/`WriteByteUnescaped` against `Read`/`ReadAndVerifyFillBits`/`VerifyResetCode`;
  - no unescaped `0xFF` reaches the output;
  - a file split into thread segments is regenerated segment by segment, from each handoff's overhang, into the original scan and its extra RSTs.
- **MCU position:** the reader and the writer produce the same block sequence, and RST markers fall at the same places with the same numbers.
- **Coefficient coder:** the decoder derives the writer's Branch for every decision of a block, so every block comes back; the value coders and the DC wrap are inverse.
- **Row iteration:** every row of every component is coded once, by one thread, with the summaries of its real neighbors, and the container rebuilds each thread's stream.

## 2. Plan

The modules are listed with the most important behaviour first.

1. `Branch` and `BranchCounts`. The adaptive counter, with an abstract counter-pair spec and a refinement. **Done.**
2. `VPXBoolCoder` with `MCVPXBoolCoder`. The writer and reader composed into a roundtrip, at reduced register widths. **Done.**
3. `VPXBoolReaderWindow`. The reader's refill schedule at the real 64-bit width, abstracted to the guard-marker position. **Done.**
4. `JpegScanIO`: the JPEG bit writer composed with the bit reader and the baseline scan loops: FF stuffing, pad bits, RST markers. **Done.**
5. `McuOrder`: `NextMcuPos` and the writer's block loops with restart intervals, composed so the block sequences and RST placement can be compared. **Done.**
6. `EobRun`: `SkipEobrun`, `CheckOptimalEobrun` and the progressive writer's EOB batching. **Done.**
   - also `BlockCodec`: the baseline Huffman tables and block coding on both sides. **Done.**
   - also `ACRefine`: progressive AC refinement scans, reader and writer, composed with `EobRun` behind `parseScan`'s dispatch. **Done.**
7. `LeptonRows`: `getRowSpecFromIndex`, the encoder's and decoder's row loops, the `y & 1` neighbor cache, and `multiplexSingleThread` against `newDemultiplexer`. **Done**, without the early-EOF truncation bounds.
8. `LeptonCoef`: `writeCoefficientsBlock` and `decodeBlock` with the model's coefficient coders, the context bins and `advPredictOrUnpredictDC`, composed into `LeptonRows`. **Done**, with the IDCT predictors as constant operators.
9. The partitioned path of the JPEG writer: per-partition segment truncation, the trailing and intermediate RST logic. **Done** in `JpegScanIO`, for `writeScanDataPartitioned`.

Abstract specifications worth stating:
- `BranchCounts`, done;
- a byte channel (whatever is written is read back) for the JPEG bit IO;
- a reference MCU order (a plain nested loop over MCUs and components) that both `NextMcuPos` and the writer loop refine.

## 3. Modules and runs

### Branch (`Branch.tla`, `BranchCounts.tla`, `MCBranch.cfg`)

`counts` is the packed uint16 counter, so the model's state is the Go state. The bit operations are written with their meaning on 16-bit words: a rotate by 8 swaps the bytes, and uint16 addition wraps modulo 2^16. `RecordAndUpdateBit(bit)` is the whole method.

`BranchCounts` states what the code's comment promises:
- the observed side is incremented;
- at 255 the pair is renormalised, to (129, (other+1)/2);
- a pair of (255, 1) stays where it is.

The refinement maps the high byte to the false count and the low byte to the true count.

Run `branch` explores every reachable counter value (65,025 states: all pairs in 1..255). It checks `ProbabilityInRange`, `ImplementsBranchCounts` and the action property `AdaptsTowardObservedBit`. The last one is not monotonicity: a normalisation halves the observed count with rounding, and at (255, 3) the probability of the bit just seen falls from 253 to 252. TLC confirms that no step loses more than one such step. Without the `0xff01` case (mutant `NewCountsNoSaturation`), the pair (255, 1) would fall to (129, 1), and the saturated probability 255 would drop to 254 on the very bit that had saturated it.

### VP8 coder roundtrip (`VPXBoolCoder.tla`, `MCVPXBoolCoder.tla`)

**Registers.** The writer is `[lowValue, rang, buffer, panicked]`; `panicked` records the Go runtime panic of `carry` indexing `buffer[-1]`. The reader is `[value, rang, pos]`. TLC's integers have 32 bits, so the register widths are constants: `W` = 24 for the writer (one byte flushed per flush) and `WD` = 30 for the reader. Every width-dependent constant of the code is written as a function of the width; the header comment of the module lists them. The arithmetic code, and so the byte stream, does not depend on the width. The reader's window of 30 bits leaves room for the 3 gets that `GetGrid` of 8 makes after its one fill. The real schedule at 64 bits is checked separately by `VPXBoolReaderWindow`.

**Actions.** Each writer operation (`PutBit`, `PutNBits`, `PutGrid`, `PutUnaryEncoded`) is one action. It codes all of its bits and logs the operation. `Finish` hands the buffer to the stream. `NewVPXBoolReader` starts the reader and reads the sentinel bit. Each reader operation is one action that decodes the next logged operation with the same probability.

**Probabilities.** A Branch's probability is a free choice from `Probs` = {1, 128, 255}. This is sound because the writer's and reader's models apply identical updates (see `Branch`).

**Runs:**
- `vpx_roundtrip`: up to 3 operations of every kind, from each writer of `StartOps` (1,286,513 states in about a minute). The first start is a fresh writer. There, carries happen, but none through an `0xFF` byte, because such a carry needs about ten coded bits. The second start is the writer after five bits with probabilities 41, 242, 95, 136 and 9 (`MCCarryPrefix`, found by random search). It has flushed a `0x13` byte and holds a low value just below a byte boundary. From there the run reaches a carry that zeroes a flushed `0xFF` byte; a mutant of `Carry` that leaves the `0xFF` in place breaks `RoundTrip` in that part of the run. The checks are `TypeOK`, `RoundTrip` and `NoCarryUnderflow`. `MaxOps` counts the operations after the start.

### Reader refill schedule (`VPXBoolReaderWindow.tla`)

The state is the guard-marker position, the top byte of the range, and the loop in progress. `GetBit` is one step. `GetNBits`, `GetGrid` and `GetUnaryEncoded` take one step per loop iteration, each with the fill the code performs at that iteration, so that the marker at every comparison is visible. The lengths used are those of `model.go`:
- unary 11 (`MaxExponent`);
- grids of 64 and 8;
- n-bit reads of 1, 3 and 10.

Run `vpx_window` checks `CompareWithinWindow`. The largest marker at a comparison is 49, reached in `GetUnaryEncoded` just before the refill at iteration 7. Moving that refill by one iteration would reach 56.

### Baseline scan roundtrip (`JpegScanIO.tla`)

**What a unit is.** A unit is what the scan loops step over: an MCU in an interleaved scan, a block in a single-component scan. Its Huffman data is abstracted to one value of `n` bits (`UnitChoices`: all zeros, one, all ones, for `n` in `UnitBits`). The reader reads it with `Read` calls of free sizes, as `decodeBlockSeq` does, and the writer writes it back with one `Write`. All-ones units make `0xFF` bytes, so stuffing is exercised.

**State.**
- The BitWriter record follows `branch.go`, with a register of `W` = 16 bits instead of 64.
- The BitReader record follows `part_004`, with `bits` kept modulo 2^`RegBits`.
- The input stream is the scan produced by a standard encoder (`OriginalScan`): units, pad bits to a byte, `FF D0+k` at each interval, `FF D9` after the scan.

**Actions.** `ReadBits`, `DecodeInProgress`, `RestartIntervalExpired` and `ScanCompleted` are the branches of `readBaselineScan`. `WriteUnit`, `WriteUnitAndRestart` and `WriteEnd` are the loop of `writeScanData` / `writeScanDataNonInterleaved`. `WritesRst` is the guard by which the two writers differ.

**The partitioned path.** `readBaselineScan` records a `JpegPartition` before the first unit of every MCU row (`Partition`, `RecordPartition`): the `Overhang` of the reader (bits already read of the current byte, and that byte masked) and where the row's segment of the original begins. Go's `Encode` writes one handoff, so only a file from a multi-threaded encoder takes `writeScanDataPartitioned`. `StartPartitioned` reads such a header:
- handoffs cut at any set of the recorded rows (`Handoffs`). Each handoff's `SegmentSize` is the length of its part of the original; the last also covers the extra RSTs after the scan;
- `RestartErrors[0]`, up to `MaxRstErr` extra RSTs. The original is followed by them, numbered on from the scan's own RSTs (`Expected`);
- `RestartCounts[0]` absent, or the number of RSTs the encoder counted (the scan's, or those plus some of the extras).

Where a segment begins (`SegmentStart`) is the one definition taken from the spec and not from `src/`: it is the byte holding the row's first bit, the `FF` of an `FF 00` pair. Go's own `StreamPosition` would not give it: it subtracts the buffered unread bytes from a count of consumed ones, and it points at the `00` of an escaped `FF`. Nothing in the Go code reads `Position`.

`BeginSegment` is the head of the handoff loop: `ResetFromOverhang`, the MCU range, and `encodeScanMcuRange`'s restart position of its first MCU (`McuRangeStart`). `PWriteUnit` and `PWriteUnitAndRestart` are that function's MCU loop, with `ShouldWriteRst`. `EndSegment` pads the last segment, detaches the buffer, notes the slack and cuts the buffer to `SegmentSize`. `WriteTrailingRst` writes the `RestartErrors` markers when the last segment left slack. The handoffs' `LastDC` is not modelled, because a unit carries no DC.

**Runs.**
- `jpeg_scan`: four units, intervals 0, 2 and 3, interleaved, one unit per MCU row. That is up to four segments, cut in mid-byte, inside `FF 00` pairs and at interval ends. It checks four properties (1.25 million states, about 30 s):
  - `RoundTrip`: the scan is accepted, its values are decoded, and the output equals the original;
  - `PeekNeverFull`;
  - `PartitionedRoundTrip`: for every split, CRS and at most one extra RST, the partitioned path writes exactly the original and its extra RST.
- `jpeg_scan_trailing_rst` (violation): the same with a single-component scan and interval 2. The writer appends `FF D1` after the last block.
- `jpeg_scan_final_pad` (violation): the original's final pad bits differ from those at its restart markers. The reader accepts the scan and the writer does not reproduce it.

### Block order (`McuOrder.tla`)

**The question.** The encoder's `parseSOFRead` names the high nibble of the sampling byte `Sfv`. The decoder's `parseSOF` (`model.go`) names it `Sfh`. The reader stores each block at the `dpos` that `NextMcuPos` computes with the first naming. The writer fetches blocks by `(blockX, blockY)` with the second. Does the decoder regenerate the blocks in the order the encoder read them?

**State.** The SOF bytes (components, H, V, width, height), the scan's component order and the restart interval are chosen in `Init`. The reader's `JpegPositionState` and the writer's loop counters are records with the code's field names. The reader runs to the end of the scan, then the writer. Each side records the sequence of `<<component, index>>` it stores or fetches, and where restart markers fall.

**Run `mcu_order`.** Up to three components, factors 1 and 2, widths 8, 24 and 40, heights 8 and 24, every interleaved or single scan, intervals 0, 1 and 3 (114,282 states, 12 s). These include 4:2:2, 4:4:0 and 4:2:0 frames, and widths that leave padding blocks. The run checks:
- `ReaderCoversScan`: every block of the scan is visited once, at its raster index;
- `SameBlockOrder`: the writer emits the same sequence;
- `SameRestartPoints`: restart markers fall after the same blocks, the trailing one of the first finding aside.

All three hold: the opposite names are used consistently on each side.

### Baseline block codec (`BlockCodec.tla`, `MCBlockCodec.tla`)

**The question.** The reader decodes each baseline block with the tables `parseDHTRead` builds (`BuildDerivedTable`: `MaxCode`, `ValPtr`) and the bit-by-bit path of `nextHuffCode`. It then rejects a block the writer could not regenerate (the eob check) and undoes DC prediction with 16-bit wrap. The writer builds its own code table with `buildEncodeTable` and writes the blocks with `writeBlock`, `encodeDC` and `encodeAC`. Does a standard coding come back bit for bit?

**State.** The DHT code-length profiles, two decoded tables and two encode tables, the blocks, and the original bits written by a reference encoder. The reference encoder uses its own definitions: code lengths by a Kraft-sum formulation and the JPEG run-length rule (ZRL for 16 zeros, EOB unless the last coefficient is non-zero). The reader takes one step per Huffman symbol (`ReadDC`, `ReadACCoef`) and one per block (`StoreBlock`). The writer takes one step per block (`WriteBlock`).

**Run `block_codec`.** DC profiles over 3 symbols with codes of up to 3 bits and AC profiles over 6 symbols with codes of up to 4 bits. The profiles include lengths with no codes between used lengths. The run uses two blocks from a set that covers EOB, ZRL, run 15, a final non-zero coefficient, categories 1 and 2 and negative DCs (327,600 states, about 40 s). `RoundTrip` holds: nothing standard is rejected, the decoded blocks equal the originals, and the writer's bits equal the original bits.

### Progressive EOB runs (`EobRun.tla`, `MCEobRun.tla`)

**The question.** In a progressive AC-first scan, blocks that end in zeros are grouped into EOB runs. The reader (`readProgressiveACFirst`) decodes a block, checks its run with `CheckOptimalEobrun` against `getMaxEobRun`, skips the run's other blocks with `SkipEobrun`, and moves on with `nextMcuPosNonInterleaved`. The writer (`writeProgressiveScanNonInterleaved` with `encodeACFirst` and `encodeEOBRun`) rebuilds the runs itself. It counts blocks that end in zeros and flushes the run in four places: before coefficients, at `maxEOBRun`, at a restart and at the end. Does it rebuild the runs of the original?

**State.** A block is reduced to its shape in the band: empty, coefficients then zeros, or coefficients up to `CsTo`. The stream is reduced to tokens: coefficients, `EOBn` with the run length, and restart markers. The grid (`Bch`, `Nch`, `Bcv`, `Ncv`) and the interval are chosen in `Init`. The original encoder is the environment. It ends runs where libjpeg does; when `FreeSplit` is TRUE it may also end a run anywhere, which JPEG allows. Its optimized table holds the `EOBn` symbols it used, and possibly more. The reader takes one step per iteration of its inner loop plus one per restart. The writer takes one step per padded position, plus a final flush.

**Runs:**
- `eob_run` (spec `ProgSpec` of `ACRefine`, which starts either kind of scan): AC-first scans on grids 2x2, 3x2 and 4x2 (padding columns) and 2x3 (a padding row), with intervals 0 to 4, every mix of shapes, and tables with `EOB0` to `EOB2`; and the refinement scans of `ACRefine` below (1,139,251 states, 45 s). `ScanTypeOK` is the type invariant of both kinds. The grids whose last natural block is followed by padding take only intervals that do not divide their block count; the trailing marker is the last finding. The checks are:
  - `ReaderRecoversBlocks`: every shape lands at its block and padding stays empty, split runs included;
  - `RoundTrip`: a scan with libjpeg's runs is accepted and regenerated token for token.
- `eob_nonoptimal` (violation): `Reproduced` fails. The original has a run of 1 followed by a run of 3, and the table has `EOB0` and `EOB1`. The reader accepts it, and the writer merges the two runs.
- `eob_trailing_rst` (violation): `RoundTrip` fails on a 2x3 grid with two natural rows and interval 4. The writer writes a marker after the last block.

### Progressive AC refinement (`ACRefine.tla`, `MCEobRun.tla`)

**The question.** A refinement scan (successive approximation, `CsSah > 0`) sends one more bit of every coefficient in the band. A coefficient the earlier scan left at zero that becomes 1 or -1 is a run/level symbol with a sign bit; one that was already nonzero gets a bare correction bit. The writer (`encodeACRefine`) buffers the correction bits and emits them only after the next symbol it writes: a run/level, a ZRL (16 zeros), or the `EOBn` that ends the run the block joined, possibly blocks later, at a restart or at the end of the scan. The reader (`readProgressiveACRefine`) visits every block, run or not. `decodeACProgressiveRefineTmp` reads the correction bits inside each symbol's loop, and `decodeEobrunRefineTemp` reads them for the blocks of a run. Do the bits land on the coefficients they belong to, and does the writer put them back in the same places?

**State.** `ACRefine` extends `EobRun` and reuses its grid, table, reader position (`rd`, with the pending `eobrun`), writer counters, `nextMcuPosNonInterleaved`, `CheckOptimalEobrun`, `ResetRstw` and `encodeEOBRun`. A block is its band of values at the refined bit, taken from `CoefVals`, and the reader starts from what the earlier scan stored (`Hist`). The stream is tokens: `COEF` (run and sign bit), `ZRL`, `BIT`, `EOB` and `RST`. `MaxRun` stands for the 15 of the run nibble, so that a ZRL fits in a band of 3 (`MaxRun = 1`). The original encoder is libjpeg's `encode_mcu_AC_refine`, which emits a ZRL lazily at the next nonzero coefficient and lets a block join the run when zeros or bits are left. This is an independent coding of the same scan. `parseScan`'s dispatch is `ProgInit`: either a first scan of `EobRun` or a refinement scan.

**Checks in `eob_run`:** three-block scans with a two-coefficient band, one with interval 2 and one with a padding column, and a two-block scan with a three-coefficient band. The values are 0, 1, 2 and -3. These give new coefficients, and earlier ones of both signs with correction bits 0 and 1.
  - `RefineReaderRecovers`: every refined coefficient equals the original, padding stays zero, and the reader consumes the whole stream;
  - `RefineRoundTrip`: a scan with libjpeg's runs is accepted and regenerated symbol for symbol and bit for bit.

  Mutants: `CorrectUnsigned` drops the sign of a correction, and `EncodeACRefineRunWithoutBits` flushes a run before a block's coefficients without its bits. Each one breaks its property.

### Coefficient coder (`LeptonCoef.tla`)

**The question.** `writeCoefficientsBlock` and `encodeOneEdge` (`part_003`) code a block as a sequence of binary decisions, each with a Branch the model (`model.go`) selects from a context: the 7x7 count, the bins that fall as nonzeros are coded, the best prior of the neighbors, the eob estimates, the edge count, the noise threshold of the edge position, the DC uncertainties. `decodeBlock` and `decodeOneEdge` (`part_007`) must derive the same context before every decision from what they have read so far. Do they, for every block and neighborhood, and are the value coders and the DC wrap inverse?

**State and abstraction.** A coded block is a sequence of `[br, bit]`: the bit and the name of its Branch (the indices the model selects it by, such as `<<m, "exp7x7", bin, zig49, bpl>>`). `VPXBoolCoder` shows that the bool coder returns a bit sequence when the reader uses the same Branches in the same order, so a reader here is `[s, p, ok]`: it gets the writer's bit when its Branch is the writer's, and is out of step (`ok = FALSE`) from the first bit read with another Branch or past the end. `GetBit`, `GetUnaryEncoded`, `GetNBits` and `GetGrid` follow `vpx_bool_reader.go`'s loops; `PutUnaryEncoded`, `PutNBits` and `PutGrid` the writer's. The coders keep every guard, early return and error of the code: the coefficient-out-of-range errors, `numNonZeros7x7 > 49`, "not enough nonzeros", "edge decode incomplete". The raster the predictors see holds the coefficients; the code's scaling by the quantiser is the same on both sides and is left out. The IDCT-based predictors (`PredictCurrentEdges` with `CalcCoefficientContext8Lak`'s division, and `AdvPredictDCPix`'s arithmetic) are the constant operators `EdgePredictor` and `DCPredictor`, deterministic functions of the neighbors and the raster; their neighbor-presence branches are modelled.

The coders' loops pass intermediate values through `With(e, F)`, which evaluates `e` once and applies `F` to the value. It changes nothing in the meaning; TLC does not cache operator arguments when it evaluates `ENABLED` for the fairness of `lepton_rows`, and without it the nested coders are re-evaluated exponentially often. The 49-step zig49 loop is iterated in halves (`Loop`) to keep the evaluation shallow.

**Properties**, checked in the `lepton_rows` run:
- `CoefCodersRoundTrip`: `writeLengthSignCoef` (7x7 and DC) and `WriteEdgeCoefficient` accept exactly the coefficients of at most 11 bits, including `abs16(-32768)`, and what they accept is read back using every decision and no more. Edge coefficients are checked at every edge position's noise threshold, for counts 1 and 7 and priors whose `int16` sign flips or whose bit length saturates. This covers the writer's capped `encodedSoFar` against the reader's `min(coef, 127)`.
- `DCWrapRoundTrip`: for every DC of an 8-bit JPEG (-1024..1024) and predictions inside and far outside that range, unprediction inverts the wrapped residual whenever `WriteDC` accepts it.
- `BlockRoundTrip`: `decodeBlock` returns every block `writeCoefficientsBlock` codes, for five blocks (empty, a full 7x7 so the bins fall one by one, only the last zigzag position, full edges with 11-bit lanes, an out-of-range coefficient), four neighbor models times five neighbor blocks, and both colour models; and, in every state of the composed run, the block the encoder is at, in the neighborhood it has gathered for it. (`CoefCodersRoundTrip` and `DCWrapRoundTrip` likewise add a condition on the run's state: the encoder never fails, and every DC of the image lies in the 8-bit range.)

**Mutants.** The range check `>=` instead of `>`; the DC wrapped by `2 * 1024` instead of `2 * 1024 + 1`; the decoder's bin never recomputed after a nonzero. TLC finds each one.

### Row order, neighbor cache and container (`LeptonRows.tla`, `MCLeptonRows.tla`)

**The question.** The encoder (`EncodeRowRange`, `processRow` in `part_003`) and the decoder (`DecodeRowRange`, `decodeRow` in `part_007`) must visit the rows of all components in the same order (`getRowSpecFromIndex`), code each block with the same neighbors, and the container must carry each thread's stream intact. Do they?

**State.** A block is its 64 coefficients, `Coefs` of its identity `<<c, dpos>>`; a neighbor summary is the block it summarises. `EncBlock` codes the block with `LeptonCoef`'s `writeCoefficientsBlock` in the neighborhood the encoder gathers (`GetNeighborData`: above-left, above, left and the two summaries, with the model's presence flags), and the stream element holds the decisions. `DecBlock` runs `decodeBlock` on them in the neighborhood the decoder gathers from its own image; a block it cannot read back is `Garbage`. The coefficients (`MCCoefs`) differ in every block: a DC that crosses the wrap with the prediction, an 11-bit 7x7 coefficient in luma, a 7x7 coefficient whose zigzag position moves, and one lane of each edge. The predictors depend on the raster and on the neighbors, so a wrong neighborhood changes the Branches. Each walker (`enc`, `dec`) holds `decodeIndex`, `isTopRow`, the two-row summary cache and the `BlockContext`. The container is a sequence of framing bytes and tokens. When the demultiplexer reads a token as a byte (only possible when the framing is wrong), the byte may be any of the classes the loop tells apart.

**Actions.**
- Encoder: `EncRow` (one pass of the row loop), `EncBlock` (one block of `processRow`), `EncEnd` (the end of a handoff).
- Multiplexer: `MuxChunk`, `MuxEnd`.
- Demultiplexer: `DemuxChunk` (one header and chunk), `DemuxEnd`.
- Decoder: `DecRow`, `DecBlock` (with `AppendBlock` and the `componentSizeInBlocks` cutoff), `DecEnd` (`DecodeLepton`'s thread loop).

Go's `Encode` writes one handoff. A file with two handoffs, as other Lepton encoders write, is built by running `EncodeRowRange` per handoff and interleaving the partitions' chunks.

**Bounds.**
- Frames: 4:2:0 (2x4 luma blocks, 1x2 of each chroma, two MCU rows) and grayscale (2x3 blocks). Frames are built with `FrameOf` from the sampling factors, as `ReadLeptonHeader` does.
- Handoffs: `<<0>>` and `<<0, 2>>`.
- `MaxBlock = LenMod = 4` stands in for 65536 = 2^16, and `ByteMod = 2` for 256. The 12-block stream therefore needs three chunks, and a chunk one element too long wraps its length to 1, just as 65537 would.

**Run `lepton_rows`** (367 states, about 10 s). It checks the three `LeptonCoef` properties above and four of its own:
- `TypeOK`: no image ever holds more than `Bc` blocks, so no row is decoded twice.
- `SummaryMatchesNeighbor`: the summaries read from the cache are those of the blocks above and to the left, or both are empty when the model leaves them out.
- `DecodedImage`: after decoding, every image equals the original.
- `Terminates`: the round trip ends.

The mutants:
- a row loop without the `lumaYEnd` break;
- `Next` without `aboveNeighborSummaryIndex++`;
- chunks of 65537;
- a skipped row that does not advance `decodeIndex`.

TLC finds each one. The run also checks the `LeptonCoef` mutants.

**Mutants.** A `fillRegister` that stops one bit short (`TypeOK`) or loads a byte ahead (`PeekNeverFull`); `writeFFEncoded` without the `00` (`RoundTrip`); `ResetFromOverhang` that drops the overhang bits (`PartitionedRoundTrip`). TLC finds each one.

### Findings

1. **Trailing restart marker (code bug).** `writeScanDataNonInterleaved` (`part_001:531`) writes `FF RSTn` after the interval that ends with the last block. A grayscale JPEG whose block count is a multiple of its restart interval decodes with two extra bytes.
2. **Final pad (divergence).** `readBaselineScan` (`jpeg_read.go:486`) does not check the final fill bits once the pad bit is known. Such a file is accepted and not reproduced.
3. **Peek fast path dead (divergence).** `BitReader.Read` never leaves 8 bits buffered, so `nextHuffCode`'s 8-bit table is never used. Decoding stays correct.
4. **Non-optimal EOB runs accepted (divergence).** `CheckOptimalEobrun` (`jpeg_position_state.go:243`) rejects a run followed by another only when the first run is between 2 and `2^k - 1`. The writer batches up to `2^(k+1) - 1`. A run of 1, or of `2^k` to `2^(k+1) - 2`, followed by another run is accepted and then merged. libjpeg files are not affected.
5. **Trailing restart marker in progressive scans (code bug).** `writeProgressiveScanNonInterleaved` (`part_001:1166`) writes `FF RSTn` after the last interval unless `dpos` is the last padded position. A component with padding after its last block, and a block count that is a multiple of the interval, decodes with two extra bytes.

6. **DC outside the 8-bit range (hazard, no run).** `readBaselineScan` (`jpeg_read.go:461`) sums DC differences into an `int16` without a range check, so a syntactically valid scan can hold a DC outside -1024..1024. `advPredictOrUnpredictDC` wraps its residual into a value `WriteDC` accepts, and the decoder unwraps it to another DC: 1500 with prediction 0 is written as -549 and decoded as -549. `DCWrapRoundTrip` holds over the 8-bit range and fails when `DCRange` is widened to 1500. No violation run states it, because the run slots are used.

7. **Extra RSTs written twice on the partitioned path (hazard, no run).** Take a file from a multi-threaded encoder whose last restart interval ends at its last MCU. Suppose `RestartCounts` is absent, or counts an extra RST. Then `encodeScanMcuRange` writes one extra RST in-band after the last MCU. `writeBaselineJpeg` (`part_001:191`) skips the `RestartErrors` markers only when the last segment's slack is exactly 0. With two extra RSTs the slack is 2, so both are written again. Two extra markers `FF D1 FF D2` come out as `FF D1 FF D1 FF D2`. `PartitionedRoundTrip` holds with `MaxRstErr = 1`. With `MaxRstErr = 2`, TLC finds this trace in `jpeg_scan`. No violation run states it, because the run slots are used. It depends on how the other encoder fills `RestartCounts` and `SegmentSize`, which is outside this repository.

8. **One-coefficient refinement bands rejected (hazard, no run).** `decodeACProgressiveRefineTmp` (`jpeg_read.go:1225`) returns `eob = csTo` when a block has no EOB symbol. With `CsFrom = CsTo`, which `parseScan` accepts, a block with a new coefficient then looks empty to `CheckOptimalEobrun`. Suppose a refinement EOB run of 2 to `getMaxEobRun - 1` blocks comes before it; with the standard tables, which hold every `EOBn`, that is any run up to 16383. Then the file is rejected as non-optimal, although libjpeg writes such files. `decodeACProgressiveFirst` returns the position after the last coefficient and is not affected. `RefineRoundTrip` fails when `MCRefScans` is given a 4-block scan with a band of 1: blocks -3, -3 and 1, with `EOB2` in the table. The pass run's bands have 2 and 3 coefficients. No violation run states it, because the run slots are used.

## 4. Fairness

Only `lepton_rows` states liveness (`Terminates`). Its spec has weak fairness on `Next`, which the code justifies: `Encode` and `DecodeLepton` are sequential loops with no waiting, so a step that is enabled is taken. The other models are single-threaded too. The scan loops end, which is why `jpeg_scan`, `mcu_order`, `block_codec`, `eob_run` and `lepton_rows` do not check deadlock and every operation is a call the caller decides to make, so there is no fairness the code guarantees.

## 5. Not modelled (yet), and why

- **The IDCT and the predictors' arithmetic** (`runIDCTForPrediction`, `PredictCurrentEdges`, `PredictNextEdges`, `AdvPredictDCPix`'s averages). These are pure integer arithmetic on 64-coefficient blocks, far beyond TLC's reach at any useful size; `LeptonCoef` takes them as constant operators of the neighbors and the raster. The quantiser scaling of the raster and `CalcCoefficientContext8Lak`'s division-by-zero error for a zero quantiser are left out with them.
- **The Branch probabilities inside the coefficient coder.** `LeptonCoef` names each Branch; the adaptation of its probability (`Branch`) and the arithmetic coder (`VPXBoolCoder`) are checked on their own and not composed with it, which would multiply the state by the cells' counts.
- **The JPEG header segment parsers, the Lepton header sections and zlib.** These are byte-format parsing with no interleaving or numeric edge beyond bounds checks.
- **`FlushNonFinalData`.** It is never called.
- **Early-EOF truncation** (`SetTruncationBounds`, the decoder's `earlyEof` path). The Go encoder never writes the early-EOF section, so only files from other encoders reach it; `LeptonRows` takes the bounds of `TruncateComponents.Init`.
- **`writeScanDataPartitionedNonInterleaved`** (`encodeScanDposRange`). It is the loop of `encodeScanMcuRange` over blocks, skipping padding blocks, with the same RST and truncation logic. It is not separately modelled. The single-handoff `SegmentSize` cap of the unpartitioned path, and its unconditional `RestartErrors` markers, are not modelled either: Go's `Encode` writes neither `SegmentSize` nor `FRS`.
- **Progressive DC scans and the interleaved progressive writer** (`readProgressiveDCRefine`, `encodeDCFirst`, `encodeDCRefine`, `writeProgressiveScanInterleaved`). DC refinement is one raw bit per block, with no runs or buffering. The DC-first coding is the DC-difference path already checked in `BlockCodec`. The interleaved loop's MCU order is that of `writeScanData`, checked in `McuOrder`.
- **libjpeg's limits in refinement scans.** libjpeg ends runs at 32767 blocks and at a full correction-bit buffer (937 bits). Both are out of reach at these bounds. Lepton's writer has neither limit, because its `correctionBits` slice grows without bound. A run that libjpeg ends at the bit-buffer limit is therefore a split run. `FreeSplit` covers it: `CheckOptimalEobrun` then rejects the file, or accepts it and the writer merges the runs (finding 4).
- **The verify CLI.** It is out of scope.
