------------------------------ MODULE LeptonCoef ------------------------------
(***************************************************************************)
(* The Lepton coefficient coder: how one 8x8 block becomes a sequence of   *)
(* binary decisions of the VP8 bool coder and back.                        *)
(*                                                                         *)
(* Encoder: writeCoefficientsBlock and encodeOneEdge (src/unnamed/         *)
(* part_003) with the ModelPerColor coders of src/lepton/model.go.         *)
(* Decoder: decodeBlock and decodeOneEdge (src/unnamed/part_007).          *)
(*                                                                         *)
(* A coded block is the sequence of the bits the coder is given, each with *)
(* the Branch it is coded with, named by the indices the model selects it  *)
(* by.  VPXBoolCoder shows that a bit sequence comes back when the reader  *)
(* uses the same branches in the same order; here the reader gets the bit *)
(* when its branch is the writer's, and is out of step (ok = FALSE) from   *)
(* the first bit it reads with another branch or past the end.             *)
(*                                                                         *)
(* The IDCT-based predictors (PredictCurrentEdges with CalcCoefficient-    *)
(* Context8Lak's division, and AdvPredictDCPix's arithmetic) are the       *)
(* constant operators EdgePredictor and DCPredictor: deterministic         *)
(* functions of the neighbors and the raster the coder hands them.  The    *)
(* raster holds the coefficients; the code's scaling by the quantiser is  *)
(* the same on both sides and is left out.                                 *)
(***************************************************************************)
EXTENDS Integers, Sequences, FiniteSets

CONSTANTS
  EdgeQ,               \* QTable at the 14 edge positions, by zig15offset
  EdgePredictor(_, _, _), \* pred[idx] / (q << 13) for neighbors, raster, coordTR
  DCPredictor(_, _)    \* [predicted, uncertainty, uncertainty2] of AdvPredictDCPix

MaxExponent == 11
ResidualNoiseFloor == 7
ThreshBuckets == 128   \* residualThresholdCountsD3 = 1 << ResidualNoiseFloor

FreqMax == <<931, 985, 968, 1020, 968, 1020, 1020, 932, 985, 967, 1020, 969, 1020, 1020>>

NonZeroToBin == <<0, 1, 2, 3, 4, 4, 5, 5, 5, 6, 6, 6, 6, 7, 7, 7, 7, 7, 7, 7, 7, 8, 8, 8, 8, 8>>

NonZeroToBin7x7 ==
  <<0, 0, 1, 2, 3, 3, 4, 4, 4, 5, 5, 5, 5, 6, 6, 6, 6, 6, 6, 6, 6, 7, 7, 7, 7, 7,
    7, 7, 7, 7, 7, 7, 8, 8, 8, 8, 8, 8, 8, 8, 8, 8, 8, 8, 8, 8, 8, 8, 8, 8>>

\* Unzigzag49TR: the transposed coordinate (col * 8 + row) of each zig49.
Unzigzag49TR ==
  <<9, 17, 10, 11, 18, 25, 33, 26, 19, 12, 13, 20, 27, 34, 41, 49,
    42, 35, 28, 21, 14, 15, 22, 29, 36, 43, 50, 57, 58, 51, 44, 37,
    30, 23, 31, 38, 45, 52, 59, 60, 53, 46, 39, 47, 54, 61, 62, 55, 63>>

MinI(a, b) == IF a < b THEN a ELSE b
MaxI(a, b) == IF a > b THEN a ELSE b

\* int16(x): two's complement truncation.
Int16(x) == ((x + 32768) % 65536) - 32768

\* abs16: uint16(-x), so -32768 gives 32768.
Abs16(x) == IF x < 0 THEN Int16(-x) % 65536 ELSE x
Abs32(x) == IF x < 0 THEN -x ELSE x

\* With(e, F): F of the value of e.  The coders pass their readers, results and
\* computed arguments through it, so that e is evaluated once however often F uses it
\* (TLC does not cache an operator's arguments when it evaluates ENABLED).
With(e, F(_)) == CHOOSE v \in {F(y) : y \in {e}} : TRUE

\* u16BitLength and u32BitLength: the width minus the leading zeros.
RECURSIVE BitLength(_)
BitLength(v) == With(v, LAMBDA u : IF u = 0 THEN 0 ELSE 1 + BitLength(u \div 2))

BitOf(x, i) == (x \div 2^i) % 2 = 1

CalcSignIndex(val) == IF val = 0 THEN 0 ELSE IF val > 0 THEN 1 ELSE 2

\* QuantizationTables' MinNoiseThreshold of edge position i (0..13).
MinNoiseThreshold(i) ==
  LET q == EdgeQ[i]
      freqMax == IF q # 0 THEN (FreqMax[i + 1] + q - 1) \div q ELSE FreqMax[i + 1] - 1
      maxLen == BitLength(freqMax)
  IN IF q < 9 /\ maxLen > ResidualNoiseFloor THEN maxLen - ResidualNoiseFloor ELSE 0

(***************************************************************************)
(* The coder operations at the level of decisions.  A writer yields a      *)
(* sequence of [br, bit]; a reader state is [s, p, ok], the decisions, the *)
(* next one to read and whether the reader is still in step.               *)
(***************************************************************************)
Bit(br, b) == [br |-> br, bit |-> b]

\* PutUnaryEncoded: bit (v # i) with branch i, up to the first 0; v = A is
\* A ones without a terminator.  It panics when v > A.
PutUnaryEncoded(v, a, br) ==
  [k \in 1..(IF v < a THEN v + 1 ELSE a) |-> Bit(<<br, k - 1>>, v # k - 1)]

\* PutNBits: bit i of the value with branch i, from the top bit down.
PutNBits(bits, n, br) == [k \in 1..n |-> Bit(<<br, n - k>>, BitOf(bits, n - k))]

\* PutGrid over 2^nb branches: the tree node serializedSoFar, MSB first.
PutGrid(v, nb, br) ==
  [k \in 1..nb |-> Bit(<<br, 2^(k - 1) + (v % 2^nb) \div 2^(nb - k + 1)>>, BitOf(v, nb - k))]

Reader(s) == [s |-> s, p |-> 1, ok |-> TRUE]

\* GetBit with branch br.
GetBit(r, br) ==
  LET good == r.ok /\ r.p <= Len(r.s) /\ r.s[r.p].br = br
  IN [r |-> [r EXCEPT !.p = @ + 1, !.ok = good], v |-> good /\ r.s[r.p].bit]

GetUnaryEncoded(r, a, br) ==
  LET RECURSIVE U(_, _)
      U(rd, value) ==
        IF value = a THEN [r |-> rd, v |-> a]
        ELSE With(GetBit(rd, <<br, value>>),
                  LAMBDA g : IF g.v THEN U(g.r, value + 1) ELSE [r |-> g.r, v |-> value])
  IN U(r, 0)

GetNBits(r, n, br) ==
  LET RECURSIVE N(_, _, _)
      N(rd, i, coef) ==
        IF i < 0 THEN [r |-> rd, v |-> coef]
        ELSE With(GetBit(rd, <<br, i>>),
                  LAMBDA g : N(g.r, i - 1, IF g.v THEN coef + 2^i ELSE coef))
  IN N(r, n - 1, 0)

GetGrid(r, nb, br) ==
  LET RECURSIVE G(_, _, _)
      G(rd, i, soFar) ==
        IF i = nb THEN [r |-> rd, v |-> soFar - 2^nb]
        ELSE With(GetBit(rd, <<br, soFar>>),
                  LAMBDA g : G(g.r, i + 1, 2 * soFar + (IF g.v THEN 1 ELSE 0)))
  IN G(r, 0, 1)

(***************************************************************************)
(* model.go: the coefficient coders.  m is the ModelPerColor (the colour  *)
(* index); a writer yields [ok, s], FALSE for the coefficient-out-of-range *)
(* errors and for PutUnaryEncoded's panic.                                 *)
(***************************************************************************)
Ok(s) == [ok |-> TRUE, s |-> s]
Fail == [ok |-> FALSE, s |-> << >>]

\* Mutant of CoefOutOfRange: an off-by-one that refuses the widest
\* coefficients.
CoefOutOfRangeAtMax(coefBitLen, a) == coefBitLen >= a

\* The range check of writeLengthSignCoef: the bit length exceeds the
\* magnitude branches.
CoefOutOfRange(coefBitLen, a) == coefBitLen > a

WriteLengthSignCoef(coef, a, expBr, signBr, bitsBr) ==
  LET absCoef == Abs16(coef)
      coefBitLen == BitLength(absCoef)
  IN IF CoefOutOfRange(coefBitLen, a) THEN Fail
     ELSE IF coefBitLen > a THEN Fail   \* PutUnaryEncoded panics
     ELSE Ok(PutUnaryEncoded(coefBitLen, a, expBr)
             \o (IF coef # 0 THEN << Bit(signBr, coef > 0) >> ELSE << >>)
             \o (IF coefBitLen > 1 THEN PutNBits(absCoef, coefBitLen - 1, bitsBr) ELSE << >>))

ReadLengthSignCoef(r, a, expBr, signBr, bitsBr) ==
  With(GetUnaryEncoded(r, a, expBr), LAMBDA u :
    IF u.v = 0 THEN [r |-> u.r, v |-> 0]
    ELSE LET sg == GetBit(u.r, signBr)
         IN With(IF u.v > 1 THEN GetNBits(sg.r, u.v - 1, bitsBr) ELSE [r |-> sg.r, v |-> 0],
                 LAMBDA nb : LET coef == Int16(nb.v + 2^(u.v - 1))
                             IN [r |-> nb.r, v |-> IF ~sg.v THEN -coef ELSE coef]))

\* getCoefBranches: Counts[bin][zig49].ExponentCounts[bestPriorBitLen],
\* SignCounts[0][0] and Counts[bin][zig49].ResidualNoiseCounts.
CoefBranches(m, bin, zig49, bpl) ==
  [exp |-> <<m, "exp7x7", bin, zig49, bpl>>, sign |-> <<m, "sign", 0, 0>>,
   bits |-> <<m, "res7x7", bin, zig49>>]

WriteCoef(m, coef, zig49, bin, bpl) ==
  LET b == CoefBranches(m, bin, zig49, bpl)
  IN WriteLengthSignCoef(coef, MaxExponent, b.exp, b.sign, b.bits)

ReadCoef(r, m, zig49, bin, bpl) ==
  LET b == CoefBranches(m, bin, zig49, bpl)
  IN ReadLengthSignCoef(r, MaxExponent, b.exp, b.sign, b.bits)

\* getDCBranches: CountsDC (shared by the colours) by the clamped bit length
\* of |uncertainty| and the bit length of |uncertainty2|; the sign by the
\* sign of uncertainty2, past SignCounts[0][0].
DCBranches(m, unc, unc2) ==
  LET lenAbsMxmClamp == MinI(BitLength(Abs16(unc)), 11)
  IN [exp |-> <<"expDC", lenAbsMxmClamp, BitLength(Abs16(unc2))>>,
      sign |-> <<m, "sign", 0, CalcSignIndex(unc2) + 1>>,
      bits |-> <<"resDC", lenAbsMxmClamp>>]

WriteDC(m, coef, unc, unc2) ==
  LET b == DCBranches(m, unc, unc2)
  IN WriteLengthSignCoef(coef, MaxExponent, b.exp, b.sign, b.bits)

ReadDC(r, m, unc, unc2) ==
  LET b == DCBranches(m, unc, unc2)
  IN ReadLengthSignCoef(r, MaxExponent, b.exp, b.sign, b.bits)

\* getResidualThresholdCounts: ResidualThresholdCounts[idx1][idx2].
GetResidualThresholdCounts(m, bestPriorAbs, minThreshold, length) ==
  <<m, "thresh", MinI((bestPriorAbs % 65536) \div 2^minThreshold, 255),
   MinI(length - minThreshold - 2, 5)>>

\* The branches of an edge coefficient: the bit length of |bestPrior| is
\* capped at MaxExponent - 1, the sign bucket comes from int16(bestPrior).
EdgeBranches(m, zig15offset, numNonZerosEdge, bestPrior) ==
  LET bin == numNonZerosEdge - 1
      bpl == MinI(MaxExponent - 1, BitLength(Abs32(bestPrior)))
  IN [exp |-> <<m, "expEdge", bin, zig15offset, bpl>>,
      sign |-> <<m, "sign", CalcSignIndex(Int16(bestPrior)), bpl>>,
      res |-> <<m, "resEdge", bin, zig15offset>>]

\* The bucket after one more threshold bit: encodedSoFar and decodedSoFar
\* stay below len(threshProb).
WriteSoFar(soFar, curBit) == MinI(2 * soFar + (IF curBit THEN 1 ELSE 0), ThreshBuckets - 1)
ReadSoFar(coef) == MinI(coef, ThreshBuckets - 1)

\* i after the threshold loop, which runs from length - 2 down to
\* minThreshold when it starts at or above it.
AfterThreshold(length, minThreshold) == MinI(length - 2, minThreshold - 1)

WriteEdgeCoefficient(m, coef, zig15offset, numNonZerosEdge, bestPrior) ==
  With(MinNoiseThreshold(zig15offset), LAMBDA minThreshold :
  With(EdgeBranches(m, zig15offset, numNonZerosEdge, bestPrior), LAMBDA b :
  LET absCoef == Abs16(coef)
      length == BitLength(absCoef)
      thresh == GetResidualThresholdCounts(m, Abs32(bestPrior), minThreshold, length)
      RECURSIVE T(_, _)
      T(i, soFar) ==
        IF i < minThreshold THEN << >>
        ELSE << Bit(<<thresh, soFar>>, BitOf(absCoef, i)) >>
             \o T(i - 1, WriteSoFar(soFar, BitOf(absCoef, i)))
      i == AfterThreshold(length, minThreshold)
  IN IF length > MaxExponent THEN Fail
     ELSE Ok(PutUnaryEncoded(length, MaxExponent, b.exp)
             \o (IF coef = 0 THEN << >>
                 ELSE << Bit(b.sign, coef >= 0) >>
                      \o (IF length > 1
                          THEN T(length - 2, 1)
                               \o (IF i >= 0 THEN PutNBits(absCoef, i + 1, b.res) ELSE << >>)
                          ELSE << >>)))))

ReadEdgeCoefficient(r, m, zig15offset, numNonZerosEdge, bestPrior) ==
  With(MinNoiseThreshold(zig15offset), LAMBDA minThreshold :
  With(EdgeBranches(m, zig15offset, numNonZerosEdge, bestPrior), LAMBDA b :
     With(GetUnaryEncoded(r, MaxExponent, b.exp), LAMBDA u :
       LET length == u.v
           thresh == GetResidualThresholdCounts(m, Abs32(bestPrior), minThreshold, length)
           RECURSIVE T(_, _, _, _)
           T(rd, i, coef, soFar) ==
             IF i < minThreshold THEN [r |-> rd, v |-> coef]
             ELSE With(GetBit(rd, <<thresh, soFar>>),
                       LAMBDA g : LET c == 2 * coef + (IF g.v THEN 1 ELSE 0)
                                  IN T(g.r, i - 1, c, ReadSoFar(c)))
           sg == GetBit(u.r, b.sign)
           i == AfterThreshold(length, minThreshold)
       IN IF length = 0 THEN [r |-> u.r, v |-> 0]
          ELSE With(IF length > 1 THEN T(sg.r, length - 2, 1, 1) ELSE [r |-> sg.r, v |-> 1],
                    LAMBDA th :
                      With(IF length > 1 /\ i >= 0
                           THEN LET nb == GetNBits(th.r, i + 1, b.res)
                                IN [r |-> nb.r, v |-> th.v * 2^(i + 1) + nb.v]
                           ELSE th,
                           LAMBDA res : [r |-> res.r, v |-> IF ~sg.v THEN -res.v ELSE res.v])))))

(***************************************************************************)
(* Contexts from the neighbors (part_008).  A block is its RawData, a      *)
(* function of the transposed coordinate 0..63; a NeighborSummary is the  *)
(* block it summarises, whose NumNonZeros is its 7x7 count.  nb is        *)
(* [pt, nd]: the model's present flags and the NeighborData.              *)
(***************************************************************************)
ZeroBlock == [i \in 0..63 |-> 0]

Coords7x7 == {i \in 0..63 : i \div 8 >= 1 /\ i % 8 >= 1}

\* AlignedBlock.GetCountOfNonZeros7x7.
GetCountOfNonZeros7x7(b) == Cardinality({i \in Coords7x7 : b[i] # 0})

\* numNonZerosToBin7x7.
NumNonZerosToBin7x7(n) == NonZeroToBin7x7[MinI(n, 49) + 1]

CalcNumNonZeros7x7ContextBin(pt, nd) ==
  LET above == IF pt.all \/ pt.above THEN GetCountOfNonZeros7x7(nd.nAbove) ELSE 0
      left  == IF pt.all \/ pt.left THEN GetCountOfNonZeros7x7(nd.nLeft) ELSE 0
      ctx   == CASE ~pt.all /\ pt.above /\ ~pt.left -> (above + 1) \div 2
                 [] ~pt.all /\ pt.left /\ ~pt.above -> (left + 1) \div 2
                 [] pt.all \/ (pt.left /\ pt.above) -> (above + left + 2) \div 4
                 [] OTHER -> 0
  IN NonZeroToBin[MinI(ctx, Len(NonZeroToBin) - 1) + 1]

\* CalcCoefficientContext7x7AavgBlock at coordinate idx.
BestPrior7x7(pt, nd, idx) ==
  CASE pt.all -> ((Abs16(nd.left[idx]) + Abs16(nd.above[idx])) * 13
                  + Abs16(nd.aboveLeft[idx]) * 6) \div 32
    [] pt.left -> Abs16(nd.left[idx])
    [] pt.above -> Abs16(nd.above[idx])
    [] OTHER -> 0

\* CalcCoefficientContext8Lak: 0 without the neighbor on that side.  The
\* predictor is given the raster PredictCurrentEdges saw.
CalcCoefficientContext8Lak(nb, raster, coordTR, horizontal) ==
  IF ~nb.pt.all /\ ((horizontal /\ ~nb.pt.above) \/ (~horizontal /\ ~nb.pt.left))
  THEN 0 ELSE EdgePredictor(nb, raster, coordTR)

\* AdvPredictDCPix: all zero without neighbors.
AdvPredictDCPix(nb, raster) ==
  IF nb.pt.all \/ nb.pt.left \/ nb.pt.above THEN DCPredictor(nb, raster)
  ELSE [predicted |-> 0, uncertainty |-> 0, uncertainty2 |-> 0]

\* Mutant of AdvPredictOrUnpredictDC: the wrap by 2 * 1024, one short of
\* the width of [-1024, 1024].
AdvPredictOrUnpredictDCShortWrap(savedDC, recoverOriginal, predictedVal) ==
  LET maxValue == 2^(MaxExponent - 1)
      r0 == IF recoverOriginal THEN savedDC + predictedVal ELSE savedDC - predictedVal
      r1 == IF r0 < -maxValue THEN r0 + 2 * maxValue ELSE r0
  IN IF r1 > maxValue THEN r1 - 2 * maxValue ELSE r1

\* advPredictOrUnpredictDC: the residual (or, recovering, the DC) wrapped
\* once into [-1024, 1024] by 2 * 1024 + 1.
AdvPredictOrUnpredictDC(savedDC, recoverOriginal, predictedVal) ==
  LET maxValue == 2^(MaxExponent - 1)
      adjustmentFactor == 2 * maxValue + 1
      r0 == IF recoverOriginal THEN savedDC + predictedVal ELSE savedDC - predictedVal
      r1 == IF r0 < -maxValue THEN r0 + adjustmentFactor ELSE r0
  IN IF r1 > maxValue THEN r1 - adjustmentFactor ELSE r1

(***************************************************************************)
(* writeCoefficientsBlock and encodeOneEdge.                               *)
(***************************************************************************)
EdgeDelta(horizontal) == IF horizontal THEN 8 ELSE 1
EdgeOffset(horizontal) == IF horizontal THEN 0 ELSE 7
EdgeCountBranch(m, horizontal, estEob, bin) ==
  <<m, IF horizontal THEN "nz8x1" ELSE "nz1x8", estEob, bin>>

\* encodeOneEdge: the count, then the lanes until the count runs out;
\* predRaster is the raster PredictCurrentEdges was given.
EncodeOneEdge(m, b, nb, predRaster, raster, horizontal, bin, estEob) ==
  LET delta == EdgeDelta(horizontal)
      numNonZerosEdge == Cardinality({k \in 1..7 : b[k * delta] # 0})
      RECURSIVE L(_, _, _)
      L(lane, left, st) ==
        IF lane = 7 \/ left = 0 \/ ~st.ok THEN st
        ELSE LET coordTR == delta * (lane + 1)
                 coef == b[coordTR]
             IN With(CalcCoefficientContext8Lak(nb, predRaster, coordTR, horizontal), LAMBDA bp :
                With(WriteEdgeCoefficient(m, coef, EdgeOffset(horizontal) + lane, left, bp),
                     LAMBDA w :
                       IF ~w.ok THEN [st EXCEPT !.ok = FALSE]
                       ELSE With([st EXCEPT !.s = @ \o w.s, !.raster[coordTR] = coef],
                                 LAMBDA next : L(lane + 1, IF coef # 0 THEN left - 1 ELSE left, next))))
  IN With([ok |-> TRUE, s |-> PutGrid(numNonZerosEdge, 3, EdgeCountBranch(m, horizontal, estEob, bin)),
           raster |-> raster], LAMBDA st0 : L(0, numNonZerosEdge, st0))

WriteCoefficientsBlock(m, b, nb) ==
  LET numNonZeros7x7 == GetCountOfNonZeros7x7(b)
      start == [ok |-> TRUE, eobX |-> 0, eobY |-> 0, raster |-> ZeroBlock,
                s |-> PutGrid(numNonZeros7x7, 6,
                              <<m, "nz7x7", CalcNumNonZeros7x7ContextBin(nb.pt, nb.nd)>>)]
      \* One turn of the zig49 loop, on [zig49, remaining, bin, st]; it ends
      \* at the error, at 49 and at the break after the last nonzero.
      Step7x7(x) ==
        IF x.zig49 = 49 \/ x.remaining = 0 \/ ~x.st.ok THEN x
        ELSE LET coordTR == Unzigzag49TR[x.zig49 + 1]
                 coef == b[coordTR]
             IN With(WriteCoef(m, coef, x.zig49, x.bin, BitLength(BestPrior7x7(nb.pt, nb.nd, coordTR))),
                     LAMBDA w :
                       IF ~w.ok THEN [x EXCEPT !.st.ok = FALSE]
                       ELSE IF coef = 0 THEN [x EXCEPT !.zig49 = @ + 1, !.st.s = @ \o w.s]
                       ELSE [x EXCEPT !.zig49 = @ + 1, !.remaining = @ - 1,
                                      !.bin = IF x.remaining = 1 THEN @
                                              ELSE NumNonZerosToBin7x7(x.remaining - 1),
                                      !.st = [@ EXCEPT !.s = @ \o w.s,
                                                       !.eobX = MaxI(@, coordTR \div 8),
                                                       !.eobY = MaxI(@, coordTR % 8),
                                                       !.raster[coordTR] = coef]])
      \* n turns, nested in halves so that evaluation stays shallow.
      RECURSIVE Loop(_, _)
      Loop(x, n) == IF n = 1 THEN Step7x7(x)
                    ELSE With(Loop(x, n \div 2), LAMBDA y : Loop(y, n - n \div 2))
      z == IF numNonZeros7x7 > 0
           THEN With([zig49 |-> 0, remaining |-> numNonZeros7x7,
                      bin |-> NumNonZerosToBin7x7(numNonZeros7x7), st |-> start],
                     LAMBDA x0 : Loop(x0, 49).st)
           ELSE start
      bin == (numNonZeros7x7 + 3) \div 7
  IN With(z, LAMBDA z7 :
     With(EncodeOneEdge(m, b, nb, z7.raster, z7.raster, TRUE, bin, z7.eobX), LAMBDA h :
     With(EncodeOneEdge(m, b, nb, z7.raster, h.raster, FALSE, bin, z7.eobY), LAMBDA v :
     With(AdvPredictDCPix(nb, v.raster), LAMBDA dcResult :
     With(WriteDC(m, Int16(AdvPredictOrUnpredictDC(b[0], FALSE, dcResult.predicted)),
                  dcResult.uncertainty, dcResult.uncertainty2), LAMBDA dc :
       IF z7.ok /\ h.ok /\ v.ok /\ dc.ok THEN Ok(z7.s \o h.s \o v.s \o dc.s) ELSE Fail)))))

(***************************************************************************)
(* decodeBlock and decodeOneEdge.  The result is [ok, b]: ok is FALSE on  *)
(* an ExitCodeStreamInconsistent error, when the reader fell out of step, *)
(* or when it did not read the block's decisions to the last.              *)
(***************************************************************************)
\* Mutant of DecodedBin: the bin is never recomputed.
DecodedBinStale(remaining, bin) == bin

\* The bin after a nonzero: recomputed while coefficients remain.
DecodedBin(remaining, bin) == IF remaining > 0 THEN NumNonZerosToBin7x7(remaining) ELSE bin

DecodeOneEdge(r, m, nb, predRaster, st, horizontal, bin, estEob) ==
  LET delta == EdgeDelta(horizontal)
      RECURSIVE L(_, _, _, _)
      L(rd, lane, left, cur) ==
        IF lane = 7 \/ left = 0 THEN [r |-> rd, err |-> left # 0, st |-> cur]
        ELSE LET coordTR == delta * (lane + 1)
             IN With(CalcCoefficientContext8Lak(nb, predRaster, coordTR, horizontal), LAMBDA bp :
                With(ReadEdgeCoefficient(rd, m, EdgeOffset(horizontal) + lane, left, bp),
                     LAMBDA c :
                       IF c.v # 0
                       THEN With([cur EXCEPT !.b[coordTR] = c.v, !.raster[coordTR] = c.v],
                                 LAMBDA next : L(c.r, lane + 1, left - 1, next))
                       ELSE L(c.r, lane + 1, left, cur)))
  IN With(GetGrid(r, 3, EdgeCountBranch(m, horizontal, estEob, bin)), LAMBDA g : L(g.r, 0, g.v, st))

DecodeBlock(m, s, nb) ==
  LET start == [b |-> ZeroBlock, eobX |-> 0, eobY |-> 0, raster |-> ZeroBlock]
      \* One turn of the zig49 loop, on [r, zig49, remaining, bin, st].
      Step7x7(x) ==
        IF x.zig49 = 49 \/ x.remaining = 0 THEN x
        ELSE LET coordTR == Unzigzag49TR[x.zig49 + 1]
             IN With(ReadCoef(x.r, m, x.zig49, x.bin, BitLength(BestPrior7x7(nb.pt, nb.nd, coordTR))),
                     LAMBDA c :
                       IF c.v # 0
                       THEN [x EXCEPT !.r = c.r, !.zig49 = @ + 1, !.remaining = @ - 1,
                                      !.bin = DecodedBin(x.remaining - 1, @),
                                      !.st = [@ EXCEPT !.b[coordTR] = c.v,
                                                       !.eobX = MaxI(@, coordTR \div 8),
                                                       !.eobY = MaxI(@, coordTR % 8),
                                                       !.raster[coordTR] = c.v]]
                       ELSE [x EXCEPT !.r = c.r, !.zig49 = @ + 1])
      \* n turns, nested in halves so that evaluation stays shallow.
      RECURSIVE Loop(_, _)
      Loop(x, n) == IF n = 1 THEN Step7x7(x)
                    ELSE With(Loop(x, n \div 2), LAMBDA y : Loop(y, n - n \div 2))
      Z(rd, numNonZeros7x7) ==
        With([r |-> rd, zig49 |-> 0, remaining |-> numNonZeros7x7,
              bin |-> NumNonZerosToBin7x7(numNonZeros7x7), st |-> start], LAMBDA x0 : Loop(x0, 49))
  IN With(GetGrid(Reader(s), 6, <<m, "nz7x7", CalcNumNonZeros7x7ContextBin(nb.pt, nb.nd)>>),
     LAMBDA g :
       LET numNonZeros7x7 == g.v
           bin == (numNonZeros7x7 + 3) \div 7
       IN With(IF numNonZeros7x7 > 0
               THEN Z(g.r, numNonZeros7x7)
               ELSE [r |-> g.r, remaining |-> 0, st |-> start], LAMBDA z :
          With(DecodeOneEdge(z.r, m, nb, z.st.raster, z.st, TRUE, bin, z.st.eobX), LAMBDA h :
          With(DecodeOneEdge(h.r, m, nb, z.st.raster, h.st, FALSE, bin, z.st.eobY), LAMBDA v :
            With(AdvPredictDCPix(nb, v.st.raster), LAMBDA dcResult :
               With(ReadDC(v.r, m, dcResult.uncertainty, dcResult.uncertainty2), LAMBDA d :
                 IF numNonZeros7x7 > 49 \/ z.remaining > 0 \/ h.err \/ v.err
                    \/ ~d.r.ok \/ d.r.p # Len(s) + 1
                 THEN [ok |-> FALSE, b |-> ZeroBlock]
                 ELSE [ok |-> TRUE,
                       b |-> [v.st.b EXCEPT ![0] = Int16(AdvPredictOrUnpredictDC(d.v, TRUE,
                                                                                dcResult.predicted))]]))))))

-----------------------------------------------------------------------------
(***************************************************************************)
(* Bounded inputs for the checks below.                                    *)
(***************************************************************************)
\* Coefficients at the bit-length edges, the int16 extremes among them.
SampleCoefs == {0, 1, -1, 2, -3, 127, -128, 300, 1023, 1024, -1025, 2047, -2047,
                2048, -2048, 32767, -32768}

\* bestPrior values: zero, small, one whose |.| >> threshold saturates
\* idx1, one past 16 bits and one whose int16 truncation is negative.
SamplePriors == {0, 1, -1, 700, -70000, 98304}

\* predictedDC values of AdvPredictDCPix, past the wrap range included.
SamplePredictions == {-3000, -1025, -1024, -1, 0, 1, 700, 1024, 1025, 3000}

\* The range of the DC of a block of an 8-bit JPEG.
DCRange == -1024..1024

Block(pairs) == [i \in 0..63 |-> IF \E p \in pairs : p[1] = i
                                 THEN (CHOOSE p \in pairs : p[1] = i)[2] ELSE 0]

\* Blocks: empty; a full 7x7 (the 49-count, bins falling one by one);
\* only the last zigzag position with a DC at the wrap edge; every lane of
\* the horizontal edge and the last of the vertical one at 11 bits; and a
\* block with an out-of-range coefficient.
TestBlocks ==
  { ZeroBlock,
    [i \in 0..63 |-> IF i \in Coords7x7 THEN (i % 3) - 1 + (IF i % 3 = 1 THEN 2 ELSE 0) ELSE 0],
    Block({<<63, -2047>>, <<0, 1024>>}),
    Block({<<8, 1>>, <<16, -2>>, <<24, 300>>, <<32, -1>>, <<40, 5>>, <<48, 1>>, <<56, -2047>>,
           <<7, 1500>>, <<9, 3>>, <<0, -1024>>}),
    Block({<<10, 2048>>}) }

Pts == { [left |-> FALSE, above |-> FALSE, all |-> FALSE],
         [left |-> FALSE, above |-> TRUE, all |-> FALSE],
         [left |-> TRUE, above |-> FALSE, all |-> FALSE],
         [left |-> TRUE, above |-> TRUE, all |-> TRUE] }

\* Neighborhoods: each model with the neighbors all one test block.
TestNeighbors ==
  {[pt |-> pt, nd |-> [aboveLeft |-> n, above |-> n, left |-> n, nAbove |-> n, nLeft |-> n]] :
     pt \in Pts, n \in TestBlocks}

(***************************************************************************)
(* The coders are inverse over the bounded inputs.  These are constants;  *)
(* LeptonRows states them as invariants of the composed system.            *)
(***************************************************************************)
\* The coefficient coders of model.go: writeLengthSignCoef (7x7 and DC) and
\* WriteEdgeCoefficient accept exactly the coefficients of at most
\* MaxExponent bits (abs16 of -32768 is 32768, 16 bits), and what they
\* accept, readLengthSignCoef and ReadEdgeCoefficient read back, using every
\* decision and no more, for every edge position's noise threshold, every
\* count and prior: the writer's capped encodedSoFar and the reader's
\* decodedSoFar = min(coef, 127) pick the same threshold branches.
CoefCodersInverse ==
  \A coef \in SampleCoefs :
    /\ \A bpl \in {0, 11} :
         LET w == WriteCoef(0, coef, 0, 0, bpl)
             rd == ReadCoef(Reader(w.s), 0, 0, 0, bpl)
         IN /\ w.ok = (BitLength(Abs16(coef)) <= MaxExponent)
            /\ w.ok => rd.v = coef /\ rd.r.ok /\ rd.r.p = Len(w.s) + 1
    /\ \A zoff \in 0..13, n \in {1, 7}, prior \in SamplePriors :
         LET w == WriteEdgeCoefficient(1, coef, zoff, n, prior)
             rd == ReadEdgeCoefficient(Reader(w.s), 1, zoff, n, prior)
         IN /\ w.ok = (BitLength(Abs16(coef)) <= MaxExponent)
            /\ w.ok => rd.v = coef /\ rd.r.ok /\ rd.r.p = Len(w.s) + 1

\* advPredictOrUnpredictDC: for every DC an 8-bit JPEG can hold and every
\* prediction, when the wrapped residual is one WriteDC accepts, the
\* decoder's unprediction of it is the DC again.
DCWrapInverse ==
  \A dc \in DCRange, pred \in SamplePredictions :
    LET saved == Int16(AdvPredictOrUnpredictDC(dc, FALSE, pred))
    IN BitLength(Abs16(saved)) <= MaxExponent
       => Int16(AdvPredictOrUnpredictDC(saved, TRUE, pred)) = dc

\* decodeBlock reads back every block writeCoefficientsBlock codes, in every
\* neighborhood and for both colour models: the bins, eob positions, edge
\* counts and raster it derives as it reads are the writer's, so it picks
\* the writer's branch for every decision and uses them all.
BlockCoderInverse ==
  \A b \in TestBlocks, nb \in TestNeighbors, m \in {0, 1} :
    LET w == WriteCoefficientsBlock(m, b, nb)
    IN w.ok => DecodeBlock(m, w.s, nb) = [ok |-> TRUE, b |-> b]
====
