---------------------------- MODULE MCLeptonRows ----------------------------
EXTENDS LeptonRows

\* 4:2:0 colour (luma sampled 2x2 over one MCU column and two MCU rows:
\* 2x4 luma blocks, 1x2 of each chroma) and grayscale (2x3 blocks).
MCFrames == {FrameOf(<<2, 1, 1>>, <<2, 1, 1>>, 1, 2), FrameOf(<<1>>, <<1>>, 2, 3)}

\* Encode's single handoff, and two handoffs split at a luma row that
\* starts an MCU row of either frame (2).
MCHandoffs == {<<0>>, <<0, 2>>}

\* Every block differs: a DC inside the 8-bit range that moves across the
\* wrap of advPredictOrUnpredictDC with the prediction, one 7x7 coefficient
\* whose zigzag position moves with the block, one of 11 bits in luma,
\* and one lane of each edge.
MCCoef(c, i, k) ==
  CASE k = 0 -> 1000 - 300 * c - 150 * i
    [] k = 9 + 8 * (i % 3) -> 3 - i
    [] k = 10 + (c % 2) -> 2047 - 600 * c
    [] k = 8 * ((i % 7) + 1) -> i - 2
    [] k = ((c + i) % 7) + 1 -> 700 - 100 * i
    [] OTHER -> 0

MCCoefs == [id \in (0..2) \X (0..7) |-> [k \in 0..63 |-> MCCoef(id[1], id[2], k)]]

\* Quantisers giving each noise threshold 3, 2, 1 and 0 along the edges.
MCEdgeQ == [i \in 0..13 |-> CASE i % 4 = 0 -> 1 [] i % 4 = 1 -> 2
                              [] i % 4 = 2 -> 4 [] OTHER -> 9]

\* The DC, the first lanes of both edges, the last of each and two 7x7
\* coefficients of a block.
WeightAt == <<0, 1, 2, 7, 8, 9, 16, 56, 63>>
Weight(b) == LET RECURSIVE S(_) S(k) == IF k = 0 THEN 0 ELSE b[WeightAt[k]] + S(k - 1)
             IN S(Len(WeightAt))

\* Predictors that change with the raster and with the neighbors' data.
MCEdgePredictor(nb, raster, coordTR) ==
  LET t == <<0, 1, -1, 700, -70000, 98304>>
  IN t[((Weight(raster) + 3 * Weight(nb.nd.nAbove) + 5 * Weight(nb.nd.nLeft) + coordTR) % 6) + 1]

MCDCPredictor(nb, raster) ==
  LET w == Weight(raster) + Weight(nb.nd.nAbove) + 2 * Weight(nb.nd.nLeft)
  IN [predicted |-> ((w % 7) - 3) * 300, uncertainty |-> w % 50, uncertainty2 |-> (w % 9) - 4]
====
