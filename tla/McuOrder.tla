------------------------------- MODULE McuOrder -------------------------------
(***************************************************************************)
(* The block order of a baseline scan, as the encoder's JPEG reader walks *)
(* it (JpegPositionState, src/lepton/jpeg_position_state.go, driven by    *)
(* readBaselineScan) and as the decoder's JPEG writer walks it again       *)
(* (writeScanData and writeScanDataNonInterleaved, src/unnamed/part_001).  *)
(*                                                                         *)
(* The two sides parse the SOF sampling byte with opposite names: the     *)
(* reader's parseSOFRead stores the high nibble (horizontal factor) in    *)
(* Sfv and the low nibble in Sfh; the decoder's parseSOF (model.go) stores *)
(* the high nibble in Sfh.  The reader stores each block at dpos           *)
(* (SetBlockByDpos), the writer fetches it with GetBlockXY, index          *)
(* blockY * Bch + blockX.  A block is identified by <<component, index>>;  *)
(* the coefficients, Huffman coding and bytes are left to JpegScanIO.     *)
(*                                                                         *)
(* The reader runs to the end of the scan first, then the writer, as in   *)
(* an encode followed by a decode.                                         *)
(***************************************************************************)
EXTENDS Naturals, Sequences, SequencesExt

CONSTANTS
  MaxComps,          \* components in the frame: 1..MaxComps
  Factors,           \* sampling factors allowed (parseSOFRead rejects > 2)
  Widths, Heights,   \* image dimensions in pixels
  RestartIntervals   \* DRI values

VARIABLES
  sof,      \* [cmpc, hi, lo]: the SOF sampling bytes (hi = H, lo = V)
  scan,     \* ScanComponentOrder, components numbered from 1
  ri,       \* RestartInterval
  rs,       \* the reader's JpegPositionState
  rseq,     \* blocks the reader stored, in scan order
  rrst,     \* block counts after which the reader expects a restart marker
  rdone,
  ws,       \* the writer's loop counters
  wseq,     \* blocks the writer emitted, in order
  wrst,     \* block counts after which the writer emitted a restart marker
  wdone

vars == <<sof, scan, ri, rs, rseq, rrst, rdone, ws, wseq, wrst, wdone>>

CeilDiv(a, b) == (a + b - 1) \div b
MaxOf(f, S) == CHOOSE m \in {f[c] : c \in S} : \A c \in S : f[c] <= m

\* parseSOFRead: Sfv from the high nibble, Sfh from the low nibble.
ParseSOFRead(s) ==
  LET C == 1..s.cmpc
      Sfv == s.hi
      Sfh == s.lo
      MaxSfh == MaxOf(Sfh, C)
      MaxSfv == MaxOf(Sfv, C)
      Mcuv == CeilDiv(s.height, MaxSfh * 8)
      Mcuh == CeilDiv(s.width, MaxSfv * 8)
  IN [Mcuh |-> Mcuh, Mcuv |-> Mcuv, Sfh |-> Sfh, Sfv |-> Sfv,
      Mbs |-> [c \in C |-> Sfv[c] * Sfh[c]],
      Bcv |-> [c \in C |-> Mcuv * Sfh[c]],
      Bch |-> [c \in C |-> Mcuh * Sfv[c]],
      Bc  |-> [c \in C |-> Mcuv * Sfh[c] * Mcuh * Sfv[c]],
      Ncv |-> [c \in C |-> CeilDiv(s.height * Sfh[c], MaxSfh * 8)],
      Nch |-> [c \in C |-> CeilDiv(s.width * Sfv[c], MaxSfv * 8)]]

\* Mutant: the decoder's parser with the reader's nibble naming.
ParseSOFSwapped(s) == ParseSOFRead(s)

\* parseSOF (model.go): Sfh from the high nibble, Sfv from the low nibble.
ParseSOF(s) ==
  LET C == 1..s.cmpc
      Sfh == s.hi
      Sfv == s.lo
      MaxSfh == MaxOf(Sfh, C)
      MaxSfv == MaxOf(Sfv, C)
      Mcuh == CeilDiv(s.width, MaxSfh * 8)
      Mcuv == CeilDiv(s.height, MaxSfv * 8)
  IN [Mcuh |-> Mcuh, Mcuv |-> Mcuv, Sfh |-> Sfh, Sfv |-> Sfv,
      Mbs |-> [c \in C |-> Sfh[c] * Sfv[c]],
      Bch |-> [c \in C |-> Mcuh * Sfh[c]],
      Bcv |-> [c \in C |-> Mcuv * Sfv[c]],
      Bc  |-> [c \in C |-> Mcuh * Sfh[c] * Mcuv * Sfv[c]],
      Nch |-> [c \in C |-> CeilDiv(s.width * Sfh[c], MaxSfh * 8)],
      Ncv |-> [c \in C |-> CeilDiv(s.height * Sfv[c], MaxSfv * 8)]]

RH == ParseSOFRead(sof)
WH == ParseSOF(sof)

\* NewJpegPositionState(jh, mcu) followed by ResetRstw.
NewJpegPositionState(jh, sco, mcu) ==
  [cmp |-> sco[1], mcu |-> mcu, csc |-> 0, sub |-> 0,
   dpos |-> mcu * jh.Sfv[sco[1]] * jh.Sfh[sco[1]],
   rstw |-> IF ri # 0 THEN ri - (mcu % ri) ELSE 0]

\* Mutant: the counter not reset after a restart marker.
ResetRstwMissing(s) == s

ResetRstw(s) == [s EXCEPT !.rstw = ri]

\* nextMcuPosNonInterleaved: one block on, jumping over the padding blocks
\* right of Nch and below Ncv; the restart counter counts blocks.
NextMcuPosNonInterleaved(s, jh) ==
  LET c  == s.cmp
      d1 == s.dpos + 1
      d2 == IF jh.Bch[c] # jh.Nch[c] /\ d1 % jh.Bch[c] = jh.Nch[c]
            THEN d1 + jh.Bch[c] - jh.Nch[c] ELSE d1
      d3 == IF jh.Bcv[c] # jh.Ncv[c] /\ d2 \div jh.Bch[c] = jh.Ncv[c]
            THEN jh.Bc[c] ELSE d2
      done == d3 >= jh.Bc[c]
      dec  == ~done /\ ri > 0
      rstw == IF dec THEN s.rstw - 1 ELSE s.rstw
  IN [s   |-> [s EXCEPT !.dpos = d3, !.mcu = d3 \div (jh.Sfv[c] * jh.Sfh[c]),
                        !.rstw = rstw],
      sta |-> IF done THEN "completed"
              ELSE IF dec /\ rstw = 0 THEN "expired" ELSE "progress"]

\* Mutant: the two factors' names exchanged in the row/column split.
McuDposSwapped(jh, cmp, mcu, sub) ==
  LET sfh == jh.Sfh[cmp]
      sfv == jh.Sfv[cmp]
  IN CASE sfh > 1 ->
            ((mcu \div jh.Mcuh) * sfh + sub \div sfh) * jh.Bch[cmp]
              + (mcu % jh.Mcuh) * sfv + (sub % sfv)
       [] sfv > 1 -> mcu * jh.Mbs[cmp] + sub
       [] OTHER   -> mcu

\* The tail of NextMcuPos: the image position of block sub of MCU mcu
\* (sfh is the vertical, sfv the horizontal factor under parseSOFRead).
McuDpos(jh, cmp, mcu, sub) ==
  LET sfh == jh.Sfh[cmp]
      sfv == jh.Sfv[cmp]
  IN CASE sfh > 1 ->
            ((mcu \div jh.Mcuh) * sfh + sub \div sfv) * jh.Bch[cmp]
              + (mcu % jh.Mcuh) * sfv + (sub % sfv)
       [] sfv > 1 -> mcu * jh.Mbs[cmp] + sub
       [] OTHER   -> mcu

\* NextMcuPos for an interleaved scan: the next block of the MCU, the next
\* component, or the next MCU; dpos recomputed from (mcu, sub).
NextMcuPosInterleaved(s, jh, sco) ==
  LET sub1  == s.sub + 1
      wrap  == sub1 >= jh.Mbs[s.cmp]
      csc1  == IF wrap THEN s.csc + 1 ELSE s.csc
      mwrap == wrap /\ csc1 >= Len(sco)
      mcu   == IF mwrap THEN s.mcu + 1 ELSE s.mcu
      cmp   == IF mwrap THEN sco[1] ELSE IF wrap THEN sco[csc1 + 1] ELSE s.cmp
      sub   == IF wrap THEN 0 ELSE sub1
      done  == mwrap /\ mcu >= jh.Mcuh * jh.Mcuv
      dec   == mwrap /\ ~done /\ ri > 0
      rstw  == IF dec THEN s.rstw - 1 ELSE s.rstw
  IN [s   |-> [cmp |-> cmp, mcu |-> mcu, csc |-> IF mwrap THEN 0 ELSE csc1,
               sub |-> sub, dpos |-> McuDpos(jh, cmp, mcu, sub), rstw |-> rstw],
      sta |-> IF done THEN "completed"
              ELSE IF dec /\ rstw = 0 THEN "expired" ELSE "progress"]

NextMcuPos(s, jh, sco) ==
  IF Len(sco) = 1 THEN NextMcuPosNonInterleaved(s, jh)
  ELSE NextMcuPosInterleaved(s, jh, sco)

-----------------------------------------------------------------------------
(* The encoder side: readBaselineScan stores a block at the state's dpos, *)
(* moves on with NextMcuPos, and after RestartIntervalExpired reads the   *)
(* marker and calls ResetRstw.                                             *)

SOFs ==
  UNION {{[cmpc |-> n, hi |-> hi, lo |-> lo, width |-> w, height |-> h] :
            hi \in [1..n -> Factors], lo \in [1..n -> Factors],
            w \in Widths, h \in Heights} : n \in 1..MaxComps}

\* The scans of a frame: all components interleaved, or one alone.
ScanOrders(n) ==
  {<<c>> : c \in 1..n} \cup (IF n > 1 THEN {[i \in 1..n |-> i]} ELSE {})

NewWriterState ==
  [mcuY |-> 0, mcuX |-> 0, csc |-> 0, v |-> 0, h |-> 0, mcuCount |-> 0,
   dpos |-> 0, blockCount |-> 0]

Init ==
  /\ sof \in SOFs
  /\ scan \in ScanOrders(sof.cmpc)
  /\ ri \in RestartIntervals
  /\ rs = ResetRstw(NewJpegPositionState(RH, scan, 0))
  /\ rseq = <<>> /\ rrst = {} /\ rdone = FALSE
  /\ ws = NewWriterState
  /\ wseq = <<>> /\ wrst = {} /\ wdone = FALSE

\* One iteration of readBaselineScan's inner loop (jpeg_read.go).
ReadBlock ==
  /\ ~rdone
  /\ LET r == NextMcuPos(rs, RH, scan) IN
       /\ rseq' = Append(rseq, <<rs.cmp, rs.dpos>>)
       /\ rs' = IF r.sta = "expired" THEN ResetRstw(r.s) ELSE r.s
       /\ rrst' = IF r.sta = "expired" THEN rrst \cup {Len(rseq) + 1} ELSE rrst
       /\ rdone' = (r.sta = "completed")
  /\ UNCHANGED <<sof, scan, ri, ws, wseq, wrst, wdone>>

-----------------------------------------------------------------------------
(* The decoder side: the JPEG writer fetches blocks by (blockX, blockY)   *)
(* with the decoder's header.  One step writes one block.                  *)

\* Mutant: the interval counted one unit too long.
RestartDueLate(count) == ri > 0 /\ count > ri

\* restartInterval > 0 && count >= restartInterval, in both writer loops.
RestartDue(count) == ri > 0 /\ count >= ri

\* GetBlockXY's index for component c.
GetBlockXY(jh, c, blockX, blockY) == <<c, blockY * jh.Bch[c] + blockX>>

\* The counters after the block at (mcuX, mcuY, csc, v, h): h runs fastest,
\* then v, then the component, then the MCU.
AdvanceInterleaved(w, jh) ==
  LET c == scan[w.csc + 1] IN
  CASE w.h + 1 < jh.Sfh[c] -> [w EXCEPT !.h = @ + 1]
    [] w.v + 1 < jh.Sfv[c] -> [w EXCEPT !.h = 0, !.v = @ + 1]
    [] w.csc + 1 < Len(scan) -> [w EXCEPT !.h = 0, !.v = 0, !.csc = @ + 1]
    [] OTHER -> [w EXCEPT !.h = 0, !.v = 0, !.csc = 0,
                          !.mcuX = (@ + 1) % jh.Mcuh,
                          !.mcuY = IF w.mcuX + 1 = jh.Mcuh THEN @ + 1 ELSE @]

\* writeScanData: the block loop, and at the end of each MCU the restart
\* check (a marker unless this is the last MCU) and the end of the scan.
WriteInterleavedBlock ==
  /\ rdone /\ ~wdone /\ Len(scan) > 1
  /\ LET jh   == WH
         c    == scan[ws.csc + 1]
         last == ws.h + 1 = jh.Sfh[c] /\ ws.v + 1 = jh.Sfv[c]
                 /\ ws.csc + 1 = Len(scan)
         cnt  == ws.mcuCount + 1
         rst  == last /\ RestartDue(cnt)
         final == last /\ ws.mcuX + 1 = jh.Mcuh /\ ws.mcuY + 1 = jh.Mcuv
         w1   == AdvanceInterleaved(ws, jh)
     IN /\ wseq' = Append(wseq, GetBlockXY(jh, c, ws.mcuX * jh.Sfh[c] + ws.h,
                                                  ws.mcuY * jh.Sfv[c] + ws.v))
        /\ ws' = [w1 EXCEPT !.mcuCount = IF ~last THEN @ ELSE IF rst THEN 0 ELSE cnt]
        /\ wrst' = IF rst /\ ~final THEN wrst \cup {Len(wseq) + 1} ELSE wrst
        /\ wdone' = final
  /\ UNCHANGED <<sof, scan, ri, rs, rseq, rrst, rdone>>

\* writeScanDataNonInterleaved: dpos runs over the whole padded grid,
\* blocks outside Nch x Ncv are skipped, the restart counter counts the
\* blocks written and a marker follows every full interval.
WriteNonInterleavedPos ==
  /\ rdone /\ ~wdone /\ Len(scan) = 1
  /\ LET jh  == WH
         c   == scan[1]
         bx  == ws.dpos % jh.Bch[c]
         by  == ws.dpos \div jh.Bch[c]
         pad == bx >= jh.Nch[c] \/ by >= jh.Ncv[c]
         cnt == ws.blockCount + 1
         rst == ~pad /\ RestartDue(cnt)
     IN /\ wseq' = IF pad THEN wseq ELSE Append(wseq, GetBlockXY(jh, c, bx, by))
        /\ ws' = [ws EXCEPT !.dpos = @ + 1,
                            !.blockCount = IF pad THEN @ ELSE IF rst THEN 0 ELSE cnt]
        /\ wrst' = IF rst THEN wrst \cup {Len(wseq) + 1} ELSE wrst
        /\ wdone' = (ws.dpos + 1 >= jh.Bch[c] * jh.Bcv[c])
  /\ UNCHANGED <<sof, scan, ri, rs, rseq, rrst, rdone>>

Next == ReadBlock \/ WriteInterleavedBlock \/ WriteNonInterleavedPos

Spec == Init /\ [][Next]_vars

-----------------------------------------------------------------------------
Block == (1..MaxComps) \X Nat

TypeOK ==
  /\ sof \in SOFs
  /\ rseq \in Seq(Block) /\ wseq \in Seq(Block)
  /\ rrst \subseteq 1..Len(rseq) /\ wrst \subseteq 1..Len(wseq)
  /\ rs.rstw \in Nat
  /\ rdone \in BOOLEAN /\ wdone \in BOOLEAN

\* The image grid of component c from the SOF bytes (H = high nibble,
\* V = low nibble) as the JPEG standard lays it out: the padded grid is
\* Mcuh * H columns by Mcuv * V rows, the natural grid ceil(X * H / Hmax)
\* by ceil(Y * V / Vmax) blocks.
PaddedCols(c) == CeilDiv(sof.width, 8 * MaxOf(sof.hi, 1..sof.cmpc)) * sof.hi[c]
PaddedRows(c) == CeilDiv(sof.height, 8 * MaxOf(sof.lo, 1..sof.cmpc)) * sof.lo[c]
NaturalCols(c) == CeilDiv(sof.width * sof.hi[c], 8 * MaxOf(sof.hi, 1..sof.cmpc))
NaturalRows(c) == CeilDiv(sof.height * sof.lo[c], 8 * MaxOf(sof.lo, 1..sof.cmpc))

\* The blocks a scan codes: the whole padded grid of every component of an
\* interleaved scan, the natural grid of the component of a single scan.
ScanBlocks ==
  IF Len(scan) > 1
  THEN UNION {{<<c, y * PaddedCols(c) + x>> :
                  x \in 0..PaddedCols(c) - 1, y \in 0..PaddedRows(c) - 1} :
               c \in ToSet(scan)}
  ELSE {<<scan[1], y * PaddedCols(scan[1]) + x>> :
          x \in 0..NaturalCols(scan[1]) - 1, y \in 0..NaturalRows(scan[1]) - 1}

\* When readBaselineScan reports ScanCompleted, NextMcuPos has led it
\* through every block of the scan exactly once, stored at its raster
\* index in the component's grid: whatever the sampling factors, the
\* interleaving and the padding.
ReaderCoversScan ==
  rdone => /\ ToSet(rseq) = ScanBlocks
           /\ Len(rseq) = Cardinality(ScanBlocks)

\* The decoder's writer, fetching blocks by (blockX, blockY) under the
\* decoder's parse of the sampling byte, emits exactly the blocks the
\* encoder's reader stored by dpos under its own, opposite parse, in the
\* same order: the Huffman stream is rebuilt block for block.
SameBlockOrder ==
  /\ IsPrefix(wseq, rseq)
  /\ wdone => wseq = rseq

\* The writer emits a restart marker after exactly the blocks after which
\* the reader found one (RestartIntervalExpired), apart from one after the
\* last block of the scan.
SameRestartPoints ==
  wdone => rrst = {i \in wrst : i < Len(wseq)}
====
