------------------------------- MODULE ACRefine -------------------------------
(***************************************************************************)
(* Progressive AC refinement (successive approximation) scans of one      *)
(* component, next to the AC-first scans of EobRun: parseScan             *)
(* (src/lepton/jpeg_read.go) sends a scan with CsSah = 0 to               *)
(* readProgressiveACFirst and any other AC scan to readProgressiveACRefine.*)
(*                                                                         *)
(* Reader: readProgressiveACRefine visits every block, pending EOB run or *)
(* not: decodeACProgressiveRefineTmp reads run/level symbols, ZRL and     *)
(* EOBn with a correction bit for every coefficient the earlier scan made *)
(* nonzero, decodeEobrunRefineTemp reads only the correction bits.  Writer:*)
(* writeProgressiveScanNonInterleaved with encodeACRefine (part_001)      *)
(* buffers the correction bits and emits them after the next symbol it    *)
(* writes: a run/level, a ZRL or the EOBn that ends the run the block     *)
(* joined.                                                                 *)
(*                                                                         *)
(* Data: the band is CsFrom = 1 .. csTo, a coefficient is its value at    *)
(* the refined bit (divPow2(raw, CsSal)); the earlier scan left Hist(v).  *)
(* Tokens extend those of EobRun: <<"COEF", run, bit>> the symbol          *)
(* (run << 4) | 1 and its sign bit, <<"ZRL">> the symbol 0xF0,            *)
(* <<"BIT", b>> a correction bit.  MaxRun stands for the 15 of the run    *)
(* nibble, so that a ZRL (MaxRun + 1 zeros) fits in a short band.         *)
(***************************************************************************)
EXTENDS EobRun

CONSTANTS
  RefScans,     \* [g: a block grid, len: number of coefficients in the band]
  CoefVals,     \* coefficient values at the refined bit
  MaxRun        \* the largest run of a run/level symbol (15)

VARIABLES
  scan,     \* "first" (the scans of EobRun) or "refine"
  csTo,     \* the band is 1 .. csTo
  band,     \* the coefficients of each natural block, by dpos
  renc,     \* the original encoder: [n, run, be (its pending bits), split]
  rstored,  \* the reader's block values, by dpos
  corr      \* the writer's correctionBits

rvars == <<scan, csTo, band, renc, rstored, corr>>
allVars == <<vars, rvars>>

Band == 1..csTo
ZeroBlock == [p \in Band |-> 0]
AbsVal(v) == IF v < 0 THEN -v ELSE v

\* The value the scan at CsSah = CsSal + 1 stored: divPow2(v, 1) << 1.
Hist(v) == IF v >= 0 THEN 2 * (v \div 2) ELSE -(2 * ((-v) \div 2))

\* writeCorrectionBits.
Bits(b) == [i \in DOMAIN b |-> <<"BIT", b[i]>>]

\* writeCoef for a coefficient of category 1: the additional bit is 1 for
\* 1 and (coef - 1) & 1 = 0 for -1.
CoefTok(zr, c) == <<"COEF", zr, IF c >= 0 THEN 1 ELSE 0>>

(***************************************************************************)
(* The original encoder (not this repository's code): libjpeg's           *)
(* encode_mcu_AC_refine.  A ZRL is emitted only at the next nonzero       *)
(* position up to EOB, a block joins the run when zeros or buffered bits  *)
(* are left (r > 0 or BR > 0), emit_eobrun writes EOBn and the run's bits *)
(* (32767 blocks and the bit-buffer limit are out of reach here).         *)
(***************************************************************************)
OrigEmitRun(run, be) == IF run = 0 THEN <<>> ELSE OrigFlush(run) \o Bits(be)

LibjpegRefineBlock(blk, run0, be0) ==
  LET newPos == {p \in Band : AbsVal(blk[p]) = 1}
      EOB == IF newPos = {} THEN 0 ELSE MaxSet(newPos)
      Step(st, k) ==
        LET a   == AbsVal(blk[k])
            nz  == IF a # 0 /\ k <= EOB THEN st.r \div (MaxRun + 1) ELSE 0
            s1  == IF nz > 0
                   THEN [st EXCEPT !.toks = st.toks \o OrigEmitRun(st.run, st.be)
                                          \o <<<<"ZRL">>>> \o Bits(st.br)
                                          \o [i \in 1..nz - 1 |-> <<"ZRL">>],
                                   !.run = 0, !.be = <<>>, !.br = <<>>,
                                   !.r = st.r - nz * (MaxRun + 1)]
                   ELSE st
        IN CASE a = 0 -> [st EXCEPT !.r = st.r + 1]
             [] a > 1 -> [s1 EXCEPT !.br = Append(s1.br, a % 2)]
             [] OTHER -> [s1 EXCEPT !.toks = s1.toks \o OrigEmitRun(s1.run, s1.be)
                                      \o <<CoefTok(s1.r, blk[k])>> \o Bits(s1.br),
                                    !.run = 0, !.be = <<>>, !.br = <<>>, !.r = 0]
      st1 == FoldLeftDomain(Step, [toks |-> <<>>, run |-> run0, be |-> be0, br |-> <<>>,
                                   r |-> 0], blk)
      joins == st1.r > 0 \/ st1.br # <<>>
  IN [toks |-> st1.toks, run |-> IF joins THEN st1.run + 1 ELSE st1.run,
      be |-> IF joins THEN st1.be \o st1.br ELSE st1.be]

REncodeBlock ==
  /\ phase = "rencode" /\ renc.n < NumNatural
  /\ LET e    == LibjpegRefineBlock(band[PosOf(renc.n)], renc.run, renc.be)
         rst  == ri > 0 /\ (renc.n + 1) % ri = 0
         last == renc.n + 1 = NumNatural
     IN /\ orig' = orig \o e.toks
                   \o (IF rst \/ last THEN OrigEmitRun(e.run, e.be) ELSE <<>>)
                   \o (IF rst /\ ~last THEN <<<<"RST">>>> ELSE <<>>)
        /\ renc' = [renc EXCEPT !.n = renc.n + 1,
                                !.run = IF rst \/ last THEN 0 ELSE e.run,
                                !.be = IF rst \/ last THEN <<>> ELSE e.be]
  /\ UNCHANGED <<geom, eobSyms, kinds, enc, rd, stored, phase, wr, out>>
  /\ UNCHANGED <<scan, csTo, band, rstored, corr>>

\* Ending a refinement run early, between two blocks: legal JPEG.
REncodeSplit ==
  /\ FreeSplit /\ phase = "rencode" /\ renc.run > 0
  /\ orig' = orig \o OrigEmitRun(renc.run, renc.be)
  /\ renc' = [renc EXCEPT !.run = 0, !.be = <<>>, !.split = TRUE]
  /\ UNCHANGED <<geom, eobSyms, kinds, enc, rd, stored, phase, wr, out>>
  /\ UNCHANGED <<scan, csTo, band, rstored, corr>>

REncodeTable ==
  /\ phase = "rencode" /\ renc.n = NumNatural
  /\ \E extra \in SUBSET EobBits : eobSyms' = UsedEobBits \cup extra
  /\ phase' = "rread"
  /\ UNCHANGED <<geom, kinds, enc, orig, rd, stored, wr, out>>
  /\ UNCHANGED rvars

(***************************************************************************)
(* The reader: one iteration of the inner loop of readProgressiveACRefine.*)
(* A decoder state is [ok, tp, tmp, eob, eobrun]; tmp is tempBlock.        *)
(***************************************************************************)
\* Mutant: the bit is stored without the sign of the coefficient.
CorrectUnsigned(st, p) ==
  IF Tok(st.tp)[1] = "BIT"
  THEN [st EXCEPT !.tp = st.tp + 1, !.tmp[p] = Tok(st.tp)[2]]
  ELSE [st EXCEPT !.ok = FALSE]

\* A correction bit for the nonzero tmp[p]: its sign times the bit read.
Correct(st, p) ==
  IF Tok(st.tp)[1] = "BIT"
  THEN [st EXCEPT !.tp = st.tp + 1,
                  !.tmp[p] = IF st.tmp[p] > 0 THEN Tok(st.tp)[2] ELSE -Tok(st.tp)[2]]
  ELSE [st EXCEPT !.ok = FALSE]

\* decodeEobrunRefineTemp from position p on, without the decrement.
RECURSIVE EobrunRefine(_, _)
EobrunRefine(st, p) ==
  IF p > csTo \/ ~st.ok THEN st
  ELSE EobrunRefine(IF st.tmp[p] # 0 THEN Correct(st, p) ELSE st, p + 1)

\* decodeACProgressiveRefineTmp from position p on (RefineTmp), and its
\* inner loop placing the value v after z zeros (RunLevel).
RECURSIVE RefineTmp(_, _), RunLevel(_, _, _, _)
RefineTmp(st, p) ==
  IF p > csTo \/ ~st.ok THEN st
  ELSE LET t == Tok(st.tp)
       IN CASE t[1] = "COEF" ->
                 RunLevel([st EXCEPT !.tp = st.tp + 1], p, t[2], IF t[3] = 1 THEN 1 ELSE -1)
            [] t[1] = "ZRL" -> RunLevel([st EXCEPT !.tp = st.tp + 1], p, MaxRun, 0)
            [] t[1] = "EOB" ->
                 [EobrunRefine([st EXCEPT !.tp = st.tp + 1, !.eob = p], p)
                    EXCEPT !.eobrun = t[2] - 1]
            [] OTHER -> [st EXCEPT !.ok = FALSE]

RunLevel(st, p, z, v) ==
  CASE ~st.ok -> st
    [] st.tmp[p] = 0 /\ z = 0 -> RefineTmp([st EXCEPT !.tmp[p] = v], p + 1)
    [] st.tmp[p] = 0 -> IF p >= csTo THEN [st EXCEPT !.ok = FALSE]
                        ELSE RunLevel(st, p + 1, z - 1, v)
    [] OTHER -> LET s2 == Correct(st, p)
                IN IF ~s2.ok \/ p >= csTo THEN [s2 EXCEPT !.ok = FALSE]
                   ELSE RunLevel(s2, p + 1, z, v)

RAfterStatus(sta) ==
  CASE sta = "completed" -> "rwrite" [] sta = "expired" -> "rrst" [] OTHER -> "rread"

\* A block: decodeACProgressiveRefineTmp and CheckOptimalEobrun when no run
\* is pending, else decodeEobrunRefineTemp; then current + tempBlock is
\* stored and NextMcuPos moves on.
RReadBlock ==
  /\ phase = "rread"
  /\ LET cur  == rstored[rd.dpos]
         st0  == [ok |-> TRUE, tp |-> rd.tp, tmp |-> cur, eob |-> csTo, eobrun |-> 0]
         dec  == IF rd.eobrun = 0 THEN RefineTmp(st0, 1)
                 ELSE [EobrunRefine(st0, 1) EXCEPT !.eobrun = rd.eobrun - 1]
         okEb == rd.eobrun # 0 \/ CheckOptimalEobrun(rd, dec.eob = 1, GetMaxEobRun)
         s1   == [rd EXCEPT !.tp = dec.tp, !.eobrun = dec.eobrun,
                            !.prevEobrun = IF rd.eobrun = 0 THEN dec.eobrun ELSE @]
         nx   == NextMcuPosNonInterleaved(s1)
     IN IF ~dec.ok \/ ~okEb
        THEN phase' = "rrejected" /\ UNCHANGED <<rd, rstored>>
        ELSE /\ rstored' = [rstored EXCEPT ![rd.dpos] = [p \in Band |-> cur[p] + dec.tmp[p]]]
             /\ rd' = nx.st
             /\ phase' = RAfterStatus(nx.sta)
  /\ UNCHANGED <<geom, eobSyms, kinds, enc, orig, stored, wr, out>>
  /\ UNCHANGED <<scan, csTo, band, renc, corr>>

\* ReadAndVerifyFillBits, VerifyResetCode and ResetRstw (which keeps Eobrun).
RReadRestart ==
  /\ phase = "rrst"
  /\ IF Tok(rd.tp) = <<"RST">>
     THEN rd' = ResetRstw([rd EXCEPT !.tp = rd.tp + 1]) /\ phase' = "rread"
     ELSE phase' = "rrejected" /\ UNCHANGED rd
  /\ UNCHANGED <<geom, eobSyms, kinds, enc, orig, stored, wr, out>>
  /\ UNCHANGED rvars
(***************************************************************************)
(* The writer: writeProgressiveScanNonInterleaved with encodeACRefine.    *)
(***************************************************************************)
\* The position after the last new coefficient (|coef| = 1), else CsFrom.
EobPos(blk) ==
  LET newPos == {p \in Band : AbsVal(blk[p]) = 1}
  IN IF newPos = {} THEN 1 ELSE MaxSet(newPos) + 1

\* One position of encodeACRefine's loop up to eob: st = [toks, corr, zr].
RefineStep(st, c) ==
  CASE c = 0 /\ st.zr + 1 = MaxRun + 1 ->
         [toks |-> st.toks \o <<<<"ZRL">>>> \o Bits(st.corr), corr |-> <<>>, zr |-> 0]
    [] c = 0 -> [st EXCEPT !.zr = st.zr + 1]
    [] AbsVal(c) = 1 ->
         [toks |-> st.toks \o <<CoefTok(st.zr, c)>> \o Bits(st.corr), corr |-> <<>>, zr |-> 0]
    [] OTHER -> [st EXCEPT !.corr = Append(st.corr, c % 2)]

\* Mutant: the run is flushed before the block's coefficients without
\* writeCorrectionBits, so its bits stay pending.
EncodeACRefineRunWithoutBits(blk, eobRun, bits) ==
  LET eob   == EobPos(blk)
      flush == eob > 1 /\ eobRun > 0
      st0   == [toks |-> IF flush THEN EncodeEOBRun(eobRun) ELSE <<>>, corr |-> bits, zr |-> 0]
      st1   == FoldLeft(RefineStep, st0, SubSeq(blk, 1, eob - 1))
      nz    == SelectSeq(SubSeq(blk, eob, csTo), LAMBDA c : c # 0)
      c2    == st1.corr \o [i \in 1..Len(nz) |-> nz[i] % 2]
      ends  == eob <= csTo
      r2    == (IF flush THEN 0 ELSE eobRun) + (IF ends THEN 1 ELSE 0)
      full  == ends /\ r2 = MaxEOBRun
  IN [err  |-> ends /\ MaxEOBRun = 0,
      toks |-> st1.toks \o (IF full THEN EncodeEOBRun(r2) \o Bits(c2) ELSE <<>>),
      run  |-> IF full THEN 0 ELSE r2,
      corr |-> IF full THEN <<>> ELSE c2]

\* encodeACRefine: the tokens, the new eobRun and correctionBits, and err
\* where the table has no EOB run symbol.
EncodeACRefine(blk, eobRun, bits) ==
  LET eob   == EobPos(blk)
      flush == eob > 1 /\ eobRun > 0
      st0   == [toks |-> IF flush THEN EncodeEOBRun(eobRun) \o Bits(bits) ELSE <<>>,
                corr |-> IF flush THEN <<>> ELSE bits, zr |-> 0]
      st1   == FoldLeft(RefineStep, st0, SubSeq(blk, 1, eob - 1))
      nz    == SelectSeq(SubSeq(blk, eob, csTo), LAMBDA c : c # 0)
      c2    == st1.corr \o [i \in 1..Len(nz) |-> nz[i] % 2]
      ends  == eob <= csTo
      r2    == (IF flush THEN 0 ELSE eobRun) + (IF ends THEN 1 ELSE 0)
      full  == ends /\ r2 = MaxEOBRun
  IN [err  |-> ends /\ MaxEOBRun = 0,
      toks |-> st1.toks \o (IF full THEN EncodeEOBRun(r2) \o Bits(c2) ELSE <<>>),
      run  |-> IF full THEN 0 ELSE r2,
      corr |-> IF full THEN <<>> ELSE c2]

\* One dpos: the block, and at the end of an interval the flush of the run
\* and its bits, the pad, FF RSTn unless dpos is the last padded position,
\* and the reset of eobRun and correctionBits.
RWriteStep ==
  /\ phase = "rwrite" /\ wr.dpos < Bc
  /\ IF wr.dpos \notin NaturalPos
     THEN wr' = [wr EXCEPT !.dpos = wr.dpos + 1] /\ UNCHANGED <<out, corr, phase>>
     ELSE LET e   == EncodeACRefine(rstored[wr.dpos], wr.eobRun, corr)
              bc  == wr.blockCount + 1
              rst == ri > 0 /\ bc >= ri
          IN IF e.err
             THEN phase' = "rrejected" /\ UNCHANGED <<wr, out, corr>>
             ELSE /\ out' = out \o e.toks
                           \o (IF rst /\ e.run > 0 THEN EncodeEOBRun(e.run) \o Bits(e.corr)
                               ELSE <<>>)
                           \o (IF rst /\ wr.dpos < Bc - 1 THEN <<<<"RST">>>> ELSE <<>>)
                  /\ wr' = [dpos |-> wr.dpos + 1, blockCount |-> IF rst THEN 0 ELSE bc,
                            eobRun |-> IF rst THEN 0 ELSE e.run]
                  /\ corr' = IF rst THEN <<>> ELSE e.corr
                  /\ UNCHANGED phase
  /\ UNCHANGED <<geom, eobSyms, kinds, enc, orig, rd, stored>>
  /\ UNCHANGED <<scan, csTo, band, renc, rstored>>

\* The flush of the pending run and its bits at the end of the scan.
RWriteEnd ==
  /\ phase = "rwrite" /\ wr.dpos = Bc
  /\ out' = out \o (IF wr.eobRun > 0 THEN EncodeEOBRun(wr.eobRun) \o Bits(corr) ELSE <<>>)
  /\ phase' = "rdone"
  /\ UNCHANGED <<geom, eobSyms, kinds, enc, orig, rd, stored, wr>>
  /\ UNCHANGED rvars

-----------------------------------------------------------------------------
\* parseScan's choice: an AC-first scan as in EobRun, or a refinement scan
\* over the block values the earlier scan left.
FirstInit ==
  /\ Init /\ scan = "first" /\ csTo = 0 /\ band = <<>> /\ rstored = <<>>
  /\ renc = [n |-> 0, run |-> 0, be |-> <<>>, split |-> FALSE] /\ corr = <<>>

RefineInit ==
  /\ scan = "refine"
  /\ \E sc \in RefScans : geom = sc.g /\ csTo = sc.len
  /\ band \in [NaturalPos -> [Band -> CoefVals]]
  /\ rstored = [d \in 0..Bc - 1 |->
                IF d \in NaturalPos THEN [p \in Band |-> Hist(band[d][p])] ELSE ZeroBlock]
  /\ renc = [n |-> 0, run |-> 0, be |-> <<>>, split |-> FALSE]
  /\ corr = <<>>
  /\ kinds = [d \in NaturalPos |-> "E"]
  /\ eobSyms = {}
  /\ enc = [n |-> 0, run |-> 0, split |-> FALSE]
  /\ orig = <<>>
  /\ rd = [dpos |-> 0, rstw |-> ri, prevEobrun |-> 0, tp |-> 1, eobrun |-> 0]
  /\ stored = [d \in 0..Bc - 1 |-> "E"]
  /\ phase = "rencode"
  /\ wr = [dpos |-> 0, blockCount |-> 0, eobRun |-> 0]
  /\ out = <<>>

RefineNext ==
  \/ REncodeBlock \/ REncodeSplit \/ REncodeTable
  \/ RReadBlock \/ RReadRestart
  \/ RWriteStep \/ RWriteEnd

ProgInit == FirstInit \/ RefineInit
ProgNext == (Next /\ UNCHANGED rvars) \/ RefineNext
ProgSpec == ProgInit /\ [][ProgNext]_allVars

-----------------------------------------------------------------------------
ScanTypeOK ==
  /\ scan \in {"first", "refine"}
  /\ scan = "first" => TypeOK
  /\ scan = "refine" =>
       /\ phase \in {"rencode", "rread", "rrst", "rwrite", "rdone", "rrejected"}
       /\ eobSyms \subseteq 0..14
       /\ rd.dpos \in 0..Bc /\ rd.eobrun \in Nat /\ rd.prevEobrun \in Nat
       /\ rstored \in [0..Bc - 1 -> [Band -> Int]]
       /\ wr.dpos \in 0..Bc /\ wr.eobRun \in 0..MaxEOBRun
       /\ corr \in Seq({0, 1})

\* The reader rebuilds every coefficient of the refined bit from the
\* earlier scan's value and the symbols, sign bits and correction bits of
\* the scan, with each correction bit used by the block it was written for,
\* whether it came after a run/level, a ZRL or an EOBn ending a run.
RefineReaderRecovers ==
  phase \in {"rwrite", "rdone"} =>
    /\ \A d \in NaturalPos : rstored[d] = band[d]
    /\ \A d \in (0..Bc - 1) \ NaturalPos : rstored[d] = ZeroBlock
    /\ rd.tp = Len(orig) + 1

\* A refinement scan whose runs end only where libjpeg ends them is
\* accepted, and encodeACRefine with the interval and end flushes writes it
\* back exactly: same symbols, same correction bits in the same places.
RefineRoundTrip ==
  ~renc.split =>
    /\ phase # "rrejected"
    /\ phase \in {"rwrite", "rdone"} => IsPrefix(out, orig)
    /\ phase = "rdone" => out = orig
====
