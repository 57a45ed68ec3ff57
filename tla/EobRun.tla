-------------------------------- MODULE EobRun --------------------------------
(***************************************************************************)
(* EOB runs of a progressive AC-first scan of one component.              *)
(*                                                                         *)
(* Encoder side: readProgressiveACFirst (src/lepton/jpeg_read.go) decodes *)
(* a block when no run is pending (decodeACProgressiveFirst), checks the  *)
(* run it ends for optimality (CheckOptimalEobrun with getMaxEobRun),     *)
(* skips the rest of the run (SkipEobrun), moves on (NextMcuPos) and      *)
(* reads the restart markers.  Decoder side:                               *)
(* writeProgressiveScanNonInterleaved with encodeACFirst and              *)
(* encodeEOBRun (src/unnamed/part_001) batches blocks that end in zeros   *)
(* into runs of at most maxEOBRun (buildEncodeTable) and flushes them     *)
(* before a block with coefficients, at a restart and at the end.         *)
(*                                                                         *)
(* A block is abstracted to its shape in the band: "E" no coefficient,    *)
(* "T" coefficients then zeros, "F" coefficients up to CsTo.  The stream   *)
(* is a sequence of tokens: <<"C">> the coefficients of a T block,         *)
(* <<"CF">> those of an F block, <<"EOB", r>> the symbol EOBn with its     *)
(* additional bits for a run of r blocks (n = bit length of r minus 1),   *)
(* <<"RST">> pad bits and a restart marker.  The original is written by    *)
(* an encoder that ends a run only where it must (a block with            *)
(* coefficients, a restart, the end, or the longest run the table can     *)
(* code) or, when FreeSplit, anywhere, which ISO 10918-1 allows.          *)
(* Positions are the padded raster (dpos) of the component.               *)
(***************************************************************************)
EXTENDS Naturals, Sequences, SequencesExt, FiniteSets

CONSTANTS
  Geoms,            \* [Bch, Nch, Bcv, Ncv, ri]: block grid and restart interval
  EobBits,          \* the n of the symbols EOBn an AC table may have
  FreeSplit         \* the original encoder may end a run early

VARIABLES
  geom, eobSyms,
  kinds,    \* shape of each natural block, by dpos
  enc,      \* the original encoder: [n (natural index), run, split]
  orig,     \* the original tokens
  rd,       \* the reader: JpegPositionState fields and the token position
  stored,   \* shapes the reader stored, by dpos
  phase,    \* "encode", "read", "rst", "write", "done", "rejected"
  wr,       \* the writer: [dpos, blockCount, eobRun]
  out

vars == <<geom, eobSyms, kinds, enc, orig, rd, stored, phase, wr, out>>

ri == geom.ri
Bc == geom.Bch * geom.Bcv
NaturalPos == {d \in 0..Bc - 1 : d % geom.Bch < geom.Nch /\ d \div geom.Bch < geom.Ncv}
NumNatural == geom.Nch * geom.Ncv

\* The dpos of the n-th natural block (0-based).
PosOf(n) == (n \div geom.Nch) * geom.Bch + (n % geom.Nch)

MaxSet(S) == CHOOSE m \in S : \A x \in S : x <= m

RECURSIVE BitLen(_)
BitLen(x) == IF x = 0 THEN 0 ELSE 1 + BitLen(x \div 2)


\* getMaxEobRun: 2^n for the largest EOBn of the table, at least 1.
GetMaxEobRun == IF eobSyms = {} THEN 1 ELSE 2^MaxSet(eobSyms)

\* buildEncodeTable: maxEOBRun = (2 << n) - 1 for the largest EOBn, else 0.
MaxEOBRun == IF eobSyms = {} THEN 0 ELSE 2^(MaxSet(eobSyms) + 1) - 1

\* The tokens of encodeEOBRun: without EOBn in the table the code has
\* length 0 and only the additional bits are written.
EncodeEOBRun(r) ==
  IF r = 0 THEN <<>>
  ELSE IF BitLen(r) - 1 \in eobSyms THEN <<<<"EOB", r>>>> ELSE <<<<"BAD", r>>>>

Shapes == {"E", "T", "F"}
CoefTokens(k) == CASE k = "T" -> <<<<"C">>>> [] k = "F" -> <<<<"CF">>>> [] OTHER -> <<>>
EndsInZeros(k) == k \in {"E", "T"}

(***************************************************************************)
(* The original encoder (not this repository's code): one step per        *)
(* natural block as libjpeg's encode_mcu_AC_first, which ends a run only  *)
(* before coefficients, at a restart and at the end (32767 is out of      *)
(* reach here); its optimized table has the EOBn it used, maybe more.     *)
(***************************************************************************)
OrigFlush(r) == IF r = 0 THEN <<>> ELSE <<<<"EOB", r>>>>

EncodeBlock ==
  /\ phase = "encode" /\ enc.n < NumNatural
  /\ LET k    == kinds[PosOf(enc.n)]
         r1   == IF k = "E" THEN enc.run ELSE 0
         r2   == IF EndsInZeros(k) THEN r1 + 1 ELSE r1
         rst  == ri > 0 /\ (enc.n + 1) % ri = 0
         last == enc.n + 1 = NumNatural
         toks == (IF k = "E" THEN <<>> ELSE OrigFlush(enc.run)) \o CoefTokens(k)
                 \o (IF rst \/ last THEN OrigFlush(r2) ELSE <<>>)
                 \o (IF rst /\ ~last THEN <<<<"RST">>>> ELSE <<>>)
     IN /\ orig' = orig \o toks
        /\ enc' = [enc EXCEPT !.n = enc.n + 1, !.run = IF rst \/ last THEN 0 ELSE r2]
  /\ UNCHANGED <<geom, eobSyms, kinds, rd, stored, phase, wr, out>>

\* Ending a run early, between two blocks: legal JPEG, never done by libjpeg.
EncodeSplit ==
  /\ FreeSplit /\ phase = "encode" /\ enc.run > 0
  /\ orig' = orig \o OrigFlush(enc.run)
  /\ enc' = [enc EXCEPT !.run = 0, !.split = TRUE]
  /\ UNCHANGED <<geom, eobSyms, kinds, rd, stored, phase, wr, out>>

UsedEobBits == {BitLen(orig[i][2]) - 1 : i \in {j \in DOMAIN orig : orig[j][1] = "EOB"}}

EncodeTable ==
  /\ phase = "encode" /\ enc.n = NumNatural
  /\ \E extra \in SUBSET EobBits : eobSyms' = UsedEobBits \cup extra
  /\ phase' = "read"
  /\ UNCHANGED <<geom, kinds, enc, orig, rd, stored, wr, out>>

(***************************************************************************)
(* The reader: one iteration of the inner loop of readProgressiveACFirst. *)
(***************************************************************************)
\* Mutant: PrevEobrun survives the restart.
ResetRstwKeepPrev(s) == [s EXCEPT !.rstw = ri]

\* JpegPositionState.ResetRstw.
ResetRstw(s) == [s EXCEPT !.rstw = ri, !.prevEobrun = 0]

\* decodeACProgressiveFirst on the tokens at tp: the shape, the Eobrun it
\* leaves (run - 1), the tokens it consumes; ok is FALSE where the next
\* symbol cannot start or end the block.
Tok(i) == IF i <= Len(orig) THEN orig[i] ELSE <<"END">>
DecodeACProgressiveFirst(tp) ==
  CASE Tok(tp)[1] = "CF" -> [ok |-> TRUE, k |-> "F", eobrun |-> 0, used |-> 1]
    [] Tok(tp)[1] = "C" /\ Tok(tp + 1)[1] = "EOB" ->
         [ok |-> TRUE, k |-> "T", eobrun |-> Tok(tp + 1)[2] - 1, used |-> 2]
    [] Tok(tp)[1] = "EOB" -> [ok |-> TRUE, k |-> "E", eobrun |-> Tok(tp)[2] - 1, used |-> 1]
    [] OTHER -> [ok |-> FALSE, k |-> "E", eobrun |-> 0, used |-> 0]

\* JpegPositionState.CheckOptimalEobrun: FALSE where it returns an error.
CheckOptimalEobrun(s, empty, maxEobRun) ==
  ~(empty /\ s.prevEobrun > 0 /\ s.prevEobrun < maxEobRun - 1)

\* JpegPositionState.SkipEobrun: the new state and the status.
SkipEobrun(s, eobrun) ==
  LET g  == geom
      d1 == IF g.Bch # g.Nch
            THEN s.dpos + (((s.dpos % g.Bch) + eobrun) \div g.Nch) * (g.Bch - g.Nch)
            ELSE s.dpos
      d2 == IF g.Bcv # g.Ncv /\ d1 \div g.Bch >= g.Ncv THEN d1 + (g.Bcv - g.Ncv) * g.Bch ELSE d1
      d3 == d2 + eobrun
      w  == s.rstw - eobrun
  IN CASE eobrun = 0 -> [st |-> s, sta |-> "progress"]
       [] ri > 0 /\ eobrun > s.rstw -> [st |-> s, sta |-> "error"]
       [] OTHER ->
            LET s2 == [s EXCEPT !.dpos = d3, !.rstw = IF ri > 0 THEN w ELSE s.rstw]
            IN [st |-> s2,
                sta |-> CASE d3 = Bc -> "completed"
                          [] d3 > Bc -> "error"
                          [] ri > 0 /\ w = 0 -> "expired"
                          [] OTHER -> "progress"]

\* JpegPositionState.nextMcuPosNonInterleaved.
NextMcuPosNonInterleaved(s) ==
  LET g  == geom
      d1 == s.dpos + 1
      d2 == IF g.Bch # g.Nch /\ d1 % g.Bch = g.Nch THEN d1 + g.Bch - g.Nch ELSE d1
      d3 == IF g.Bcv # g.Ncv /\ d2 \div g.Bch = g.Ncv THEN Bc ELSE d2
  IN IF d3 >= Bc THEN [st |-> [s EXCEPT !.dpos = d3], sta |-> "completed"]
     ELSE IF ri > 0
          THEN [st |-> [s EXCEPT !.dpos = d3, !.rstw = s.rstw - 1],
                sta |-> IF s.rstw - 1 = 0 THEN "expired" ELSE "progress"]
          ELSE [st |-> [s EXCEPT !.dpos = d3], sta |-> "progress"]

AfterStatus(sta) ==
  CASE sta = "completed" -> "write" [] sta = "expired" -> "rst" [] OTHER -> "read"

\* Mutant: the shape is stored at the position SkipEobrun leaves.
ReadBlockStoreAfterSkip ==
  /\ phase = "read"
  /\ LET dec  == DecodeACProgressiveFirst(rd.tp)
         okEb == CheckOptimalEobrun(rd, dec.k = "E", GetMaxEobRun)
         s1   == [rd EXCEPT !.tp = rd.tp + dec.used, !.prevEobrun = dec.eobrun]
         sk   == SkipEobrun(s1, dec.eobrun)
         nx   == IF sk.sta = "progress" THEN NextMcuPosNonInterleaved(sk.st) ELSE sk
     IN IF ~dec.ok \/ ~okEb \/ sk.sta = "error"
        THEN phase' = "rejected" /\ UNCHANGED <<rd, stored>>
        ELSE /\ stored' = [stored EXCEPT ![sk.st.dpos] = dec.k]
             /\ rd' = nx.st
             /\ phase' = AfterStatus(nx.sta)
  /\ UNCHANGED <<geom, eobSyms, kinds, enc, orig, wr, out>>

ReadBlock ==
  /\ phase = "read"
  /\ LET dec  == DecodeACProgressiveFirst(rd.tp)
         okEb == CheckOptimalEobrun(rd, dec.k = "E", GetMaxEobRun)
         s1   == [rd EXCEPT !.tp = rd.tp + dec.used, !.prevEobrun = dec.eobrun]
         sk   == SkipEobrun(s1, dec.eobrun)
         nx   == IF sk.sta = "progress" THEN NextMcuPosNonInterleaved(sk.st) ELSE sk
     IN IF ~dec.ok \/ ~okEb \/ sk.sta = "error"
        THEN phase' = "rejected" /\ UNCHANGED <<rd, stored>>
        ELSE /\ stored' = [stored EXCEPT ![rd.dpos] = dec.k]
             /\ rd' = nx.st
             /\ phase' = AfterStatus(nx.sta)
  /\ UNCHANGED <<geom, eobSyms, kinds, enc, orig, wr, out>>

\* ReadAndVerifyFillBits, VerifyResetCode and ResetRstw at an expired interval.
ReadRestart ==
  /\ phase = "rst"
  /\ IF Tok(rd.tp) = <<"RST">>
     THEN rd' = ResetRstw([rd EXCEPT !.tp = rd.tp + 1]) /\ phase' = "read"
     ELSE phase' = "rejected" /\ UNCHANGED rd
  /\ UNCHANGED <<geom, eobSyms, kinds, enc, orig, stored, wr, out>>

(***************************************************************************)
(* The writer: one iteration of writeProgressiveScanNonInterleaved per   *)
(* dpos, with encodeACFirst, then the flush at the end of the scan.       *)
(***************************************************************************)
\* Mutant: the run is not flushed when it reaches maxEOBRun.
EncodeACFirstNoCap(k, eobRun) ==
  [toks |-> (IF k = "E" THEN <<>> ELSE EncodeEOBRun(eobRun)) \o CoefTokens(k),
   run |-> IF EndsInZeros(k) THEN (IF k = "E" THEN eobRun ELSE 0) + 1 ELSE 0]

\* encodeACFirst: the tokens and the new eobRun.
EncodeACFirst(k, eobRun) ==
  LET r1 == IF EndsInZeros(k) THEN (IF k = "E" THEN eobRun ELSE 0) + 1
            ELSE 0
      full == EndsInZeros(k) /\ r1 = MaxEOBRun
  IN [toks |-> (IF k = "E" THEN <<>> ELSE EncodeEOBRun(eobRun)) \o CoefTokens(k)
               \o (IF full THEN EncodeEOBRun(r1) ELSE <<>>),
      run |-> IF full THEN 0 ELSE r1]

WriteStep ==
  /\ phase = "write" /\ wr.dpos < Bc
  /\ IF wr.dpos \notin NaturalPos
     THEN wr' = [wr EXCEPT !.dpos = wr.dpos + 1] /\ UNCHANGED out
     ELSE LET e   == EncodeACFirst(stored[wr.dpos], wr.eobRun)
              bc  == wr.blockCount + 1
              rst == ri > 0 /\ bc >= ri
          IN /\ out' = out \o e.toks
                       \o (IF rst THEN EncodeEOBRun(e.run) ELSE <<>>)
                       \o (IF rst /\ wr.dpos < Bc - 1 THEN <<<<"RST">>>> ELSE <<>>)
             /\ wr' = [dpos |-> wr.dpos + 1, blockCount |-> IF rst THEN 0 ELSE bc,
                       eobRun |-> IF rst THEN 0 ELSE e.run]
  /\ UNCHANGED <<geom, eobSyms, kinds, enc, orig, rd, stored, phase>>

WriteEnd ==
  /\ phase = "write" /\ wr.dpos = Bc
  /\ out' = out \o EncodeEOBRun(wr.eobRun)
  /\ phase' = "done"
  /\ UNCHANGED <<geom, eobSyms, kinds, enc, orig, rd, stored, wr>>

Init ==
  /\ geom \in Geoms
  /\ kinds \in [NaturalPos -> Shapes]
  /\ eobSyms = {}
  /\ enc = [n |-> 0, run |-> 0, split |-> FALSE]
  /\ orig = <<>>
  /\ rd = [dpos |-> 0, rstw |-> ri, prevEobrun |-> 0, tp |-> 1]
  /\ stored = [d \in 0..Bc - 1 |-> "E"]
  /\ phase = "encode"
  /\ wr = [dpos |-> 0, blockCount |-> 0, eobRun |-> 0]
  /\ out = <<>>

Next ==
  \/ EncodeBlock \/ EncodeSplit \/ EncodeTable
  \/ ReadBlock \/ ReadRestart
  \/ WriteStep \/ WriteEnd

Spec == Init /\ [][Next]_vars

-----------------------------------------------------------------------------
TypeOK ==
  /\ phase \in {"encode", "read", "rst", "write", "done", "rejected"}
  /\ eobSyms \subseteq 0..14
  /\ rd.dpos \in 0..Bc /\ rd.rstw \in Nat /\ rd.prevEobrun \in Nat
  /\ stored \in [0..Bc - 1 -> Shapes]
  /\ wr.dpos \in 0..Bc /\ wr.eobRun \in 0..MaxEOBRun

\* The scan the reader accepts is the blocks encoded: SkipEobrun and
\* nextMcuPosNonInterleaved put every decoded shape at its block and leave
\* the padding and the skipped blocks empty.
ReaderRecoversBlocks ==
  phase \in {"write", "done"} =>
    /\ \A d \in NaturalPos : stored[d] = kinds[d]
    /\ \A d \in (0..Bc - 1) \ NaturalPos : stored[d] = "E"
    /\ rd.tp = Len(orig) + 1

\* The writer reproduces the tokens it is given, in order, and all of them.
Reproduced ==
  /\ phase \in {"write", "done"} => IsPrefix(out, orig)
  /\ phase = "done" => out = orig

\* A scan whose runs end only where libjpeg ends them is accepted, and the
\* writer's batching (encodeACFirst up to maxEOBRun, the flushes at a
\* restart and at the end) writes it back exactly.
RoundTrip == ~enc.split => (phase # "rejected" /\ Reproduced)
====
