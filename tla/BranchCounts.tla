----------------------------- MODULE BranchCounts -----------------------------
(***************************************************************************)
(* What an adaptive Branch promises, read as a pair of counters rather    *)
(* than as the packed 16-bit word (src/lepton/branch.go, the comment of   *)
(* RecordAndUpdateBit): the observed side is incremented; when it would    *)
(* pass 255 both sides are roughly halved, except that a 255-to-1 pair     *)
(* stays where it is so that long runs keep a strongly biased estimate.    *)
(***************************************************************************)
EXTENDS Naturals

VARIABLES falseCount, trueCount

Count == 1..255

Init == falseCount = 1 /\ trueCount = 1

\* Counting one more observation on a side whose counter is "seen" while the
\* other side's counter is "other": the new value of the pair (seen, other).
Observe(seen, other) ==
  IF seen < 255 THEN <<seen + 1, other>>
  ELSE IF other = 1 THEN <<255, 1>>
  ELSE <<129, (other + 1) \div 2>>

ObserveFalse ==
  LET p == Observe(falseCount, trueCount)
  IN falseCount' = p[1] /\ trueCount' = p[2]

ObserveTrue ==
  LET p == Observe(trueCount, falseCount)
  IN trueCount' = p[1] /\ falseCount' = p[2]

Next == ObserveFalse \/ ObserveTrue

Spec == Init /\ [][Next]_<<falseCount, trueCount>>
=============================================================================
