-------------------------------- MODULE Branch --------------------------------
(***************************************************************************)
(* The adaptive probability cell of the VP8 coder, src/lepton/branch.go.  *)
(* The state is the packed uint16 "counts": false count in the high byte,  *)
(* true count in the low byte.  RecordAndUpdateBit rotates the word so the *)
(* observed side is in the high byte, adds 0x100 with uint16 wrap-around,  *)
(* normalises on overflow and rotates back.  The bit operations of the Go  *)
(* code are written with their arithmetic meaning on 16-bit words:         *)
(* x >> 8 is x \div 256, x << 8 is (x * 256) % 2^16, x & 0xFF is x % 256,  *)
(* and "| mask" is "+ mask" where the low byte of mask is zero.            *)
(***************************************************************************)
EXTENDS Naturals

VARIABLE counts

\* uint16 addition of the Go code.
Add16(a, b) == (a + b) % 65536

\* (c >> 8) | (c << 8) on a uint16: swaps the two count bytes.
Rotate8(c) == (c \div 256) + ((c * 256) % 65536)

\* probLookup[c] built in init(): uint8((a << 8) / (a + b)).
GetProbability(c) ==
  LET a == c \div 256
      b == c % 256
  IN IF a + b > 0 THEN ((a * 256) \div (a + b)) % 256 ELSE 0

\* A plausible slip in the normalisation: rounding down instead of up, so a
\* count of 1 on the other side becomes 0.
NewCountsNoRoundUp(c, bit) ==
  LET orig == IF bit THEN Rotate8(c) ELSE c
      sum0 == Add16(orig, 256)
      mask == IF orig = 65281 THEN 65280 ELSE 33024
      sum  == IF sum0 < orig THEN (sum0 % 256) \div 2 + mask ELSE sum0
  IN IF bit THEN Rotate8(sum) ELSE sum

\* A plausible slip in the rotation: the word is not rotated back after a
\* true bit, so the true count is left in the high (false) byte.
NewCountsNoRotateBack(c, bit) ==
  LET orig == IF bit THEN Rotate8(c) ELSE c
      sum0 == Add16(orig, 256)
      mask == IF orig = 65281 THEN 65280 ELSE 33024
      sum  == IF sum0 < orig THEN (1 + (sum0 % 256)) \div 2 + mask ELSE sum0
  IN sum

\* A plausible simplification of the normalisation: the 0xff01 case dropped,
\* so every overflow halves the observed count to 0x81.
NewCountsNoSaturation(c, bit) ==
  LET orig == IF bit THEN Rotate8(c) ELSE c
      sum0 == Add16(orig, 256)
      sum  == IF sum0 < orig THEN (1 + (sum0 % 256)) \div 2 + 33024 ELSE sum0
  IN IF bit THEN Rotate8(sum) ELSE sum

\* RecordAndUpdateBit: the value counts takes after observing bit.
\* 65281 = 0xff01, 65280 = 0xff00, 33024 = 0x8100.
NewCounts(c, bit) ==
  LET orig == IF bit THEN Rotate8(c) ELSE c
      sum0 == Add16(orig, 256)
      mask == IF orig = 65281 THEN 65280 ELSE 33024
      sum  == IF sum0 < orig THEN (1 + (sum0 % 256)) \div 2 + mask ELSE sum0
  IN IF bit THEN Rotate8(sum) ELSE sum

\* NewBranch.
Init == counts = 257

RecordAndUpdateBit(bit) == counts' = NewCounts(counts, bit)

Next == \E bit \in BOOLEAN : RecordAndUpdateBit(bit)

Spec == Init /\ [][Next]_counts

-----------------------------------------------------------------------------
\* The probability GetProbability gives of a false bit, from that of a true one
\* when bit is TRUE: the side RecordAndUpdateBit has just observed.
ProbOf(c, bit) == IF bit THEN 256 - GetProbability(c) ELSE GetProbability(c)

\* Recording a bit never lowers the probability of that bit by more than one
\* step of 1/256 (the halving on overflow in RecordAndUpdateBit may lose one
\* rounding step), and once a long run of one bit has driven the probability
\* to its extreme (counts 0xff01 or 0x01ff) a further such bit keeps it there:
\* the 0xff01 case of the normalisation exists for this.
AdaptsTowardObservedBit ==
  [][\A bit \in BOOLEAN :
       counts' = NewCounts(counts, bit) =>
         /\ ProbOf(counts', bit) >= ProbOf(counts, bit) - 1
         /\ ProbOf(counts, bit) = 255 => ProbOf(counts', bit) = 255]_counts

\* Whatever sequence of bits is recorded, neither count ever drops to zero,
\* so GetProbability stays within 1..255: a zero true count would make the
\* uint8 conversion of 256 wrap to 0 and the coder's split would collapse.
ProbabilityInRange ==
  /\ counts \div 256 >= 1
  /\ counts % 256 >= 1
  /\ GetProbability(counts) \in 1..255

\* The packed, rotating update of RecordAndUpdateBit implements the counter
\* pair semantics of BranchCounts under the mapping high byte = false count,
\* low byte = true count.
Abstract == INSTANCE BranchCounts
              WITH falseCount <- counts \div 256, trueCount <- counts % 256

ImplementsBranchCounts == Abstract!Spec
=============================================================================
