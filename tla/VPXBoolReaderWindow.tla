-------------------------- MODULE VPXBoolReaderWindow --------------------------
(***************************************************************************)
(* The refill schedule of the 64-bit VPXBoolReader of                      *)
(* src/lepton/vpx_bool_reader.go, at the code's real width.               *)
(*                                                                         *)
(* The reader's value register holds stream bits above a guard marker,    *)
(* zeros below it.  get compares the register with a split that is a      *)
(* multiple of 1 << 56, so the comparison reads the right stream bits only *)
(* while the marker is below bit 56.  Each get moves the marker up by the *)
(* renormalising shift (0..7); vpxReaderFill moves it back to (marker & 7) *)
(* when the low byte is empty.  GetBit and GetNBits refill before every   *)
(* get that needs it, GetGrid once before its loop, GetUnaryEncoded only  *)
(* at iterations 0 and 7.                                                  *)
(*                                                                         *)
(* Abstraction: the register is reduced to its marker position, the range *)
(* to its top byte (range = rang >> 56, always 128..255 after a get), the *)
(* stream bits to a free choice of the decoded bit, and a Branch to its    *)
(* probability, a free choice from Probs.  The bytes read (and EOF, which *)
(* stops the byte loop but still moves the marker) do not affect either.  *)
(* The loops of GetNBits, GetGrid and GetUnaryEncoded take one step per    *)
(* iteration so that the marker at every comparison is visible; the      *)
(* reader is single-threaded, so nothing happens between those steps.     *)
(***************************************************************************)
EXTENDS Naturals

CONSTANTS
  Probs,      \* probabilities a Branch can return, a subset of 1..255
  UnaryLens,  \* len(branches) passed to GetUnaryEncoded (MaxExponent = 11)
  GridSizes,  \* len(branches) passed to GetGrid (64 for the 7x7 count, 8 for edges)
  NBitsLens   \* n passed to GetNBits (1..coefBits)

ASSUME Probs \subseteq 1..255

VARIABLES
  marker,     \* bit position of the guard bit in value (trailingZeros64)
  rang,       \* rang >> 56
  call,       \* the loop in progress: [kind, left, value, A] or [kind |-> "none"]
  compareAt   \* the marker position at the latest comparison (history)

vars == <<marker, rang, call, compareAt>>

Idle == [kind |-> "none"]

RECURSIVE BitLen(_)
\* bitLength.
BitLen(x) == IF x = 0 THEN 0 ELSE 1 + BitLen(x \div 2)

\* Mutant: mulProb without the + (1 << 56), so split can be 0.
MulProbNoBias(r, p) == ((r - 1) * p) \div 256

\* mulProb(rang << 56, p) >> 56.
MulProb(r, p) == (((r - 1) * p) \div 256) + 1

\* Mutant: the low-byte test of vpxReaderFill replaced by the valueMask test
\* of GetBit, so a fill only happens once the top byte is exhausted.
FillLate(m) == IF m >= 56 THEN m % 8 ELSE m

\* vpxReaderFill: an empty low byte (value & 0xFF == 0) means the marker is
\* at bit 8 or above; it moves to (shift & 7) with bytes read above it.
Fill(m) == IF m >= 8 THEN m % 8 ELSE m

\* GetBit's test before its get: value & valueMask == 0.
NeedsFill(m) == m >= 56

\* get, from marker m: the comparison is made at m; the new range and the
\* marker moved by leadingZeros64 of the new range.
Get(m, bit, p) ==
  LET split == MulProb(rang, p)
      r1    == IF bit THEN rang - split ELSE split
      shift == 8 - BitLen(r1)
  IN /\ rang' = r1 * 2^shift
     /\ marker' = m + shift
     /\ compareAt' = m

Init ==
  /\ marker = 63          \* value = 1 << 63 in NewVPXBoolReader
  /\ rang = 255
  /\ call = Idle
  /\ compareAt = 0

\* GetBit, including NewVPXBoolReader's sentinel read.
GetBit ==
  /\ call = Idle
  /\ \E bit \in BOOLEAN, p \in Probs :
       Get(IF NeedsFill(marker) THEN Fill(marker) ELSE marker, bit, p)
  /\ UNCHANGED call

\* GetNBits(n): one iteration per bit, each refilling when needed.
BeginGetNBits(n) ==
  /\ call = Idle
  /\ call' = [kind |-> "nbits", left |-> n, value |-> 0, A |-> n]
  /\ UNCHANGED <<marker, rang, compareAt>>

GetNBitsIteration ==
  /\ call.kind = "nbits"
  /\ \E bit \in BOOLEAN, p \in Probs :
       Get(IF NeedsFill(marker) THEN Fill(marker) ELSE marker, bit, p)
  /\ call' = IF call.left = 1 THEN Idle ELSE [call EXCEPT !.left = @ - 1]

\* GetGrid: a single vpxReaderFill, then bitLength(A) - 1 gets.
BeginGetGrid(A) ==
  /\ call = Idle
  /\ marker' = Fill(marker)
  /\ call' = [kind |-> "grid", left |-> BitLen(A) - 1, value |-> 0, A |-> A]
  /\ UNCHANGED <<rang, compareAt>>

GetGridIteration ==
  /\ call.kind = "grid"
  /\ \E bit \in BOOLEAN, p \in Probs : Get(marker, bit, p)
  /\ call' = IF call.left = 1 THEN Idle ELSE [call EXCEPT !.left = @ - 1]

\* GetUnaryEncoded: refill at value 0 and value 7; a false bit or reaching
\* A ends the loop.
BeginGetUnaryEncoded(A) ==
  /\ call = Idle
  /\ call' = [kind |-> "unary", left |-> A, value |-> 0, A |-> A]
  /\ UNCHANGED <<marker, rang, compareAt>>

GetUnaryIteration ==
  /\ call.kind = "unary"
  /\ \E bit \in BOOLEAN, p \in Probs :
       /\ Get(IF call.value = 0 \/ call.value = 7 THEN Fill(marker) ELSE marker,
              bit, p)
       /\ call' = IF ~bit \/ call.value + 1 = call.A THEN Idle
                  ELSE [call EXCEPT !.value = @ + 1, !.left = @ - 1]

Next ==
  \/ GetBit
  \/ \E n \in NBitsLens : BeginGetNBits(n)
  \/ GetNBitsIteration
  \/ \E A \in GridSizes : BeginGetGrid(A)
  \/ GetGridIteration
  \/ \E A \in UnaryLens : BeginGetUnaryEncoded(A)
  \/ GetUnaryIteration

Spec == Init /\ [][Next]_vars

-----------------------------------------------------------------------------
TypeOK ==
  /\ marker \in 0..63
  /\ rang \in 128..255
  /\ compareAt \in 0..63
  /\ call.kind \in {"none", "nbits", "grid", "unary"}

\* Every comparison of get is made with the guard marker below bit 56, so
\* the top byte of value holds real stream bits (or the zeros read past
\* EOF), whichever of GetBit, GetNBits, GetGrid and GetUnaryEncoded is
\* called in whatever order, with whatever probabilities and bits.
CompareWithinWindow == compareAt <= 55
=============================================================================
