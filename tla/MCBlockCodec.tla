---------------------------- MODULE MCBlockCodec ----------------------------
(***************************************************************************)
(* Bounds for BlockCodec.  The AC shapes cover an all-zero block, runs of *)
(* 0, 15, 16 and 45 zeros (ZRL and run 15), categories 1 and 2 of both    *)
(* signs, and a block ending in a non-zero coefficient (no EOB).  DC     *)
(* values 0, -1 and 2 give differences of categories 0, 1 and 2.  Every  *)
(* code-length profile of up to MaxLen bits that fits the code space is a *)
(* possible DHT, so lengths with no codes occur between used lengths.     *)
(***************************************************************************)
EXTENDS BlockCodec

Sparse(pairs) == [i \in 1..63 |-> IF \E p \in pairs : p[1] = i
                                  THEN (CHOOSE p \in pairs : p[1] = i)[2] ELSE 0]

MCShapes == {Sparse({}), Sparse({<<1, 1>>, <<2, -2>>}),
             Sparse({<<17, -1>>, <<63, 2>>}), Sparse({<<1, -1>>, <<17, 1>>})}

MCBlocks == {[dc |-> d, ac |-> a] : d \in {0, -1, 2}, a \in MCShapes}

MCDcSymbols == <<0, 1, 2>>
MCAcSymbols == <<1, 0, 2, 240, 241, 210>>

\* NumCodes vectors for n symbols with lengths 1..maxLen and Kraft sum <= 1.
Profiles(n, maxLen) ==
  { [b \in 1..16 |-> IF b <= maxLen THEN v[b] ELSE 0] :
      v \in { v \in [1..maxLen -> 0..n] :
                /\ FoldLeft(LAMBDA a, b : a + v[b], 0, [i \in 1..maxLen |-> i]) = n
                /\ FoldLeft(LAMBDA a, b : a + v[b] * 2^(maxLen - b), 0,
                            [i \in 1..maxLen |-> i]) <= 2^maxLen } }

MCDcProfiles == Profiles(3, 3)
MCAcProfiles == Profiles(6, 4)
=============================================================================
