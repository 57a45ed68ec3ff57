------------------------------- MODULE MCEobRun -------------------------------
EXTENDS ACRefine

G(bch, nch, bcv, ncv, r) == [Bch |-> bch, Nch |-> nch, Bcv |-> bcv, Ncv |-> ncv, ri |-> r]

\* Block grids with and without horizontal and vertical padding, with and
\* without restart intervals.  Where the grid has padding after its last
\* natural block, the interval does not divide the block count.
MCGeoms ==
  {G(2, 2, 2, 2, r) : r \in {0, 1, 3}} \cup {G(3, 2, 2, 2, r) : r \in {0, 3}}
  \cup {G(2, 2, 3, 2, r) : r \in {0, 3}} \cup {G(4, 3, 2, 2, r) : r \in {0, 4}}

\* A grid with padding after the last natural block whose interval divides
\* the block count: the last interval ends at the last natural block.
MCGeomsPadded == {G(3, 2, 2, 2, 2), G(2, 2, 3, 2, 4)}

\* Refinement scans: three blocks of a two-coefficient band, with a restart
\* interval, and with a padding column; two blocks of a three-coefficient
\* band, long enough for a ZRL when MaxRun is 1.
MCRefScans ==
  {[g |-> G(3, 3, 1, 1, 2), len |-> 2], [g |-> G(4, 3, 1, 1, 0), len |-> 2],
   [g |-> G(2, 2, 1, 1, 0), len |-> 3]}

\* Refined-bit values: new coefficients (1), and earlier nonzero ones with
\* correction bit 0 (2) and 1 (-3), of both signs.
MCCoefVals == {0, 1, 2, -3}
====
