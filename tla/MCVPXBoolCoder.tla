---------------------------- MODULE MCVPXBoolCoder ----------------------------
EXTENDS VPXBoolCoder

\* One flushed byte per writer flush, a reader window of 30 bits (room for
\* the three gets GetGrid makes after its one fill), and probabilities at
\* both extremes of GetProbability and at the fresh-branch value.
MCW == 24
MCWD == 30
MCProbs == {1, 128, 255}

\* Five bits (value, probability) after which the low value sits just below
\* a byte boundary with a 0x13 byte flushed: the next few operations can
\* flush a 0xFF byte and then carry into it.
MCCarryPrefix ==
  << [kind |-> "bit", val |-> 0, p |-> 41], [kind |-> "bit", val |-> 1, p |-> 242],
     [kind |-> "bit", val |-> 0, p |-> 95], [kind |-> "bit", val |-> 1, p |-> 136],
     [kind |-> "bit", val |-> 0, p |-> 9] >>
\* Three operations from the fresh writer, and three from the carry prefix.
MCStartOps == {<< >>, MCCarryPrefix}
=============================================================================
