------------------------- MODULE MCIntegerCompressor -------------------------
(* All of an I32 of six bits, four bits of it, and ranges that are a power *)
(* of two and not; with bits to code in one step, and in two.              *)
EXTENDS IntegerCompressor

IntegerSetups ==
  { [bits |-> b, bits_high |-> h, range |-> 0] : b \in {0, 4, 6}, h \in {2, 4} }
  \cup { [bits |-> 6, bits_high |-> 2, range |-> r] : r \in {2, 5, 8, 11} }
==============================================================================
