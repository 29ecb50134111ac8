---------------------------- MODULE MCLazRoundTrip ----------------------------
EXTENDS LazRoundTrip

\* Chunks of varying size, of one point and of two, and no chunks at all.
RoundTripConfigs ==
  { [compressor |-> "CHUNKED", chunk_size |-> n] : n \in {0, 1, 2} }
  \cup { [compressor |-> "LAYERED", chunk_size |-> n] : n \in {0, 2} }
  \cup { [compressor |-> c, chunk_size |-> 0] : c \in {"NONE", "POINTWISE"} }
==============================================================================
