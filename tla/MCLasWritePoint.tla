--------------------------- MODULE MCLasWritePoint ---------------------------
(***************************************************************************)
(* LASwritePoint with a U32 of two bits, so that counts reach their width. *)
(* POINTWISE is left out: its count must stay below the width.             *)
(***************************************************************************)
EXTENDS LasWritePoint

WriteConfigs ==
  { [compressor |-> c, chunk_size |-> n] : c \in {"CHUNKED", "LAYERED"}, n \in {0, 1, 2} }
  \cup { [compressor |-> "NONE", chunk_size |-> 0] }
==============================================================================
