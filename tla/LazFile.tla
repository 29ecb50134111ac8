------------------------------- MODULE LazFile -------------------------------
(***************************************************************************)
(* The point block of a LAZ file as LASwritePoint leaves it on the byte    *)
(* stream and as LASreadPoint finds it:                                    *)
(*                                                                         *)
(*   Base                 8 bytes that say where the chunk table starts    *)
(*                        (absent when the compressor is POINTWISE)        *)
(*   DataStart            chunk 1, chunk 2, ..., chunk n                   *)
(*   table.pos            the chunk table                                  *)
(*   (last 8 bytes)       table.pos again, on a stream that cannot seek    *)
(*                                                                         *)
(* Points are abstracted to their index in the order they were written,    *)
(* and the bytes of a chunk to their number: the k-th point of chunk c is  *)
(* chunks[c].first + k.  What the entropy coder does to the bytes is the   *)
(* subject of other modules.                                               *)
(***************************************************************************)
EXTENDS Integers, Sequences

CONSTANTS
  U32MAX,    \* the largest U32, also the sentinel "variable" and "not yet"
  Base       \* stream position at which the point block begins

ASSUME U32MAXAssumption == U32MAX \in Nat \ {0}
ASSUME BaseAssumption   == Base \in Nat

VARIABLES
  laszip,    \* the LASzip record of the VLR: compressor and chunk size
  fields,    \* the 8-byte table positions on the stream, by stream position
  chunks,    \* the chunks on the stream, in order
  table,     \* the chunk table, or NoTable
  npoints    \* number of points the header of the file declares

file == <<laszip, fields, chunks, table, npoints>>

Compressors == {"NONE", "POINTWISE", "CHUNKED", "LAYERED"}

Compressed == laszip.compressor # "NONE"
Chunked    == laszip.compressor \in {"CHUNKED", "LAYERED"}
Layered    == laszip.compressor = "LAYERED"

\* setup(): chunking is disabled by the size U32MAX, and so is a fixed size.
SetupChunkSize ==
  IF Chunked /\ laszip.chunk_size # 0 THEN laszip.chunk_size ELSE U32MAX

FieldBytes == 8

\* The table as the stream holds it: where it starts, the entries, how many of
\* them decode before the bytes end or go bad, and whether its position follows.
TableRec == [pos : Nat, entries : Seq([count : Nat, bytes : Nat]),
             readable : Nat, trailer : BOOLEAN]

NoTable == [pos |-> -1, entries |-> <<>>, readable |-> 0, trailer |-> FALSE]

DataStart == IF Chunked THEN Base + FieldBytes ELSE Base

\* How decoding a chunk fails after its first "ok" points: the stream ends,
\* the decoder throws, memory runs out, or nothing is noticed but the decoder
\* does not end where the chunk ends ("slip").
Faults == {"none", "eof", "throw", "memory", "slip"}

ChunkRec == [start : Nat, first : Nat, count : Nat, bytes : Nat, ok : Nat, fault : Faults]

Intact(start, first, count, bytes) ==
  [start |-> start, first |-> first, count |-> count, bytes |-> bytes,
   ok |-> count, fault |-> "none"]

\* Position behind the last chunk, where the next one begins.
ChunksEnd ==
  IF chunks = <<>> THEN DataStart
  ELSE chunks[Len(chunks)].start + chunks[Len(chunks)].bytes

PointsOnStream ==
  IF chunks = <<>> THEN 0
  ELSE chunks[Len(chunks)].first + chunks[Len(chunks)].count

PutField(pos, value) ==
  [p \in DOMAIN fields \cup {pos} |-> IF p = pos THEN value ELSE fields[p]]
==============================================================================
