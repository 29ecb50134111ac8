------------------------------ MODULE MCLazDamage ------------------------------
EXTENDS LazDamage

Shape(size, counts, bytes, hits) ==
  [laszip |-> [compressor |-> "CHUNKED", chunk_size |-> size],
   counts |-> counts, bytes |-> bytes, hits |-> hits]

\* Chunks of two points and a last one not full, of one point, of varying size.
DamageShapes ==
  { Shape(2, <<2, 2, 1>>, <<3, 2, 3>>, 1),
    Shape(1, <<1, 1, 1>>, <<2, 3, 2>>, 2),
    Shape(0, <<1, 2, 1>>, <<2, 3, 2>>, 2) }

\* The second chunk takes half of U32MAX bytes, more than an I32 holds.
HugeChunk == { Shape(2, <<2, 2, 1>>, <<3, 16, 3>>, 0) }
==============================================================================
