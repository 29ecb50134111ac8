------------------------- MODULE LazRoundTripProofs -------------------------
(***************************************************************************)
(* That LASreadPoint reads back what LASwritePoint has written: for every  *)
(* chunk size, any number of points, chunks and bytes, and any reads and   *)
(* seeks in between, writer and reader together implement the point store. *)
(***************************************************************************)
EXTENDS LazRoundTrip, LasWritePointProofs, Induction

(***************************************************************************)
(* What is taken of the file and the caller.  The widths of the numbers in *)
(* the file must suffice: a chunk fits an I32, and so do the points of a   *)
(* chunk whose number is tabled; the chunk table has room to grow.  The    *)
(* points do not begin at position 0, which stands for "not yet            *)
(* positioned".  No empty chunks are made, an encoder that is done is not  *)
(* given more to do, and the reader stops when a call has failed.          *)
(***************************************************************************)
NothingOverflows ==
  /\ CountsStayNarrow
  /\ \A b \in ChunkBytes : b <= U32MAX \div 2
  /\ MaxPoints <= U32MAX \div 2 \/ \A c \in Configs : c.chunk_size \notin {0, U32MAX}
  /\ MaxChunks + GrowBy + 1 < U32MAX
  /\ MaxTaken + MaxPoints + 1 < U32MAX \/ \A c \in Configs : c.compressor # "POINTWISE"
  /\ Base > 0
  /\ ~EmptyChunks /\ ~Overdo
  /\ AfterFailure = {}

------------------------------------------------------------------------------
(* The file *)

\* Where chunk c starts, and with which point; also behind the last one.
StartOf(c) == IF c <= Len(chunks) THEN chunks[c].start ELSE ChunksEnd
FirstOf(c) == IF c <= Len(chunks) THEN chunks[c].first ELSE PointsOnStream

IsWhole(chunk) == chunk.ok = chunk.count /\ chunk.fault = "none"
IsTorn(chunk)  == chunk.ok < chunk.count /\ chunk.fault = "eof"

\* The encoder works on the open chunk until it is put, as a chunk of its size.
OpenChunkOnStream ==
  phase = "open" /\ Chunked =>
    /\ put = <<>> /\ chunk_count > 0 => enc = "active"
    /\ put # <<>> => end - ChunksEnd \in ChunkBytes

\* What a crash may leave of the table: a part of it, behind all the chunks.
TornTable ==
  /\ Chunked /\ ~table.trailer
  /\ npoints = PointsOnStream
  /\ \A i \in 1 .. Len(chunks) : IsWhole(chunks[i]) /\ chunks[i].bytes <= U32MAX \div 2
  /\ table.entries \in Seq([count : Nat, bytes : Nat]) /\ Len(table.entries) = Len(chunks)
  /\ \A i \in 1 .. Len(chunks) : table.entries[i].bytes = chunks[i].bytes % (U32MAX + 1)
  /\ table.readable \in 0 .. Len(chunks)
  /\ fields[Base] = -1 \/ table.readable < Len(chunks)

\* The chunks a crash leaves are whole, and full but for the last, which may be
\* torn.  (Without chunks the one stream is.)
CrashedFile ==
  /\ BackToBack
  /\ PointsOnStream <= npoints
  /\ \A i \in 1 .. Len(chunks) :
       IF IsWhole(chunks[i])
       THEN Chunked /\ (i < Len(chunks) /\ ~Variable => chunks[i].count = chunk_size)
       ELSE i = Len(chunks) /\ IsTorn(chunks[i])
  /\ table = NoTable \/ TornTable

\* What of the file the writer's own invariant does not tell.
FileInv ==
  /\ chunk_size = SetupChunkSize
  /\ number_chunks <= MaxChunks /\ npoints <= MaxPoints
  /\ \A i \in 1 .. Len(chunks) : chunks[i].bytes >= 1 /\ chunks[i].count \in 1 .. chunk_size
  /\ ~Compressed => chunks = <<>> /\ phase # "crashed"
  /\ ~Chunked => Len(chunks) <= 1
  /\ Chunked => Len(chunks) <= MaxChunks + 1 /\ DOMAIN fields = {Base}
  /\ ~(Chunked /\ phase \in {"closed", "crashed"}) => table = NoTable
  /\ phase # "crashed" =>
       /\ \A i \in 1 .. Len(chunks) :
            IsWhole(chunks[i]) /\ (Chunked => chunks[i].bytes <= U32MAX \div 2)
       /\ OpenChunkOnStream
  /\ phase = "crashed" => CrashedFile

------------------------------------------------------------------------------
(* The reader *)

\* The reader is a record of these fields.
IsReader(r) ==
  r = [readers |-> r.readers, chunk_size |-> r.chunk_size, chunk_count |-> r.chunk_count,
       current_chunk |-> r.current_chunk, number_chunks |-> r.number_chunks,
       tabled_chunks |-> r.tabled_chunks, chunk_starts |-> r.chunk_starts,
       chunk_totals |-> r.chunk_totals, point_start |-> r.point_start, here |-> r.here,
       chunk |-> r.chunk, decoded |-> r.decoded]

\* Reader r has taken the first k points of chunk c.
Standing(r, c, k) ==
  /\ c \in 1 .. Len(chunks) + 1
  /\ \/ r.readers = "none" /\ k = 0 /\ r.here = StartOf(c)
     \/ /\ r.readers = "compressed" /\ c <= Len(chunks)
        /\ r.chunk = c /\ r.decoded = k
        /\ k \in 1 .. chunks[c].ok /\ r.here = HereAfter(c, k)

AllAreFull == \A i \in 1 .. Len(chunks) : chunks[i].count = chunk_size

\* The table of the reader has true starts of chunks that can be read up to.
StartsAreTrue(r) ==
  /\ r.tabled_chunks \in 1 .. Len(chunks) + 1
  /\ DOMAIN r.chunk_starts = 0 .. r.tabled_chunks - 1
  /\ \A i \in 0 .. r.tabled_chunks - 1 :
       r.chunk_starts[i] = StartOf(i + 1) /\ FirstOf(i + 1) <= Readable
  /\ r.number_chunks \in 0 .. Len(chunks) + GrowBy
  /\ phase = "crashed" /\ r.tabled_chunks > Len(chunks) => AllAreFull

\* Chunks of variable size have totals, those of fixed size do not need them.
SizesAreTrue(r) ==
  IF Variable
  THEN /\ phase = "closed" /\ in_seekable
       /\ r.number_chunks = Len(chunks) /\ r.tabled_chunks = Len(chunks) + 1
       /\ r.chunk_totals = [i \in 0 .. Len(chunks) |-> FirstOf(i + 1)]
       /\ IF chunks = <<>> THEN r.chunk_size = 0
          ELSE /\ r.current_chunk < Len(chunks)
               /\ r.chunk_size = chunks[r.current_chunk + 1].count
  ELSE r.chunk_totals = Null /\ r.chunk_size = chunk_size

\* Reader r is in front of point n of a file in chunks ...
InChunks(r, n) ==
  /\ r.point_start # 0
  /\ r.current_chunk \in 0 .. r.tabled_chunks - 1
  /\ Standing(r, r.current_chunk + 1, r.chunk_count)
  /\ n = FirstOf(r.current_chunk + 1) + r.chunk_count
  /\ StartsAreTrue(r)
  /\ SizesAreTrue(r)

\* ... or of one that is a single stream, which is tabled like a chunk when it is
\* read before it is sought in; the count of its points is not reset by seek() ...
InStream(r, n, left) ==
  /\ r.point_start = Base
  /\ r.current_chunk = 0
  /\ r.chunk_totals = Null /\ r.chunk_size = U32MAX
  /\ Standing(r, 1, n)
  /\ \/ r.chunk_starts = Null /\ r.tabled_chunks = 0 /\ r.number_chunks = 0
     \/ /\ r.chunk_starts = [i \in {0} |-> Base] /\ r.tabled_chunks = 1
        /\ r.number_chunks = GrowBy
        /\ r.chunk_count = n
  /\ r.chunk_count \in Nat
  /\ r.chunk_count + left <= MaxTaken + MaxPoints + 1

\* ... or of points that are not compressed.
InRaw(r, n) == r.readers = "raw" /\ r.here = Base + n

\* The reader is in front of point n, with "left" points to be skipped.
At(r, n, left) ==
  /\ IsReader(r)
  /\ n \in 0 .. Readable
  /\ \/ r = NewReader /\ n = 0
     \/ Chunked /\ InChunks(r, n)
     \/ Compressed /\ ~Chunked /\ InStream(r, n, left)
     \/ ~Compressed /\ InRaw(r, n)

Fresh ==
  /\ reader = NewReader /\ in_seekable \in BOOLEAN
  /\ p_count = 0 /\ delta = 0 /\ failed = FALSE
  /\ result = [op |-> "open", ok |-> TRUE, point |-> Garbage]

Arrived ==
  IF delta = 0 THEN At(reader, p_count, 0)
  ELSE target \in delta .. npoints /\ At(reader, target - delta, delta)

ReadInv ==
  /\ in_seekable \in BOOLEAN /\ failed \in BOOLEAN
  /\ delta \in Nat
  /\ p_count \in 0 .. Readable
  /\ IF failed THEN delta = 0 ELSE Arrived

\* A finished file whose points can be sought is never refused.
NeverRefused == phase = "closed" /\ in_seekable /\ npoints > 0 => ~failed

IInv ==
  /\ WriterInv /\ FileInv
  /\ session \in {"writing", "reading"}
  /\ session = "writing" => Fresh
  /\ session = "reading" => phase \in {"closed", "crashed"} /\ ReadInv /\ NeverRefused

------------------------------------------------------------------------------
(* The writer *)

\* Everything in the assumptions that is about the writer.
LEMMA Bounds ==
  ASSUME NothingOverflows
  PROVE  /\ CountsStayNarrow /\ ~Overdo
         /\ U32MAX \in Nat \ {0} /\ Base \in Nat \ {0} /\ MaxPoints \in Nat /\ MaxChunks \in Nat
         /\ GrowBy \in Nat \ {0} /\ MaxTaken \in Nat
         /\ MaxChunks + GrowBy + 1 < U32MAX
         /\ U32MAX \div 2 \in Nat
         /\ ChunkBytes \subseteq Nat \ {0}
         /\ \A a \in ChunkBytes : a <= U32MAX \div 2
  <1>1. U32MAX \div 2 \in Nat
    BY U32MAXAssumption
  <1>2. GrowBy \in Nat \ {0} /\ MaxTaken \in Nat
    BY ReaderAssumption, U32MAXAssumption
  <1>. QED BY <1>1, <1>2, U32MAXAssumption, BaseAssumption, WriterAssumption DEF NothingOverflows

\* A file in chunks, whose writer is still at work or has finished.
LEMMA ChunkedFile ==
  ASSUME NothingOverflows, WriterInv, FileInv, Chunked, phase # "crashed"
  PROVE  /\ InOrder /\ WriterTypeOK /\ ChunksTabled /\ Signs /\ Modes
         /\ BackToBack /\ FixedChunksAreFull
         /\ Compressed /\ OpenChunkOnStream
         /\ Len(chunks) \in Nat /\ chunks \in Seq(ChunkRec) /\ DOMAIN chunks = 1 .. Len(chunks)
         /\ Len(chunks) = number_chunks /\ Len(chunks) <= MaxChunks
         /\ ChunksEnd \in Nat /\ ChunksEnd = chunk_start_position
         /\ end \in Nat /\ npoints \in Nat
         /\ PointsOnStream \in Nat /\ PointsOnStream = Before
         /\ OpenCount \in Nat /\ npoints = PointsOnStream + OpenCount
         /\ chunk_size \in Nat /\ chunk_size >= 1 /\ chunk_count \in 0 .. chunk_size
         /\ put = <<>> => end = ChunksEnd
         /\ put # <<>> =>
              /\ phase = "open" /\ chunk_count # 0 /\ enc # "active"
              /\ put = <<Intact(ChunksEnd, PointsOnStream, chunk_count, end - ChunksEnd)>>
              /\ end - ChunksEnd \in ChunkBytes
  <1>1. InOrder /\ ~Overdo
    BY InOrderIsInv, Bounds
  <1>2. /\ WriterTypeOK /\ ChunksTabled /\ OpenPart /\ Signs /\ Modes
        /\ FixedChunksAreFull
    BY <1>1 DEF InOrder
  <1>3. /\ BackToBack /\ ChunksEnd = chunk_start_position /\ PointsOnStream = Before
        /\ npoints = PointsOnStream + OpenCount
    BY <1>1, ChunksBackToBack
  <1>4. /\ Len(chunks) \in Nat /\ chunks \in Seq(ChunkRec) /\ DOMAIN chunks = 1 .. Len(chunks)
        /\ ChunksEnd \in Nat /\ PointsOnStream \in Nat
    BY <1>2, StreamFacts
  <1>5. /\ end \in Nat /\ npoints \in Nat /\ OpenCount \in Nat
        /\ chunk_size \in 1 .. U32MAX /\ chunk_count \in 0 .. chunk_size
    BY <1>2, Numbers
  <1>6. chunk_size \in Nat /\ chunk_size >= 1
    BY <1>5, Bounds
  <1>7. Compressed
    BY DEF Compressed, Chunked
  <1>8. OpenChunkOnStream /\ number_chunks <= MaxChunks /\ number_chunks = Len(chunks)
    BY <1>2 DEF FileInv, ChunksTabled
  <1>9. put # <<>> =>
          /\ phase = "open" /\ chunk_count # 0 /\ enc # "active"
          /\ put = <<Intact(ChunksEnd, PointsOnStream, chunk_count, end - ChunksEnd)>>
          /\ end - ChunksEnd \in ChunkBytes
    BY <1>1, <1>2, <1>3, <1>8 DEF OpenPart, OpenChunkOnStream
  <1>10. put = <<>> => end = ChunksEnd
    BY <1>2, <1>3 DEF OpenPart
  <1>. QED BY <1>1, <1>2, <1>3, <1>4, <1>5, <1>6, <1>7, <1>8, <1>9, <1>10

\* A chunk that is closed has at least one byte and fits an I32.
LEMMA ClosedChunkFits ==
  ASSUME NothingOverflows, WriterInv, FileInv, phase = "open", Chunked, chunk_count > 0,
         NEW b \in ChunkBytes, MayPut
  PROVE  /\ EndOfChunk(b) \in Nat
         /\ EndOfChunk(b) - ChunksEnd \in ChunkBytes
         /\ EndOfChunk(b) - ChunksEnd \in 1 .. U32MAX \div 2
         /\ InOrder
         /\ PutChunk(b) = <<Intact(ChunksEnd, PointsOnStream, chunk_count, EndOfChunk(b) - ChunksEnd)>>
  <1>1. /\ InOrder /\ ~Overdo /\ OpenChunkOnStream
        /\ ChunksEnd = chunk_start_position /\ PointsOnStream = Before
        /\ end \in Nat /\ ChunksEnd \in Nat
        /\ put = <<>> => end = ChunksEnd
        /\ put # <<>> => enc # "active" /\ end - ChunksEnd \in ChunkBytes
    BY ChunkedFile, Bounds
  <1>2. EndOfChunk(b) \in Nat
    BY <1>1, ClosingGoesOn DEF InOrder
  <1>3. EndOfChunk(b) - ChunksEnd \in ChunkBytes
    <2>1. CASE put = <<>>
      <3>1. enc = "active" /\ end = ChunksEnd
        BY <1>1, <2>1 DEF OpenChunkOnStream
      <3>2. EndOfChunk(b) = ChunksEnd + b /\ b \in Nat
        BY <3>1, Bounds DEF EndOfChunk
      <3>3. EndOfChunk(b) - ChunksEnd = b
        BY <3>2, <1>1
      <3>. QED BY <3>3
    <2>2. CASE put # <<>>
      <3>1. enc # "active" /\ ~Layered
        BY <1>1, <2>2 DEF MayPut
      <3>2. EndOfChunk(b) = end
        BY <3>1 DEF EndOfChunk
      <3>. QED BY <3>2, <2>2, <1>1
    <2>. QED BY <2>1, <2>2
  <1>4. EndOfChunk(b) - ChunksEnd \in 1 .. U32MAX \div 2
    BY <1>3, Bounds
  <1>5. PutChunk(b) = <<Intact(ChunksEnd, PointsOnStream, chunk_count, EndOfChunk(b) - ChunksEnd)>>
    BY <1>1, ChunkPut
  <1>. QED BY <1>1, <1>2, <1>3, <1>4, <1>5

\* The chunk that add_chunk_to_table() tables is whole and fits.
LEMMA TabledChunkIsWhole ==
  ASSUME NothingOverflows, WriterInv, FileInv, phase = "open", Chunked, chunk_count > 0,
         NEW b \in ChunkBytes, AddChunkToTable(b),
         laszip' = laszip, chunk_size' = chunk_size, number_chunks < MaxChunks
  PROVE  /\ Chunked' /\ Compressed' /\ SetupChunkSize' = SetupChunkSize
         /\ Len(chunks) \in Nat
         /\ Len(chunks') = number_chunks + 1
         /\ Len(chunks') <= MaxChunks
         /\ ChunksEnd' = EndOfChunk(b)
         /\ put' = <<>>
         /\ \A i \in 1 .. Len(chunks') :
              /\ chunks'[i].bytes >= 1 /\ chunks'[i].count \in 1 .. chunk_size
              /\ IsWhole(chunks'[i])
              /\ chunks'[i].bytes <= U32MAX \div 2
  <1>. DEFINE at == EndOfChunk(b)
              new == Intact(ChunksEnd, PointsOnStream, chunk_count, at - ChunksEnd)
  <1>1. /\ number_chunks = Len(chunks)
        /\ Len(chunks) \in Nat /\ chunks \in Seq(ChunkRec) /\ chunk_count \in 1 .. chunk_size
        /\ chunk_size \in Nat /\ MaxChunks \in Nat
        /\ ChunksEnd \in Nat /\ PointsOnStream \in Nat
    BY ChunkedFile, Bounds
  <1>2. /\ at \in Nat /\ at - ChunksEnd \in 1 .. U32MAX \div 2 /\ U32MAX \div 2 \in Nat
        /\ PutChunk(b) = <<new>>
    BY ClosedChunkFits, Bounds DEF AddChunkToTable
  <1>3. /\ new \in ChunkRec /\ new.start = ChunksEnd
        /\ new.count = chunk_count /\ new.bytes = at - ChunksEnd /\ IsWhole(new)
    <2>. DEFINE size == at - ChunksEnd
                it == Intact(ChunksEnd, PointsOnStream, chunk_count, size)
    <2>1. chunk_count \in Nat /\ size \in Nat
      BY <1>1, <1>2
    <2>. HIDE DEF size
    <2>2. /\ it \in ChunkRec /\ it.start = ChunksEnd /\ it.count = chunk_count
          /\ it.bytes = size /\ it.ok = chunk_count /\ it.fault = "none"
      BY <2>1, <1>1 DEF Intact, ChunkRec, Faults
    <2>3. new = it
      BY DEF size
    <2>. HIDE DEF it, new
    <2>. QED BY <2>2, <2>3 DEF IsWhole, size
  <1>. HIDE DEF new, at
  <1>4. chunks' = chunks \o <<new>> /\ put' = <<>>
    BY <1>2 DEF AddChunkToTable
  <1>5. chunks' = Append(chunks, new)
    BY <1>1, <1>3, <1>4, JoinOne
  <1>6. /\ Len(chunks') = Len(chunks) + 1
        /\ chunks'[Len(chunks) + 1] = new
        /\ \A i \in 1 .. Len(chunks) : chunks'[i] = chunks[i]
        /\ chunks' # <<>>
    BY <1>1, <1>3, <1>5, AppendFacts
  <1>7. ASSUME NEW i \in 1 .. Len(chunks')
        PROVE  /\ chunks'[i].bytes >= 1 /\ chunks'[i].count \in 1 .. chunk_size
               /\ IsWhole(chunks'[i])
               /\ chunks'[i].bytes <= U32MAX \div 2
    <2>1. CASE i = Len(chunks) + 1
      BY <2>1, <1>1, <1>2, <1>3, <1>6
    <2>2. CASE i # Len(chunks) + 1
      <3>1. i \in 1 .. Len(chunks) /\ chunks'[i] = chunks[i]
        BY <2>2, <1>1, <1>6
      <3>. QED BY <3>1 DEF FileInv
    <2>. QED BY <2>1, <2>2
  <1>8. Chunked' /\ Compressed' /\ SetupChunkSize' = SetupChunkSize
    BY DEF Chunked, Compressed, SetupChunkSize
  <1>9. ChunksEnd' = at
    <2>1. ChunksEnd' = new.start + new.bytes
      BY <1>1, <1>6 DEF ChunksEnd
    <2>. QED BY <2>1, <1>1, <1>2, <1>3
  <1>10. Len(chunks') = number_chunks + 1 /\ Len(chunks') <= MaxChunks
    <2>1. number_chunks < MaxChunks
      OBVIOUS
    <2>. QED BY <2>1, <1>1, <1>6
  <1>. QED BY <1>1, <1>4, <1>7, <1>8, <1>9, <1>10 DEF at

\* init() of both sides.
LEMMA FileInit ==
  ASSUME NothingOverflows, WriterInit
  PROVE  FileInv
  <1>1. /\ chunks = <<>> /\ Len(chunks) = 0 /\ phase = "open" /\ table = NoTable
        /\ chunk_size = SetupChunkSize /\ number_chunks = 0 /\ npoints = 0 /\ chunk_count = 0
        /\ put = <<>> /\ MaxPoints \in Nat /\ MaxChunks \in Nat
        /\ Chunked => DOMAIN fields = {Base}
    BY Bounds DEF WriterInit
  <1>2. OpenChunkOnStream
    BY <1>1 DEF OpenChunkOnStream
  <1>. QED BY <1>1, <1>2 DEF FileInv

\* The points of an open chunk are not on the stream (write() within a chunk).
LEMMA WriteInChunkKeepsFile ==
  ASSUME NothingOverflows, WriterInv, FileInv, WriteInChunk
  PROVE  FileInv'
  <1>1. /\ phase = "open" /\ npoints < MaxPoints /\ ~Overdo
        /\ UNCHANGED <<phase, put, chunk_size, number_chunks, end, laszip, fields, chunks, table>>
        /\ npoints' = npoints + 1
        /\ chunk_count' = chunk_count + 1
        /\ enc' = IF writers = "none" THEN "active" ELSE enc
        /\ npoints \in Nat /\ MaxPoints \in Nat /\ chunk_count \in Nat
    BY Numbers, Bounds DEF WriteInChunk, PutPoint, WriterInv
  <1>2. /\ Chunked' <=> Chunked
        /\ Compressed' <=> Compressed
        /\ SetupChunkSize' = SetupChunkSize /\ ChunksEnd' = ChunksEnd
    BY <1>1, StreamUnchanged
  <1>3. OpenChunkOnStream'
    <2>. SUFFICES ASSUME Chunked
                  PROVE  enc' = "active" /\ put = <<>>
      BY <1>1, <1>2 DEF OpenChunkOnStream
    <2>1. put = <<>>
      BY <1>1 DEF WriteInChunk
    <2>2. CASE writers = "none"
      BY <1>1, <2>1, <2>2
    <2>3. CASE writers # "none"
      <3>1. chunk_count > 0 /\ OpenChunkOnStream
        <4>1. Modes /\ Compressed /\ OpenChunkOnStream
          BY <1>1, ChunkedFile
        <4>. QED BY <1>1, <2>3, <4>1 DEF Modes
      <3>. QED BY <1>1, <2>1, <2>3, <3>1 DEF OpenChunkOnStream
    <2>. QED BY <2>2, <2>3, <2>1
  <1>. QED BY <1>1, <1>2, <1>3 DEF FileInv, IsWhole

\* Points that are not compressed make no chunks.
LEMMA WriteCountWrapsKeepsFile ==
  ASSUME NothingOverflows, WriterInv, FileInv, WriteCountWraps
  PROVE  FileInv'
  <1>1. /\ phase = "open" /\ npoints < MaxPoints /\ ~Compressed
        /\ UNCHANGED <<phase, chunk_size, number_chunks, end, laszip, chunks, table>>
        /\ npoints' = npoints + 1
        /\ npoints \in Nat /\ MaxPoints \in Nat
    BY Numbers, Bounds DEF WriteCountWraps, PutPoint, WriterInv
  <1>2. /\ Chunked' <=> Chunked
        /\ Compressed' <=> Compressed
        /\ SetupChunkSize' = SetupChunkSize
        /\ ~Chunked'
    BY <1>1, StreamUnchanged DEF Chunked, Compressed
  <1>3. OpenChunkOnStream'
    BY <1>2 DEF OpenChunkOnStream
  <1>. QED BY <1>1, <1>2, <1>3 DEF FileInv, IsWhole

\* A chunk is tabled and the next one begins (write(), chunk()).
LEMMA NextChunkKeepsFile ==
  ASSUME NothingOverflows, WriterInv, FileInv, phase = "open", Chunked, chunk_count > 0,
         NEW b \in ChunkBytes, number_chunks < MaxChunks,
         AddChunkToTable(b), InitAfterChunk(number_chunks + 1, EndOfChunk(b)),
         UNCHANGED <<phase, chunk_size, laszip, table>>, npoints' <= MaxPoints,
         enc' = "active" \/ chunk_count' = 0
  PROVE  FileInv'
  <1>1. /\ Chunked' /\ Compressed' /\ SetupChunkSize' = SetupChunkSize
        /\ Len(chunks) \in Nat
        /\ Len(chunks') = number_chunks + 1
        /\ Len(chunks') <= MaxChunks
        /\ ChunksEnd' = EndOfChunk(b)
        /\ put' = <<>>
        /\ \A i \in 1 .. Len(chunks') :
             /\ chunks'[i].bytes >= 1 /\ chunks'[i].count \in 1 .. chunk_size
             /\ IsWhole(chunks'[i])
             /\ chunks'[i].bytes <= U32MAX \div 2
    BY TabledChunkIsWhole
  <1>2. number_chunks \in Nat /\ number_chunks + 1 # U32MAX /\ MaxChunks \in Nat
    <2>1. number_chunks \in 0 .. U32MAX
      BY DEF WriterInv, WriterTypeOK
    <2>. QED BY <2>1, Bounds
  <1>3. number_chunks' = number_chunks + 1 /\ fields' = fields
    BY <1>2 DEF InitAfterChunk
  <1>4. OpenChunkOnStream'
    <2>1. chunk_count' > 0 => enc' = "active"
      OBVIOUS
    <2>. QED BY <2>1, <1>1 DEF OpenChunkOnStream
  <1>5. chunk_size' = SetupChunkSize' /\ table' = NoTable /\ phase' = "open"
        /\ DOMAIN fields' = {Base}
    BY <1>1, <1>3 DEF FileInv
  <1>6. \A i \in 1 .. Len(chunks') : IsWhole(chunks[i])'
    BY <1>1 DEF IsWhole
  <1>7. Len(chunks') <= MaxChunks + 1 /\ number_chunks' <= MaxChunks
    BY <1>1, <1>2, <1>3
  <1>. QED BY <1>1, <1>2, <1>4, <1>5, <1>6, <1>7 DEF FileInv

\* A chunk is on the stream and cannot be tabled.
LEMMA FailureKeepsFile ==
  ASSUME NothingOverflows, WriterInv, FileInv, phase = "open", Chunked, chunk_count > 0,
         NEW b \in ChunkBytes, AddChunkFails(b), UNCHANGED <<phase, laszip, npoints>>
  PROVE  FileInv'
  <1>1. /\ UNCHANGED <<chunk_size, number_chunks, fields, chunks, table, laszip, npoints,
                       chunk_count, phase>>
        /\ end' = EndOfChunk(b) /\ put' = PutChunk(b) /\ MayPut
    BY DEF AddChunkFails
  <1>2. /\ Chunked' /\ Compressed' /\ SetupChunkSize' = SetupChunkSize /\ ChunksEnd' = ChunksEnd
    BY <1>1, StreamUnchanged DEF Chunked, Compressed
  <1>3. OpenChunkOnStream'
    <2>1. end' - ChunksEnd \in ChunkBytes
      BY <1>1, ClosedChunkFits
    <2>2. put' # <<>>
      <3>1. PutChunk(b) = <<Intact(ChunksEnd, PointsOnStream, chunk_count, EndOfChunk(b) - ChunksEnd)>>
        BY <1>1, ClosedChunkFits
      <3>. QED BY <3>1, <1>1
    <2>. QED BY <2>1, <2>2, <1>2 DEF OpenChunkOnStream
  <1>. QED BY <1>1, <1>2, <1>3 DEF FileInv, IsWhole

\* done() in front of which a chunk is open.
LEMMA DoneWithOpenChunkKeepsFile ==
  ASSUME NothingOverflows, WriterInv, FileInv, NEW b \in ChunkBytes, DoneWithOpenChunk(b)
  PROVE  FileInv'
  <1>0. phase = "open" /\ Chunked /\ chunk_count > 0
    <2>1. phase = "open" /\ Chunked /\ writers = "compressed"
      BY DEF DoneWithOpenChunk, WriterInv, NoChunks
    <2>2. Modes /\ Compressed /\ chunk_count \in Nat
      BY <2>1, ChunkedFile
    <2>. QED BY <2>1, <2>2 DEF Modes
  <1>1. /\ phase' = "done" /\ number_chunks' = number_chunks + 1 /\ number_chunks < MaxChunks
        /\ UNCHANGED <<chunk_size, laszip, npoints, fields, table>>
        /\ AddChunkToTable(b)
    BY DEF DoneWithOpenChunk
  <1>2. /\ Chunked' /\ Compressed' /\ SetupChunkSize' = SetupChunkSize
        /\ Len(chunks') = number_chunks + 1
        /\ Len(chunks') <= MaxChunks
        /\ \A i \in 1 .. Len(chunks') :
             /\ chunks'[i].bytes >= 1 /\ chunks'[i].count \in 1 .. chunk_size
             /\ IsWhole(chunks'[i])
             /\ chunks'[i].bytes <= U32MAX \div 2
    BY <1>0, <1>1, TabledChunkIsWhole
  <1>3. OpenChunkOnStream'
    BY <1>1 DEF OpenChunkOnStream
  <1>4. \A i \in 1 .. Len(chunks') : IsWhole(chunks[i])'
    BY <1>2 DEF IsWhole
  <1>5. Len(chunks') <= MaxChunks + 1 /\ number_chunks' <= MaxChunks
    <2>1. number_chunks \in Nat /\ MaxChunks \in Nat
      BY Bounds, Numbers DEF WriterInv
    <2>. DEFINE n == number_chunks
    <2>2. Len(chunks') = n + 1 /\ number_chunks' = n + 1 /\ n < MaxChunks /\ n \in Nat
      BY <2>1, <1>1, <1>2
    <2>. HIDE DEF n
    <2>. QED BY <2>1, <2>2
  <1>6. /\ npoints' <= MaxPoints /\ chunk_size' = SetupChunkSize' /\ table' = NoTable
        /\ DOMAIN fields' = {Base}
    BY <1>0, <1>1, <1>2 DEF FileInv
  <1>. QED BY <1>1, <1>2, <1>3, <1>4, <1>5, <1>6 DEF FileInv

\* The steps of done() behind the chunks put nothing more but the table.
LEMMA DoneGoesOnWithFile ==
  ASSUME NothingOverflows, WriterInv, FileInv, Chunked, phase # "crashed",
         phase' \in {"done", "tabling", "closed"},
         UNCHANGED <<chunk_size, number_chunks, laszip, chunks, npoints>>,
         DOMAIN fields' = {Base}, phase' # "closed" => table' = table /\ phase # "closed"
  PROVE  FileInv'
  <1>1. Chunked' /\ Compressed' /\ SetupChunkSize' = SetupChunkSize
    BY StreamUnchanged DEF Chunked, Compressed
  <1>2. OpenChunkOnStream'
    BY DEF OpenChunkOnStream
  <1>3. phase' # "closed" => table' = NoTable
    BY DEF FileInv
  <1>. QED BY <1>1, <1>2, <1>3 DEF FileInv, IsWhole

\* done() between two chunks, and its steps with the table.
LEMMA DoneGoesOnKeepsFile ==
  ASSUME NothingOverflows, WriterInv, FileInv,
         DoneBetweenChunks \/ PutTablePosition \/ PutTable
  PROVE  FileInv'
  <1>1. Chunked /\ phase \in {"open", "done", "tabling"}
    BY DEF DoneBetweenChunks, PutTablePosition, PutTable, WriterInv, NoChunks
  <1>2. /\ phase' \in {"done", "tabling", "closed"}
        /\ UNCHANGED <<chunk_size, number_chunks, laszip, chunks, npoints>>
        /\ phase' # "closed" => table' = table
    BY DEF DoneBetweenChunks, PutTablePosition, PutTable, file
  <1>3. DOMAIN fields' = {Base}
    <2>1. DOMAIN fields = {Base} /\ Signs
      BY <1>1, ChunkedFile DEF FileInv
    <2>2. CASE PutTablePosition
      <3>1. chunk_table_start_position \in {Base, -1}
        BY <2>1 DEF Signs
      <3>2. chunk_table_start_position # -1 => DOMAIN PutField(chunk_table_start_position, end) = {Base}
        BY <2>1, <3>1 DEF PutField
      <3>. QED BY <2>1, <2>2, <3>2 DEF PutTablePosition
    <2>3. CASE DoneBetweenChunks \/ PutTable
      BY <2>1, <2>3 DEF DoneBetweenChunks, PutTable, file
    <2>. QED BY <2>2, <2>3
  <1>. QED BY <1>1, <1>2, <1>3, DoneGoesOnWithFile

\* done() without chunks: what was compressed is one stream.
LEMMA DoneUnchunkedKeepsFile ==
  ASSUME NothingOverflows, WriterInv, FileInv, NEW b \in ChunkBytes, DoneUnchunked(b)
  PROVE  FileInv'
  <1>0. phase = "open" /\ ~Chunked /\ chunks = <<>> /\ Len(chunks) = 0
    <2>1. WriterTypeOK /\ chunk_start_position = 0 /\ phase = "open"
      BY DEF DoneUnchunked, WriterInv
    <2>2. Chunked => chunk_start_position >= DataStart /\ DataStart = Base + 8
      BY <2>1, StreamFacts DEF WriterInv, ChunksTabled
    <2>3. ~Chunked
      BY <2>1, <2>2, BaseAssumption
    <2>. QED BY <2>1, <2>3 DEF WriterInv, NoChunks
  <1>1. /\ phase' = "closed"
        /\ UNCHANGED <<chunk_size, number_chunks, laszip, npoints, table, fields>>
        /\ \/ /\ writers = "compressed" /\ Compressed
              /\ chunks' = Append(chunks, Intact(ChunksEnd, 0, chunk_count, b))
           \/ chunks' = chunks
    BY <1>0 DEF DoneUnchunked, WriterInv, Modes
  <1>2. /\ ~Chunked' /\ (Compressed' <=> Compressed) /\ SetupChunkSize' = SetupChunkSize
    BY <1>0, <1>1 DEF Chunked, Compressed, SetupChunkSize
  <1>3. OpenChunkOnStream'
    BY <1>1 DEF OpenChunkOnStream
  <1>4. /\ Len(chunks') <= 1
        /\ ~Compressed => chunks' = <<>>
        /\ \A i \in 1 .. Len(chunks') :
             /\ chunks'[i].bytes >= 1 /\ chunks'[i].count \in 1 .. chunk_size
             /\ IsWhole(chunks'[i])
    <2>1. CASE chunks' = chunks
      BY <2>1, <1>0
    <2>2. CASE /\ writers = "compressed" /\ Compressed
               /\ chunks' = Append(chunks, Intact(ChunksEnd, 0, chunk_count, b))
      <3>1. chunks' = <<Intact(ChunksEnd, 0, chunk_count, b)>>
        BY <2>2, <1>0
      <3>2. chunk_count \in 1 .. chunk_size /\ b >= 1
        <4>1. chunk_count # 0
          BY <2>2, <1>0 DEF WriterInv, Modes
        <4>. QED BY <4>1, Numbers, Bounds DEF WriterInv
      <3>. QED BY <3>1, <3>2, <2>2 DEF Intact, IsWhole
    <2>. QED BY <2>1, <2>2, <1>1
  <1>5. \A i \in 1 .. Len(chunks') : IsWhole(chunks[i])'
    BY <1>4 DEF IsWhole
  <1>6. /\ npoints' <= MaxPoints /\ chunk_size' = SetupChunkSize' /\ number_chunks' <= MaxChunks
        /\ table' = NoTable
    BY <1>0, <1>1, <1>2 DEF FileInv
  <1>. QED BY <1>1, <1>2, <1>3, <1>4, <1>5, <1>6 DEF FileInv

------------------------------------------------------------------------------
(* Where chunks start *)

\* The chunks lie one behind the other: a later one starts at a later position
\* and with a later point.
LEMMA ChunksRise ==
  ASSUME WriterTypeOK, BackToBack,
         \A i \in 1 .. Len(chunks) : chunks[i].bytes >= 1 /\ chunks[i].count >= 1
  PROVE  /\ StartOf(1) = DataStart /\ FirstOf(1) = 0
         /\ StartOf(Len(chunks) + 1) = ChunksEnd /\ FirstOf(Len(chunks) + 1) = PointsOnStream
         /\ \A c \in 1 .. Len(chunks) + 1 : StartOf(c) \in Nat /\ FirstOf(c) \in Nat
         /\ \A c \in 1 .. Len(chunks) :
              /\ StartOf(c) = chunks[c].start /\ FirstOf(c) = chunks[c].first
              /\ StartOf(c + 1) = chunks[c].start + chunks[c].bytes
              /\ FirstOf(c + 1) = chunks[c].first + chunks[c].count
         /\ \A c, d \in 1 .. Len(chunks) + 1 :
              c < d => StartOf(c) < StartOf(d) /\ FirstOf(c) < FirstOf(d)
         /\ \A c, d \in 1 .. Len(chunks) + 1 :
              c <= d => StartOf(c) <= StartOf(d) /\ FirstOf(c) <= FirstOf(d)
  <1>. DEFINE n == Len(chunks)
  <1>1. /\ n \in Nat /\ DOMAIN chunks = 1 .. n
        /\ ChunksEnd \in Nat /\ PointsOnStream \in Nat /\ DataStart \in Nat
        /\ chunks = <<>> <=> n = 0
        /\ \A i \in 1 .. n : /\ chunks[i].start \in Nat /\ chunks[i].first \in Nat
                             /\ chunks[i].bytes \in Nat /\ chunks[i].count \in Nat
    <2>1. \A i \in 1 .. n : chunks[i] \in ChunkRec
      BY StreamFacts
    <2>2. ASSUME NEW i \in 1 .. n
          PROVE  /\ chunks[i].start \in Nat /\ chunks[i].first \in Nat
                 /\ chunks[i].bytes \in Nat /\ chunks[i].count \in Nat
      BY <2>1 DEF ChunkRec
    <2>3. chunks = <<>> <=> n = 0
      BY EmptySeq DEF WriterTypeOK
    <2>. QED BY <2>2, <2>3, StreamFacts
  <1>2. ASSUME NEW c \in 1 .. n
        PROVE  /\ StartOf(c) = chunks[c].start /\ FirstOf(c) = chunks[c].first
               /\ StartOf(c + 1) = chunks[c].start + chunks[c].bytes
               /\ FirstOf(c + 1) = chunks[c].first + chunks[c].count
    <2>1. CASE c = n
      BY <2>1, <1>1 DEF StartOf, FirstOf, ChunksEnd, PointsOnStream
    <2>2. CASE c # n
      <3>1. c + 1 \in 1 .. n /\ c + 1 # 1 /\ (c + 1) - 1 = c
        BY <2>2, <1>1
      <3>2. /\ chunks[c + 1].start = chunks[c].start + chunks[c].bytes
            /\ chunks[c + 1].first = chunks[c].first + chunks[c].count
        BY <3>1, <1>1 DEF BackToBack
      <3>3. c <= n /\ c + 1 <= n
        BY <3>1, <1>1
      <3>. QED BY <3>2, <3>3 DEF StartOf, FirstOf
    <2>. QED BY <2>1, <2>2
  <1>3. StartOf(1) = DataStart /\ FirstOf(1) = 0
    <2>1. CASE n = 0
      BY <2>1, <1>1 DEF StartOf, FirstOf, ChunksEnd, PointsOnStream
    <2>2. CASE n # 0
      <3>1. 1 \in DOMAIN chunks /\ 1 <= n
        BY <2>2, <1>1
      <3>. QED BY <3>1 DEF StartOf, FirstOf, BackToBack
    <2>. QED BY <2>1, <2>2
  <1>4. StartOf(n + 1) = ChunksEnd /\ FirstOf(n + 1) = PointsOnStream
    BY <1>1 DEF StartOf, FirstOf
  <1>5. ASSUME NEW c \in 1 .. n + 1
        PROVE  StartOf(c) \in Nat /\ FirstOf(c) \in Nat
    <2>1. CASE c = n + 1
      BY <2>1, <1>1, <1>4
    <2>2. CASE c # n + 1
      <3>1. c \in 1 .. n
        BY <2>2, <1>1
      <3>. QED BY <3>1, <1>1, <1>2
    <2>. QED BY <2>1, <2>2
  <1>. DEFINE Step(c) == StartOf(c) < StartOf(c + 1) /\ FirstOf(c) < FirstOf(c + 1)
  <1>a. ASSUME NEW c \in 1 .. n PROVE Step(c)
    <2>1. /\ StartOf(c) = chunks[c].start /\ FirstOf(c) = chunks[c].first
          /\ StartOf(c + 1) = chunks[c].start + chunks[c].bytes
          /\ FirstOf(c + 1) = chunks[c].first + chunks[c].count
      BY <1>2
    <2>2. /\ chunks[c].start \in Nat /\ chunks[c].first \in Nat
          /\ chunks[c].bytes \in Nat /\ chunks[c].count \in Nat
          /\ chunks[c].bytes >= 1 /\ chunks[c].count >= 1
      BY <1>1
    <2>. QED BY <2>1, <2>2
  <1>. HIDE DEF Step
  <1>. DEFINE S == {j \in Nat : \A c \in 1 .. n : c + 1 + j <= n + 1 =>
                      StartOf(c) < StartOf(c + 1 + j) /\ FirstOf(c) < FirstOf(c + 1 + j)}
  <1>6. 0 \in S
    BY <1>1, <1>a DEF Step
  <1>7. ASSUME NEW j \in Nat, j \in S PROVE j + 1 \in S
    <2>. SUFFICES ASSUME NEW c \in 1 .. n, c + 1 + (j + 1) <= n + 1
                  PROVE  /\ StartOf(c) < StartOf(c + 1 + (j + 1))
                         /\ FirstOf(c) < FirstOf(c + 1 + (j + 1))
      BY <1>7
    <2>. DEFINE d == c + 1 + j
    <2>1. d \in 1 .. n /\ d + 1 = c + 1 + (j + 1)
      BY <1>1
    <2>2. StartOf(c) < StartOf(d) /\ FirstOf(c) < FirstOf(d)
      BY <1>1, <1>7
    <2>3. StartOf(d) < StartOf(d + 1) /\ FirstOf(d) < FirstOf(d + 1)
      BY <2>1, <1>a DEF Step
    <2>4. c \in 1 .. n + 1 /\ d \in 1 .. n + 1 /\ d + 1 \in 1 .. n + 1
      BY <2>1, <1>1
    <2>5. /\ StartOf(c) \in Nat /\ StartOf(d) \in Nat /\ StartOf(d + 1) \in Nat
          /\ FirstOf(c) \in Nat /\ FirstOf(d) \in Nat /\ FirstOf(d + 1) \in Nat
      BY <2>4, <1>5
    <2>6. StartOf(c) < StartOf(d + 1) /\ FirstOf(c) < FirstOf(d + 1)
      BY <2>2, <2>3, <2>5
    <2>. QED BY <2>1, <2>6
  <1>. HIDE DEF S
  <1>8. \A j \in Nat : j \in S
    BY <1>6, <1>7, NaturalInduction
  <1>9. ASSUME NEW c \in 1 .. n + 1, NEW d \in 1 .. n + 1, c < d
        PROVE  StartOf(c) < StartOf(d) /\ FirstOf(c) < FirstOf(d)
    <2>. DEFINE j == d - (c + 1)
    <2>1. j \in Nat /\ c \in 1 .. n /\ c + 1 + j = d /\ c + 1 + j <= n + 1
      BY <1>1, <1>9
    <2>. HIDE DEF j
    <2>2. j \in S
      BY <2>1, <1>8
    <2>3. StartOf(c) < StartOf(c + 1 + j) /\ FirstOf(c) < FirstOf(c + 1 + j)
      BY <2>1, <2>2 DEF S
    <2>. QED BY <2>1, <2>3
  <1>10. ASSUME NEW c \in 1 .. n + 1, NEW d \in 1 .. n + 1, c <= d
         PROVE  StartOf(c) <= StartOf(d) /\ FirstOf(c) <= FirstOf(d)
    BY <1>1, <1>5, <1>9, <1>10
  <1>. QED BY <1>2, <1>3, <1>4, <1>5, <1>9, <1>10

\* What a crash leaves are whole chunks and at most one torn one behind them.
LEMMA CrashKeepsFile ==
  ASSUME NothingOverflows, WriterInv, FileInv,
         NEW kept \in 0 .. Len(chunks), NEW ok \in 0 .. MaxPoints, Crash(kept, ok)
  PROVE  FileInv'
  <1>. DEFINE n == Len(chunks)
              torn == NextChunk(kept)
              left == [torn EXCEPT !.ok = ok, !.fault = "eof"]
              piece == IF ok = torn.count THEN torn ELSE left
              rest == IF torn.count = 0 THEN <<>> ELSE <<piece>>
              m == IF torn.count = 0 THEN kept ELSE kept + 1
  <1>1. /\ phase \in {"open", "done", "tabling"} /\ phase' = "crashed" /\ Compressed
        /\ chunks' = SubSeq(chunks, 1, kept) \o rest
        /\ \/ ok < torn.count
           \/ ok = torn.count /\ (torn.count = 0 \/ (kept = n /\ put # <<>>))
        /\ UNCHANGED <<chunk_size, number_chunks, laszip, fields, table, npoints>>
    BY DEF Crash, Cut
  <1>2. /\ WriterTypeOK /\ BackToBack
        /\ npoints = PointsOnStream + OpenCount
        /\ n <= number_chunks
        /\ put = <<>> => end = ChunksEnd
        /\ put # <<>> => /\ Chunked /\ phase = "open" /\ chunk_count # 0
                         /\ put = <<Intact(ChunksEnd, PointsOnStream, chunk_count, end - ChunksEnd)>>
                         /\ end - ChunksEnd \in ChunkBytes
        /\ \A i \in 1 .. n : /\ chunks[i].bytes >= 1 /\ chunks[i].count \in 1 .. chunk_size
                             /\ IsWhole(chunks[i])
        /\ ~Chunked => n = 0
        /\ Chunked => FixedChunksAreFull /\ n <= MaxChunks
    <2>1. CASE Chunked
      <3>. HIDE DEF n
      <3>1. Len(chunks) = number_chunks /\ Len(chunks) \in Nat
        BY <2>1, <1>1, ChunkedFile
      <3>2. Len(chunks) <= number_chunks
        BY <3>1
      <3>. QED BY <2>1, <1>1, <3>2, ChunkedFile DEF FileInv, n
    <2>2. CASE ~Chunked
      <3>1. /\ WriterTypeOK /\ NoChunks /\ phase = "open"
        BY <2>2, <1>1 DEF WriterInv, NoChunks
      <3>2. BackToBack /\ npoints = PointsOnStream + OpenCount /\ chunks = <<>> /\ put = <<>>
        BY <2>2, <1>1, <3>1, StreamBackToBack
      <3>3. ChunksEnd = DataStart /\ Len(chunks) = 0
        BY <3>2 DEF ChunksEnd
      <3>. QED BY <2>2, <3>1, <3>2, <3>3 DEF NoChunks
    <2>. QED BY <2>1, <2>2
  <1>3. /\ n \in Nat /\ kept \in Nat /\ kept <= n
        /\ DOMAIN chunks = 1 .. n /\ chunks \in Seq(ChunkRec)
        /\ ChunksEnd \in Nat /\ PointsOnStream \in Nat /\ DataStart \in Nat
        /\ npoints \in Nat /\ chunk_size \in Nat /\ chunk_count \in 0 .. chunk_size
        /\ OpenCount \in 0 .. chunk_size
    <2>1. chunk_size \in 1 .. U32MAX /\ U32MAX \in Nat
      BY <1>2, Numbers, Bounds
    <2>2. OpenCount \in {0, chunk_count}
      BY DEF OpenCount
    <2>. QED BY <1>2, <2>1, <2>2, StreamFacts, Numbers
  <1>4. \A i \in 1 .. n : chunks[i].count >= 1
    BY <1>2, <1>3
  <1>5. /\ StartOf(1) = DataStart /\ FirstOf(1) = 0
        /\ StartOf(n + 1) = ChunksEnd /\ FirstOf(n + 1) = PointsOnStream
        /\ \A c \in 1 .. n + 1 : StartOf(c) \in Nat /\ FirstOf(c) \in Nat
        /\ \A c \in 1 .. n :
             /\ StartOf(c) = chunks[c].start /\ FirstOf(c) = chunks[c].first
             /\ StartOf(c + 1) = chunks[c].start + chunks[c].bytes
             /\ FirstOf(c + 1) = chunks[c].first + chunks[c].count
        /\ \A c, d \in 1 .. n + 1 :
             c <= d => StartOf(c) <= StartOf(d) /\ FirstOf(c) <= FirstOf(d)
    <2>1. \A i \in 1 .. n : chunks[i].bytes >= 1 /\ chunks[i].count >= 1
      BY <1>2, <1>4
    <2>. QED BY <1>2, <2>1, ChunksRise
  \* The chunk that is torn begins where chunk kept + 1 begins or would begin.
  <1>6. /\ torn \in ChunkRec
        /\ torn.start = StartOf(kept + 1) /\ torn.first = FirstOf(kept + 1)
        /\ torn.count # 0 => /\ torn.bytes >= 1 /\ torn.count \in 1 .. chunk_size
                             /\ torn.first + torn.count <= npoints
        /\ torn.count = 0 => kept = n
        /\ IsWhole(torn)
        /\ torn.count # 0 /\ kept = n => phase = "open"
    <2>1. CASE kept < n
      <3>1. kept + 1 \in 1 .. n /\ torn = chunks[kept + 1] /\ kept + 2 \in 1 .. n + 1
            /\ (kept + 1) + 1 = kept + 2
        BY <2>1, <1>3 DEF NextChunk
      <3>2. torn.first + torn.count = FirstOf(kept + 2) /\ FirstOf(kept + 2) <= PointsOnStream
        BY <3>1, <1>3, <1>5
      <3>3. torn \in ChunkRec
        BY <3>1, <1>2, StreamFacts
      <3>4. torn.first + torn.count <= npoints
        <4>1. FirstOf(kept + 2) \in Nat
          BY <3>1, <1>5
        <4>. QED BY <4>1, <3>2, <1>2, <1>3
      <3>5. torn.start = StartOf(kept + 1) /\ torn.first = FirstOf(kept + 1)
        BY <3>1, <1>5
      <3>6. torn.bytes >= 1 /\ torn.count \in 1 .. chunk_size /\ torn.count # 0
        BY <3>1, <1>2, <1>3
      <3>7. IsWhole(torn) /\ kept # n
        <4>1. IsWhole(chunks[kept + 1])
          BY <3>1, <1>2
        <4>2. kept # n
          <5>. HIDE DEF n, torn
          <5>. QED BY <2>1, <1>3
        <4>. QED BY <4>1, <4>2, <3>1
      <3>. QED BY <3>3, <3>4, <3>5, <3>6, <3>7
    <2>2. CASE ~(kept < n)
      <3>0. kept = n
        <4>. HIDE DEF n
        <4>1. n \in Nat /\ kept \in Nat /\ kept <= n
          BY <1>3
        <4>. QED BY <4>1, <2>2
      <3>1. PICK size \in Nat \ {0} : torn = Intact(ChunksEnd, PointsOnStream, OpenCount, size)
        <4>1. CASE put # <<>>
          <5>1. torn = Intact(ChunksEnd, PointsOnStream, chunk_count, end - ChunksEnd)
            BY <2>2, <4>1, <1>2 DEF NextChunk
          <5>2. end - ChunksEnd \in Nat \ {0} /\ OpenCount = chunk_count
            BY <4>1, <1>2, Bounds DEF OpenCount
          <5>. QED BY <5>1, <5>2
        <4>2. CASE put = <<>>
          <5>1. torn = Intact(end, npoints - OpenCount, OpenCount, OpenCount + 1)
            BY <2>2, <4>2 DEF NextChunk
          <5>2. end = ChunksEnd /\ npoints - OpenCount = PointsOnStream /\ OpenCount + 1 \in Nat \ {0}
            BY <4>2, <1>2, <1>3
          <5>. QED BY <5>1, <5>2
        <4>. QED BY <4>1, <4>2
      <3>. HIDE DEF torn
      <3>2. /\ torn.start = ChunksEnd /\ torn.first = PointsOnStream
            /\ torn.count = OpenCount /\ torn.bytes = size /\ IsWhole(torn)
        BY <3>1 DEF Intact, IsWhole
      <3>3. torn \in ChunkRec
        BY <3>1, <1>3 DEF Intact, ChunkRec, Faults
      <3>4. torn.count # 0 => phase = "open"
        BY <3>2 DEF OpenCount
      <3>5. torn.bytes >= 1 /\ (torn.count # 0 => torn.count \in 1 .. chunk_size)
            /\ torn.first + torn.count <= npoints
        BY <3>2, <1>2, <1>3
      <3>. QED BY <3>0, <3>2, <3>3, <3>4, <3>5, <1>5
    <2>. QED BY <2>1, <2>2
  <1>. HIDE DEF torn
  <1>7. /\ piece.start = torn.start /\ piece.first = torn.first
        /\ piece.count = torn.count /\ piece.bytes = torn.bytes
        /\ torn.count # 0 => \/ IsTorn(piece) /\ ~IsWhole(piece)
                             \/ IsWhole(piece) /\ kept = n /\ Chunked
    <2>1. CASE ok = torn.count
      <3>1. piece = torn
        BY <2>1
      <3>2. torn.count # 0 => kept = n /\ Chunked
        <4>1. ~(ok < torn.count)
          BY <2>1, <1>6 DEF ChunkRec
        <4>. QED BY <4>1, <1>1, <1>2
      <3>. QED BY <3>1, <3>2, <1>6
    <2>2. CASE ok # torn.count
      <3>1. piece = left /\ ok < torn.count
        BY <2>2, <1>1
      <3>. HIDE DEF piece
      <3>2. left.start = torn.start /\ left.first = torn.first /\ left.count = torn.count
            /\ left.bytes = torn.bytes /\ left.ok = ok /\ left.fault = "eof"
        BY <1>6 DEF ChunkRec
      <3>. HIDE DEF left
      <3>. QED BY <3>1, <3>2 DEF IsTorn, IsWhole
    <2>. QED BY <2>1, <2>2
  <1>. HIDE DEF piece
  <1>8. /\ Len(chunks') = m /\ m \in Nat /\ DOMAIN chunks' = 1 .. m
        /\ \A i \in 1 .. kept : chunks'[i] = chunks[i]
        /\ torn.count # 0 => chunks'[kept + 1] = piece
    <2>1. /\ SubSeq(chunks, 1, kept) \in Seq(ChunkRec)
          /\ Len(SubSeq(chunks, 1, kept)) = kept
          /\ \A i \in 1 .. kept : SubSeq(chunks, 1, kept)[i] = chunks[i]
      <3>1. \A i \in 1 .. kept : chunks[i] \in ChunkRec
        BY <1>2, <1>3, StreamFacts
      <3>. QED BY <3>1, <1>3, SubSeqProperties
    <2>2. CASE torn.count = 0
      <3>1. chunks' = SubSeq(chunks, 1, kept) \o <<>>
        BY <2>2, <1>1
      <3>2. chunks' = SubSeq(chunks, 1, kept)
        BY <3>1, <2>1, ConcatEmptySeq
      <3>. QED BY <2>1, <2>2, <3>2, <1>3, LenProperties
    <2>3. CASE torn.count # 0
      <3>1. chunks' = SubSeq(chunks, 1, kept) \o <<piece>>
        BY <2>3, <1>1
      <3>. DEFINE front == SubSeq(chunks, 1, kept)
      <3>. HIDE DEF front
      <3>2. front \in Seq(ChunkRec) /\ Len(front) = kept /\ chunks' = front \o <<piece>>
        BY <2>1, <3>1 DEF front
      <3>3. /\ Len(chunks') = kept + 1 /\ DOMAIN chunks' = 1 .. kept + 1
            /\ \A i \in 1 .. kept : chunks'[i] = front[i]
            /\ chunks'[kept + 1] = piece
        BY <3>2, <1>3
      <3>. QED BY <2>1, <2>3, <3>3, <1>3 DEF front
    <2>. QED BY <2>2, <2>3
  <1>9. m \in {kept, kept + 1} /\ (m = kept + 1 <=> torn.count # 0)
    BY <1>3
  <1>. HIDE DEF m
  <1>10. ASSUME NEW i \in 1 .. m
         PROVE  /\ chunks'[i].start = StartOf(i) /\ chunks'[i].first = FirstOf(i)
                /\ chunks'[i].bytes >= 1 /\ chunks'[i].count \in 1 .. chunk_size
                /\ i <= kept => /\ IsWhole(chunks'[i])
                                /\ chunks'[i].bytes = chunks[i].bytes
                                /\ chunks'[i].count = chunks[i].count
                /\ ~(i <= kept) => /\ i = m /\ torn.count # 0
                                   /\ IF IsWhole(chunks'[i]) THEN Chunked ELSE IsTorn(chunks'[i])
    <2>1. CASE i <= kept
      <3>1. i \in 1 .. kept /\ i \in 1 .. n
        BY <2>1, <1>3
      <3>. QED BY <2>1, <3>1, <1>2, <1>5, <1>8
    <2>2. CASE ~(i <= kept)
      <3>1. i = kept + 1 /\ i = m /\ torn.count # 0
        BY <2>2, <1>3, <1>9
      <3>. QED BY <2>2, <3>1, <1>6, <1>7, <1>8
    <2>. QED BY <2>1, <2>2
  <1>11. DataStart' = DataStart /\ (Chunked' <=> Chunked) /\ Compressed'
         /\ SetupChunkSize' = SetupChunkSize /\ (Variable' <=> Variable)
    BY <1>1 DEF DataStart, Chunked, Compressed, SetupChunkSize, Variable
  <1>12. BackToBack'
    <2>. SUFFICES ASSUME NEW i \in 1 .. m
                  PROVE  /\ chunks'[i].start = IF i = 1 THEN DataStart
                                               ELSE chunks'[i-1].start + chunks'[i-1].bytes
                         /\ chunks'[i].first = IF i = 1 THEN 0
                                               ELSE chunks'[i-1].first + chunks'[i-1].count
      BY <1>8, <1>11 DEF BackToBack
    <2>1. CASE i = 1
      BY <2>1, <1>5, <1>10
    <2>2. CASE i # 1
      <3>1. i - 1 \in 1 .. m /\ i - 1 <= kept /\ i - 1 \in 1 .. n /\ (i - 1) + 1 = i
        BY <2>2, <1>3, <1>8, <1>9
      <3>2. /\ chunks'[i-1].start = StartOf(i-1) /\ chunks'[i-1].first = FirstOf(i-1)
            /\ chunks'[i-1].bytes = chunks[i-1].bytes /\ chunks'[i-1].count = chunks[i-1].count
        BY <3>1, <1>10
      <3>3. /\ StartOf(i) = chunks[i-1].start + chunks[i-1].bytes
            /\ FirstOf(i) = chunks[i-1].first + chunks[i-1].count
            /\ StartOf(i-1) = chunks[i-1].start /\ FirstOf(i-1) = chunks[i-1].first
        BY <3>1, <1>5
      <3>. QED BY <2>2, <3>2, <3>3, <1>10
    <2>. QED BY <2>1, <2>2
  <1>13. PointsOnStream' <= npoints
    <2>1. CASE m = 0
      <3>1. chunks' = <<>>
        BY <2>1, <1>8, EmptySeq
      <3>. QED BY <3>1, <1>3 DEF PointsOnStream
    <2>2. CASE m # 0
      <3>1. m \in 1 .. m /\ chunks' # <<>>
        BY <2>2, <1>8
      <3>2. PointsOnStream' = chunks'[m].first + chunks'[m].count
        BY <3>1, <1>8 DEF PointsOnStream
      <3>3. CASE m <= kept
        <4>1. m \in 1 .. n /\ m + 1 \in 1 .. n + 1 /\ m + 1 <= n + 1
          BY <3>1, <3>3, <1>3, <1>8
        <4>2. PointsOnStream' = FirstOf(m + 1)
          BY <3>1, <3>2, <3>3, <4>1, <1>5, <1>10
        <4>3. FirstOf(m + 1) <= PointsOnStream /\ FirstOf(m + 1) \in Nat
          BY <4>1, <1>3, <1>5
        <4>. QED BY <4>2, <4>3, <1>2, <1>3
      <3>4. CASE ~(m <= kept)
        <4>1. m = kept + 1 /\ torn.count # 0
          BY <3>4, <1>3, <1>9
        <4>. QED BY <3>2, <4>1, <1>6, <1>7, <1>8
      <3>. QED BY <3>3, <3>4
    <2>. QED BY <2>1, <2>2
  <1>14. ~Chunked => n = 0 /\ kept = 0
    BY <1>2, <1>3
  <1>15. /\ ~Chunked => m <= 1
         /\ Chunked => m <= MaxChunks + 1
    <2>1. MaxChunks \in Nat /\ (Chunked => n <= MaxChunks)
      BY <1>2, Bounds
    <2>. QED BY <2>1, <1>3, <1>9, <1>14
  <1>16. ASSUME NEW i \in 1 .. m
         PROVE  IF IsWhole(chunks'[i])
                THEN Chunked /\ (i < m /\ ~Variable => chunks'[i].count = chunk_size)
                ELSE i = m /\ IsTorn(chunks'[i])
    <2>1. CASE i <= kept
      <3>1. i \in 1 .. n /\ Chunked
        BY <2>1, <1>3, <1>8, <1>14
      <3>2. ~Variable /\ i < m => chunks[i].count = chunk_size
        <4>. SUFFICES ASSUME ~Variable, i < m PROVE chunks[i].count = chunk_size
          OBVIOUS
        <4>1. phase = "open" \/ i # n
          <5>1. CASE i = n
            <6>1. kept = n /\ m = kept + 1
              BY <5>1, <2>1, <1>3, <1>8, <1>9
            <6>. QED BY <6>1, <1>6, <1>9
          <5>. QED BY <5>1
        <4>. QED BY <3>1, <4>1, <1>1, <1>2, <1>3 DEF FixedChunksAreFull
      <3>. QED BY <2>1, <3>1, <3>2, <1>10
    <2>2. CASE ~(i <= kept)
      <3>1. i = m /\ ~(i < m)
        BY <2>2, <1>8, <1>10
      <3>. QED BY <2>2, <3>1, <1>10
    <2>. QED BY <2>1, <2>2
  <1>17. table' = NoTable /\ chunk_size' = SetupChunkSize' /\ number_chunks' <= MaxChunks
         /\ npoints' <= MaxPoints /\ (Chunked' => DOMAIN fields' = {Base})
    BY <1>1, <1>11 DEF FileInv
  <1>18. \A i \in 1 .. m : (IsTorn(chunks[i])' <=> IsTorn(chunks'[i]))
                           /\ (IsWhole(chunks[i])' <=> IsWhole(chunks'[i]))
    BY DEF IsTorn, IsWhole
  <1>19. \A i \in 1 .. Len(chunks') :
            IF IsWhole(chunks[i])'
            THEN Chunked' /\ (i < Len(chunks') /\ ~Variable' => chunks'[i].count = chunk_size')
            ELSE i = Len(chunks') /\ IsTorn(chunks[i])'
    BY <1>1, <1>8, <1>11, <1>16, <1>18
  <1>20. /\ PointsOnStream' <= npoints'
         /\ \A i \in 1 .. Len(chunks') : chunks'[i].bytes >= 1 /\ chunks'[i].count \in 1 .. chunk_size'
         /\ ~Chunked' => Len(chunks') <= 1
         /\ Chunked' => Len(chunks') <= MaxChunks + 1
    BY <1>1, <1>8, <1>10, <1>11, <1>13, <1>15
  <1>21. CrashedFile'
    BY <1>12, <1>17, <1>19, <1>20 DEF CrashedFile
  <1>. QED BY <1>1, <1>11, <1>17, <1>20, <1>21 DEF FileInv

\* A crash behind the chunks leaves them all, and the table or a part of it.
LEMMA CrashInTableKeepsFile ==
  ASSUME NothingOverflows, WriterInv, FileInv,
         NEW readable \in 0 .. Len(chunk_bytes), CrashInTable(readable)
  PROVE  FileInv'
  <1>. DEFINE n == Len(chunks)
              part == [Table EXCEPT !.readable = readable, !.trailer = FALSE]
  <1>0. phase = "tabling" /\ Chunked
    BY DEF CrashInTable, WriterInv, NoChunks
  <1>1. /\ phase' = "crashed"
        /\ table' = table \/ (table' = part /\ (seekable => readable < Len(chunk_bytes)))
        /\ UNCHANGED <<chunk_size, chunk_count, number_chunks, end, laszip, fields, chunks, npoints>>
    BY DEF CrashInTable
  <1>2. /\ InOrder /\ WriterTypeOK /\ ChunksTabled /\ Signs
        /\ BackToBack /\ FixedChunksAreFull /\ Compressed
        /\ n \in Nat /\ DOMAIN chunks = 1 .. n
        /\ PointsOnStream \in Nat /\ npoints = PointsOnStream + OpenCount
        /\ n <= MaxChunks /\ n = number_chunks
        /\ \A i \in 1 .. n : /\ IsWhole(chunks[i]) /\ chunks[i].bytes <= U32MAX \div 2
                             /\ chunks[i].bytes >= 1
    BY <1>0, ChunkedFile DEF FileInv
  <1>3. npoints = PointsOnStream
    BY <1>0, <1>2 DEF OpenCount
  <1>4. /\ Chunked' /\ Compressed' /\ SetupChunkSize' = SetupChunkSize /\ (Variable' <=> Variable)
        /\ PointsOnStream' = PointsOnStream /\ DataStart' = DataStart
    BY <1>0, <1>1, <1>2, StreamUnchanged DEF Variable
  <1>5. BackToBack'
    BY <1>1, <1>2, <1>4 DEF BackToBack
  <1>6. table = NoTable /\ DOMAIN fields = {Base} /\ (~seekable => fields[Base] = -1)
    BY <1>0, <1>2 DEF Signs
  <1>7. table' = NoTable \/ TornTable'
    <2>. SUFFICES ASSUME table' = part, seekable => readable < Len(chunk_bytes)
                  PROVE  TornTable'
      BY <1>1, <1>6
    <2>1. /\ Table \in TableRec /\ Len(Table.entries) = n
          /\ Table.entries \in Seq([count : Nat, bytes : Nat])
          /\ \A i \in 1 .. n : Table.entries[i].bytes = chunk_bytes[i]
          /\ Len(chunk_bytes) = n
      BY <1>2, TableFacts DEF ChunksTabled
    <2>2. /\ table'.entries = Table.entries /\ table'.readable = readable /\ ~table'.trailer
      BY <2>1 DEF TableRec
    <2>3. ASSUME NEW i \in 1 .. n
          PROVE  chunk_bytes[i] = chunks[i].bytes % (U32MAX + 1)
      <3>1. /\ chunk_bytes[i] = (Bound(i) - chunks[i].start) % (U32MAX + 1)
            /\ chunks[i].start + chunks[i].bytes = Bound(i)
        BY <1>2, Bounds DEF ChunksTabled, Tabled
      <3>2. chunks[i].start \in Nat /\ chunks[i].bytes \in Nat
        <4>1. chunks[i] \in ChunkRec
          BY <1>2, StreamFacts
        <4>. QED BY <4>1, ChunkFields
      <3>3. Bound(i) - chunks[i].start = chunks[i].bytes
        BY <3>1, <3>2
      <3>. QED BY <3>1, <3>3
    <2>4. fields'[Base] = -1 \/ readable < n
      BY <1>1, <1>6, <2>1
    <2>5. \A i \in 1 .. n : IsWhole(chunks[i])'
      BY <1>1, <1>2 DEF IsWhole
    <2>6. readable \in 0 .. n
      BY <2>1
    <2>. QED BY <1>1, <1>2, <1>3, <1>4, <2>1, <2>2, <2>3, <2>4, <2>5, <2>6 DEF TornTable
  <1>8. \A i \in 1 .. Len(chunks') :
          IF IsWhole(chunks[i])'
          THEN Chunked' /\ (i < Len(chunks') /\ ~Variable' => chunks'[i].count = chunk_size')
          ELSE i = Len(chunks') /\ IsTorn(chunks[i])'
    <2>. SUFFICES ASSUME NEW i \in 1 .. n
                  PROVE  /\ IsWhole(chunks[i])'
                         /\ i < n /\ ~Variable => chunks[i].count = chunk_size
      BY <1>1, <1>4
    <2>1. i < n => i # n
      BY <1>2
    <2>. QED BY <2>1, <1>0, <1>1, <1>2 DEF FixedChunksAreFull, IsWhole
  <1>9. CrashedFile'
    <2>1. PointsOnStream' <= npoints'
      BY <1>1, <1>2, <1>3, <1>4
    <2>. QED BY <2>1, <1>5, <1>7, <1>8 DEF CrashedFile
  <1>. QED BY <1>0, <1>1, <1>4, <1>9 DEF FileInv

\* Every step of the writer keeps what is said of the file.
LEMMA FileStep ==
  ASSUME NothingOverflows, WriterInv, FileInv, [WriterNext]_wvars
  PROVE  FileInv'
  <1>1. ASSUME NEW b \in ChunkBytes, WriteStartsChunk(b)
        PROVE  FileInv'
    <2>1. /\ phase = "open" /\ npoints < MaxPoints /\ number_chunks < MaxChunks
          /\ chunk_count = chunk_size /\ Compressed
          /\ AddChunkToTable(b)
          /\ InitAfterChunk(number_chunks + 1, EndOfChunk(b))
          /\ npoints' = npoints + 1 /\ enc' = "active"
          /\ UNCHANGED <<phase, chunk_size, laszip, table>>
      BY <1>1 DEF WriteStartsChunk, PutPoint
    <2>2. Chunked /\ chunk_count > 0 /\ npoints' <= MaxPoints
      BY <2>1, Bounds, FullMeansChunked, Numbers DEF WriterInv
    <2>. QED BY <2>1, <2>2, NextChunkKeepsFile
  <1>2. ASSUME NEW b \in ChunkBytes, Chunk(b)
        PROVE  FileInv'
    <2>1. Chunked /\ chunk_count > 0 /\ npoints' <= MaxPoints
      BY <1>2 DEF Chunk, WriterInv, NoChunks, NothingOverflows, FileInv
    <2>. QED BY <1>2, <2>1, NextChunkKeepsFile DEF Chunk
  <1>3. ASSUME NEW b \in ChunkBytes, WriteFails(b) \/ ChunkFails(b) \/ DoneFails(b)
        PROVE  FileInv'
    <2>1. /\ phase = "open" /\ AddChunkFails(b)
          /\ UNCHANGED <<phase, laszip, npoints>>
      BY <1>3 DEF WriteFails, ChunkFails, DoneFails
    <2>2. Chunked
      <3>1. WriteFails(b) => Chunked
        BY Bounds, FullMeansChunked DEF WriteFails
      <3>2. ChunkFails(b) \/ DoneFails(b) => Chunked
        BY DEF ChunkFails, DoneFails, WriterInv, NoChunks
      <3>. QED BY <1>3, <3>1, <3>2
    <2>3. chunk_count > 0
      <3>1. WriteFails(b) => chunk_count > 0
        BY Numbers DEF WriteFails, WriterInv
      <3>2. ChunkFails(b) => chunk_count > 0
        BY DEF ChunkFails
      <3>3. DoneFails(b) => chunk_count > 0
        <4>1. Modes /\ Compressed /\ chunk_count \in Nat
          BY <2>1, <2>2, ChunkedFile
        <4>. QED BY <4>1 DEF DoneFails, Modes
      <3>. QED BY <1>3, <3>1, <3>2, <3>3
    <2>. QED BY <2>1, <2>2, <2>3, FailureKeepsFile
  <1>4. CASE UNCHANGED wvars
    <2>1. UNCHANGED <<phase, put, chunk_size, number_chunks, chunk_count, enc, end, laszip,
                      fields, chunks, table, npoints>>
      BY <1>4 DEF wvars, writer, file
    <2>2. OpenChunkOnStream' <=> OpenChunkOnStream
      BY <2>1, StreamUnchanged DEF OpenChunkOnStream
    <2>3. /\ Chunked' <=> Chunked
          /\ Compressed' <=> Compressed
          /\ SetupChunkSize' = SetupChunkSize
          /\ Variable' <=> Variable
          /\ PointsOnStream' = PointsOnStream /\ DataStart' = DataStart
      BY <2>1, StreamUnchanged DEF Variable
    <2>4. BackToBack' <=> BackToBack
      BY <2>1, <2>3 DEF BackToBack
    <2>5. CrashedFile' <=> CrashedFile
      BY <2>1, <2>3, <2>4 DEF CrashedFile, TornTable, IsWhole, IsTorn
    <2>. QED BY <2>1, <2>2, <2>3, <2>5 DEF FileInv, IsWhole
  <1>. QED
    BY <1>1, <1>2, <1>3, <1>4, WriteInChunkKeepsFile, WriteCountWrapsKeepsFile,
       DoneWithOpenChunkKeepsFile, DoneGoesOnKeepsFile, DoneUnchunkedKeepsFile,
       CrashKeepsFile, CrashInTableKeepsFile
    DEF WriterNext

------------------------------------------------------------------------------
(* The file as it is read *)

OnDisk ==
  /\ NothingOverflows /\ WriterInv /\ FileInv
  /\ session = "reading" /\ phase \in {"closed", "crashed"}
  /\ in_seekable \in BOOLEAN

\* Chunks of variable size without their table.
NotToBeFound == Variable /\ Chunked /\ (phase = "crashed" \/ ~in_seekable)

\* The numbers in a file, and in what order they are.
LEMMA FileFacts ==
  ASSUME OnDisk
  PROVE  /\ Len(chunks) \in Nat /\ DOMAIN chunks = 1 .. Len(chunks)
         /\ chunks = <<>> <=> Len(chunks) = 0
         /\ npoints \in Nat /\ DataStart \in Nat \ {0}
         /\ chunk_size \in 1 .. U32MAX /\ chunk_size \in Nat
         /\ \A c \in 1 .. Len(chunks) :
              /\ chunks[c].start \in Nat /\ chunks[c].first \in Nat
              /\ chunks[c].bytes \in Nat \ {0}
              /\ chunks[c].count \in 1 .. chunk_size /\ chunks[c].count \in Nat
              /\ chunks[c].ok \in 0 .. chunks[c].count
              /\ IsWhole(chunks[c]) \/ (phase = "crashed" /\ c = Len(chunks) /\ IsTorn(chunks[c]))
         /\ StartOf(1) = DataStart /\ FirstOf(1) = 0
         /\ StartOf(Len(chunks) + 1) = ChunksEnd /\ FirstOf(Len(chunks) + 1) = PointsOnStream
         /\ \A c \in 1 .. Len(chunks) + 1 : StartOf(c) \in Nat \ {0} /\ FirstOf(c) \in Nat
         /\ \A c \in 1 .. Len(chunks) :
              /\ StartOf(c) = chunks[c].start /\ FirstOf(c) = chunks[c].first
              /\ StartOf(c + 1) = chunks[c].start + chunks[c].bytes
              /\ FirstOf(c + 1) = chunks[c].first + chunks[c].count
         /\ \A c, d \in 1 .. Len(chunks) + 1 :
              c < d => StartOf(c) < StartOf(d) /\ FirstOf(c) < FirstOf(d)
         /\ \A c, d \in 1 .. Len(chunks) + 1 :
              c <= d => StartOf(c) <= StartOf(d) /\ FirstOf(c) <= FirstOf(d)
  <1>. DEFINE n == Len(chunks)
  <1>1. WriterTypeOK /\ FileInv
    BY DEF OnDisk, WriterInv
  <1>2. BackToBack
    <2>1. phase = "crashed" => BackToBack
      BY <1>1 DEF FileInv, CrashedFile
    <2>2. phase # "crashed" /\ Chunked => BackToBack
      BY ChunkedFile DEF OnDisk
    <2>3. phase # "crashed" /\ ~Chunked => BackToBack
      BY StreamBackToBack DEF OnDisk
    <2>. QED BY <2>1, <2>2, <2>3
  <1>3. /\ n \in Nat /\ DOMAIN chunks = 1 .. n /\ (chunks = <<>> <=> n = 0)
        /\ npoints \in Nat /\ DataStart \in Nat \ {0}
        /\ chunk_size \in 1 .. U32MAX /\ chunk_size \in Nat
    <2>1. Base \in Nat \ {0} /\ U32MAX \in Nat
      BY Bounds DEF OnDisk
    <2>2. DataStart \in Nat \ {0}
      BY <2>1 DEF DataStart, FieldBytes
    <2>3. chunks = <<>> <=> n = 0
      BY <1>1, EmptySeq DEF WriterTypeOK
    <2>. QED BY <1>1, <2>1, <2>2, <2>3, StreamFacts, Numbers
  <1>4. ASSUME NEW c \in 1 .. n
        PROVE  /\ chunks[c].start \in Nat /\ chunks[c].first \in Nat
               /\ chunks[c].bytes \in Nat \ {0}
               /\ chunks[c].count \in 1 .. chunk_size /\ chunks[c].count \in Nat
               /\ chunks[c].ok \in 0 .. chunks[c].count
               /\ IsWhole(chunks[c]) \/ (phase = "crashed" /\ c = n /\ IsTorn(chunks[c]))
    <2>1. chunks[c] \in ChunkRec
      BY <1>1, StreamFacts
    <2>2. /\ chunks[c].start \in Nat /\ chunks[c].first \in Nat /\ chunks[c].bytes \in Nat
          /\ chunks[c].count \in Nat /\ chunks[c].ok \in Nat
      BY <2>1 DEF ChunkRec
    <2>3. chunks[c].bytes >= 1 /\ chunks[c].count \in 1 .. chunk_size
      BY <1>1 DEF FileInv
    <2>4. IsWhole(chunks[c]) \/ (phase = "crashed" /\ c = n /\ IsTorn(chunks[c]))
      <3>1. phase = "crashed" => CrashedFile
        BY <1>1 DEF FileInv
      <3>. QED BY <3>1, <1>1 DEF FileInv, CrashedFile
    <2>. QED BY <2>2, <2>3, <2>4 DEF IsWhole, IsTorn
  <1>5. ASSUME NEW i \in 1 .. Len(chunks)
        PROVE  chunks[i].bytes >= 1 /\ chunks[i].count >= 1
    <2>1. chunks[i].bytes \in Nat \ {0} /\ chunks[i].count \in 1 .. chunk_size /\ chunk_size \in Nat
      BY <1>3, <1>4
    <2>. QED BY <2>1
  <1>. DEFINE Rising ==
         /\ StartOf(1) = DataStart /\ FirstOf(1) = 0
         /\ StartOf(Len(chunks) + 1) = ChunksEnd /\ FirstOf(Len(chunks) + 1) = PointsOnStream
         /\ \A c \in 1 .. Len(chunks) + 1 : StartOf(c) \in Nat /\ FirstOf(c) \in Nat
         /\ \A c \in 1 .. Len(chunks) :
              /\ StartOf(c) = chunks[c].start /\ FirstOf(c) = chunks[c].first
              /\ StartOf(c + 1) = chunks[c].start + chunks[c].bytes
              /\ FirstOf(c + 1) = chunks[c].first + chunks[c].count
         /\ \A c, d \in 1 .. Len(chunks) + 1 :
              c < d => StartOf(c) < StartOf(d) /\ FirstOf(c) < FirstOf(d)
         /\ \A c, d \in 1 .. Len(chunks) + 1 :
              c <= d => StartOf(c) <= StartOf(d) /\ FirstOf(c) <= FirstOf(d)
  <1>6. Rising
    BY <1>1, <1>2, <1>5, ChunksRise
  <1>7. ASSUME NEW c \in 1 .. n + 1
        PROVE  StartOf(c) \in Nat \ {0} /\ FirstOf(c) \in Nat
    <2>1. 1 \in 1 .. n + 1 /\ 1 <= c
      BY <1>3
    <2>2. StartOf(1) = DataStart /\ StartOf(1) <= StartOf(c) /\ StartOf(c) \in Nat /\ FirstOf(c) \in Nat
      BY <2>1, <1>6
    <2>. QED BY <2>2, <1>3
  <1>. QED BY <1>3, <1>4, <1>6, <1>7

\* At the start of a chunk the decoder finds that chunk and no other.
LEMMA ChunkIsFound ==
  ASSUME OnDisk, NEW r, r.readers = "none",
         NEW c \in 1 .. Len(chunks) + 1, r.here = StartOf(c)
  PROVE  ChunkHere(r) = IF c <= Len(chunks) THEN c ELSE 0
  <1>. DEFINE n == Len(chunks)
  <1>1. /\ n \in Nat /\ DOMAIN chunks = 1 .. n
        /\ \A d \in 1 .. n + 1 : StartOf(d) \in Nat
        /\ \A d \in 1 .. n : StartOf(d) = chunks[d].start
        /\ \A d, e \in 1 .. n + 1 : d < e => StartOf(d) < StartOf(e)
    BY FileFacts
  <1>2. ASSUME NEW d \in 1 .. n, chunks[d].start = r.here
        PROVE  c = d
    <2>1. d \in 1 .. n + 1 /\ StartOf(d) = StartOf(c) /\ c \in Int /\ d \in Int
      BY <1>1, <1>2
    <2>2. ~(c < d) /\ ~(d < c)
      BY <2>1, <1>1
    <2>. QED BY <2>1, <2>2
  <1>3. CASE c <= n
    <2>1. c \in 1 .. n
      BY <1>1, <1>3
    <2>2. chunks[c].start = r.here
      BY <2>1, <1>1
    <2>. QED BY <1>1, <1>2, <1>3, <2>1, <2>2 DEF ChunkHere
  <1>4. CASE ~(c <= n)
    <2>1. \A d \in 1 .. n : chunks[d].start # r.here
      BY <1>1, <1>2, <1>4
    <2>. QED BY <2>1, <1>1, <1>4 DEF ChunkHere
  <1>. QED BY <1>3, <1>4

\* How many points can be read: all of a finished file, and as many as are intact
\* of one that was interrupted.
LEMMA ReadableFacts ==
  ASSUME OnDisk
  PROVE  /\ Readable \in 0 .. npoints /\ Readable \in Nat
         /\ phase = "closed" /\ ~NotToBeFound => Readable = npoints
         /\ phase = "closed" /\ Compressed => npoints = FirstOf(Len(chunks) + 1)
         /\ phase = "crashed" => Compressed
         /\ NotToBeFound => Readable = 0
         /\ Compressed /\ ~NotToBeFound =>
              /\ Readable <= FirstOf(Len(chunks) + 1)
              /\ \A c \in 1 .. Len(chunks) : \A k \in 0 .. chunks[c].count - 1 :
                   FirstOf(c) + k < Readable <=> k < chunks[c].ok
              /\ \A c \in 1 .. Len(chunks) : FirstOf(c) <= Readable
  <1>. DEFINE n == Len(chunks)
  <1>1. /\ n \in Nat /\ npoints \in Nat /\ (chunks = <<>> <=> n = 0)
        /\ \A c \in 1 .. n :
              /\ chunks[c].count \in Nat
              /\ chunks[c].ok \in 0 .. chunks[c].count
              /\ IsWhole(chunks[c]) \/ (phase = "crashed" /\ c = n /\ IsTorn(chunks[c]))
              /\ FirstOf(c) = chunks[c].first
              /\ FirstOf(c + 1) = chunks[c].first + chunks[c].count
        /\ FirstOf(1) = 0 /\ FirstOf(n + 1) = PointsOnStream
        /\ \A c \in 1 .. n + 1 : FirstOf(c) \in Nat
        /\ \A c, d \in 1 .. n + 1 : c <= d => FirstOf(c) <= FirstOf(d)
    BY FileFacts
  <1>2. /\ session = "reading" /\ phase \in {"closed", "crashed"}
        /\ phase = "crashed" => Compressed /\ PointsOnStream <= npoints
    BY DEF OnDisk, FileInv, CrashedFile
  <1>3. phase = "closed" /\ Compressed => npoints = FirstOf(n + 1)
    <2>. SUFFICES ASSUME phase = "closed", Compressed PROVE npoints = FirstOf(n + 1)
      OBVIOUS
    <2>1. npoints = PointsOnStream + 0
      <3>1. npoints = PointsOnStream + OpenCount
        BY ChunkedFile, StreamBackToBack DEF OnDisk
      <3>. QED BY <3>1 DEF OpenCount
    <2>. QED BY <2>1, <1>1
  <1>4. CASE NotToBeFound
    <2>1. Readable = 0
      BY <1>2, <1>4 DEF Readable, NotToBeFound
    <2>. QED BY <2>1, <1>1, <1>2, <1>3, <1>4
  <1>5. CASE ~NotToBeFound
    <2>1. Readable = IF phase = "closed" THEN npoints ELSE IF n = 0 THEN 0
                     ELSE FirstOf(n) + chunks[n].ok
      <3>1. Readable = IF phase = "closed" THEN npoints ELSE IF chunks = <<>> THEN 0
                       ELSE chunks[n].first + chunks[n].ok
        BY <1>2, <1>5 DEF Readable, NotToBeFound
      <3>2. n # 0 => n \in 1 .. n
        BY <1>1
      <3>. QED BY <3>1, <3>2, <1>1
    <2>2. ASSUME Compressed
          PROVE  /\ Readable \in Nat /\ Readable <= FirstOf(n + 1)
                 /\ \A c \in 1 .. n : FirstOf(c) <= Readable
                 /\ \A c \in 1 .. n : \A k \in 0 .. chunks[c].count - 1 :
                       FirstOf(c) + k < Readable <=> k < chunks[c].ok
      <3>1. CASE phase = "closed"
        <4>1. Readable = FirstOf(n + 1) /\ n + 1 \in 1 .. n + 1
          BY <2>1, <2>2, <3>1, <1>1, <1>3
        <4>2. ASSUME NEW c \in 1 .. n
              PROVE  FirstOf(c) <= Readable /\ FirstOf(c) + chunks[c].count <= Readable
          <5>1. c \in 1 .. n + 1 /\ c + 1 \in 1 .. n + 1 /\ c <= n + 1 /\ c + 1 <= n + 1
            BY <1>1
          <5>. QED BY <5>1, <4>1, <1>1
        <4>3. ASSUME NEW c \in 1 .. n, NEW k \in 0 .. chunks[c].count - 1
              PROVE  FirstOf(c) + k < Readable <=> k < chunks[c].ok
          <5>1. chunks[c].ok = chunks[c].count /\ chunks[c].count \in Nat
            BY <1>1, <3>1 DEF IsWhole
          <5>2. FirstOf(c) + chunks[c].count <= Readable /\ Readable \in Nat /\ FirstOf(c) \in Nat
            <6>1. c \in 1 .. n + 1
              BY <1>1
            <6>. QED BY <6>1, <4>1, <4>2, <1>1
          <5>. QED BY <5>1, <5>2
        <4>4. Readable \in Nat /\ Readable <= FirstOf(n + 1)
          BY <4>1, <1>1
        <4>. QED BY <4>2, <4>3, <4>4
      <3>2. CASE phase = "crashed" /\ n = 0
        BY <3>2, <2>1, <1>1
      <3>3. CASE phase = "crashed" /\ n # 0
        <4>1. Readable = FirstOf(n) + chunks[n].ok /\ n \in 1 .. n
          BY <2>1, <3>3, <1>1
        <4>2. /\ chunks[n].ok \in 0 .. chunks[n].count /\ chunks[n].count \in Nat
              /\ FirstOf(n) \in Nat /\ FirstOf(n + 1) = FirstOf(n) + chunks[n].count
          BY <4>1, <1>1
        <4>3. Readable \in Nat /\ Readable <= FirstOf(n + 1) /\ FirstOf(n) <= Readable
          BY <4>1, <4>2
        <4>4. ASSUME NEW c \in 1 .. n
              PROVE  FirstOf(c) <= Readable
          <5>1. c \in 1 .. n + 1 /\ n \in 1 .. n + 1 /\ c <= n
            BY <1>1
          <5>2. FirstOf(c) <= FirstOf(n) /\ FirstOf(c) \in Nat
            BY <5>1, <1>1
          <5>. QED BY <5>2, <4>2, <4>3
        <4>5. ASSUME NEW c \in 1 .. n, NEW k \in 0 .. chunks[c].count - 1
              PROVE  FirstOf(c) + k < Readable <=> k < chunks[c].ok
          <5>1. CASE c = n
            BY <5>1, <4>1, <4>2
          <5>2. CASE c # n
            <6>1. c + 1 \in 1 .. n /\ c \in 1 .. n + 1 /\ c + 1 \in 1 .. n + 1
              BY <5>2, <1>1
            <6>2. chunks[c].ok = chunks[c].count /\ chunks[c].count \in Nat
              BY <5>2, <1>1 DEF IsWhole
            <6>3. FirstOf(c) + chunks[c].count <= Readable /\ FirstOf(c) \in Nat
              BY <6>1, <4>4, <1>1
            <6>. QED BY <6>2, <6>3, <4>3
          <5>. QED BY <5>1, <5>2
        <4>. QED BY <4>3, <4>4, <4>5
      <3>. QED BY <3>1, <3>2, <3>3, <1>2
    <2>3. Readable \in 0 .. npoints
      <3>1. CASE phase = "closed"
        BY <3>1, <2>1, <1>1
      <3>2. CASE phase = "crashed"
        <4>1. Readable \in Nat /\ Readable <= PointsOnStream /\ PointsOnStream <= npoints
          BY <3>2, <1>1, <1>2, <2>2
        <4>2. PointsOnStream \in Nat
          BY <1>1
        <4>. QED BY <4>1, <4>2, <1>1
      <3>. QED BY <3>1, <3>2, <1>2
    <2>4. Readable \in Nat /\ (phase = "closed" => Readable = npoints)
      BY <2>1, <2>3
    <2>. QED BY <2>2, <2>3, <2>4, <1>2, <1>3, <1>5
  <1>. QED BY <1>4, <1>5

\* One chunk more, and one size more.
LEMMA TimesNext ==
  ASSUME NEW j \in Nat, NEW s \in Nat
  PROVE  j * s \in Nat /\ (j + 1) * s = (j * s) + s
OBVIOUS

\* Chunks of fixed size are where division finds them: the first point of chunk c
\* is (c - 1) * chunk_size, also behind the last chunk if that is full.
LEMMA FixedPlaces ==
  ASSUME OnDisk, Chunked, ~Variable
  PROVE  /\ \A c \in 1 .. Len(chunks) : FirstOf(c) = (c - 1) * chunk_size
         /\ FirstOf(Len(chunks) + 1) <= Len(chunks) * chunk_size
         /\ AllAreFull => FirstOf(Len(chunks) + 1) = Len(chunks) * chunk_size
         /\ \A c \in 1 .. Len(chunks) - 1 : chunks[c].count = chunk_size
  <1>. DEFINE n == Len(chunks)
  <1>0. n \in Nat /\ chunk_size \in Nat
    BY FileFacts
  <1>1. /\ FirstOf(1) = 0
        /\ \A c \in 1 .. n :
              /\ chunks[c].count \in 1 .. chunk_size
              /\ chunks[c].ok \in 0 .. chunks[c].count
              /\ IsWhole(chunks[c]) \/ (phase = "crashed" /\ c = n /\ IsTorn(chunks[c]))
              /\ FirstOf(c) = chunks[c].first
              /\ FirstOf(c + 1) = chunks[c].first + chunks[c].count
        /\ \A c \in 1 .. n + 1 : FirstOf(c) \in Nat
    BY FileFacts
  <1>a. DOMAIN chunks = 1 .. n
    BY FileFacts
  <1>2. ASSUME NEW c \in 1 .. n - 1
        PROVE  chunks[c].count = chunk_size
    <2>1. c \in 1 .. n /\ c # n
      <3>. HIDE DEF n
      <3>. QED BY <1>0
    <2>2. CASE phase = "closed"
      <3>1. FixedChunksAreFull
        BY <2>2, ChunkedFile DEF OnDisk
      <3>. QED BY <3>1, <2>1, <2>2, <1>a DEF FixedChunksAreFull
    <2>3. CASE phase = "crashed"
      <3>1. CrashedFile /\ c < n
        <4>1. CrashedFile
          BY <2>3 DEF OnDisk, FileInv
        <4>. HIDE DEF n
        <4>. QED BY <4>1, <1>0
      <3>. QED BY <3>1, <2>1 DEF CrashedFile
    <2>. QED BY <2>2, <2>3 DEF OnDisk
  <1>. DEFINE S == {j \in Nat : j + 1 \in 1 .. n => FirstOf(j + 1) = j * chunk_size}
  <1>4. 0 \in S
    BY <1>0, <1>1
  <1>5. ASSUME NEW j \in Nat, j \in S PROVE j + 1 \in S
    <2>. SUFFICES ASSUME (j + 1) + 1 \in 1 .. n
                  PROVE  FirstOf((j + 1) + 1) = (j + 1) * chunk_size
      OBVIOUS
    <2>1. j + 1 \in 1 .. n /\ j + 1 \in 1 .. n - 1
      <3>. HIDE DEF n
      <3>. QED BY <1>0
    <2>2. FirstOf(j + 1) = j * chunk_size
      BY <2>1, <1>5
    <2>3. FirstOf((j + 1) + 1) = FirstOf(j + 1) + chunk_size
      BY <2>1, <1>1, <1>2
    <2>4. (j + 1) * chunk_size = j * chunk_size + chunk_size
      BY <1>0, TimesNext
    <2>. QED BY <2>2, <2>3, <2>4
  <1>. HIDE DEF S
  <1>6. \A j \in Nat : j \in S
    BY <1>4, <1>5, NaturalInduction
  <1>7. ASSUME NEW c \in 1 .. n
        PROVE  FirstOf(c) = (c - 1) * chunk_size
    <2>1. c - 1 \in Nat /\ (c - 1) + 1 = c
      <3>. HIDE DEF n
      <3>. QED BY <1>0
    <2>. QED BY <2>1, <1>6 DEF S
  <1>8. ASSUME n # 0
        PROVE  /\ n \in 1 .. n
               /\ FirstOf(n + 1) = (n - 1) * chunk_size + chunks[n].count
               /\ n * chunk_size = (n - 1) * chunk_size + chunk_size
               /\ (n - 1) * chunk_size \in Nat
    <2>1. n \in 1 .. n /\ n - 1 \in Nat /\ (n - 1) + 1 = n
      <3>. HIDE DEF n
      <3>. QED BY <1>0, <1>8
    <2>2. FirstOf(n + 1) = FirstOf(n) + chunks[n].count /\ FirstOf(n) = (n - 1) * chunk_size
      BY <2>1, <1>1, <1>7
    <2>3. n * chunk_size = (n - 1) * chunk_size + chunk_size /\ (n - 1) * chunk_size \in Nat
      <3>. DEFINE j == n - 1
      <3>1. j \in Nat /\ j + 1 = n
        BY <2>1
      <3>. HIDE DEF j
      <3>2. j * chunk_size \in Nat /\ (j + 1) * chunk_size = (j * chunk_size) + chunk_size
        BY <3>1, <1>0, TimesNext
      <3>. QED BY <3>1, <3>2 DEF j
    <2>. QED BY <2>1, <2>2, <2>3
  <1>9. n = 0 => FirstOf(n + 1) = 0 /\ n * chunk_size = 0
    BY <1>0, <1>1
  <1>10. FirstOf(n + 1) <= n * chunk_size
    <2>1. CASE n = 0
      BY <2>1, <1>9
    <2>2. CASE n # 0
      <3>1. chunks[n].count \in 1 .. chunk_size
        BY <2>2, <1>1, <1>8
      <3>. DEFINE p == (n - 1) * chunk_size
                  q == n * chunk_size
                  k == chunks[n].count
                  f == FirstOf(n + 1)
      <3>2. f = p + k /\ q = p + chunk_size /\ p \in Nat
        BY <2>2, <1>8
      <3>3. k \in 1 .. chunk_size
        BY <3>1
      <3>. HIDE DEF p, q, k, f
      <3>4. f <= q
        BY <3>2, <3>3, <1>0
      <3>. QED BY <3>4 DEF f, q
    <2>. QED BY <2>1, <2>2
  <1>11. ASSUME AllAreFull
         PROVE  FirstOf(n + 1) = n * chunk_size
    <2>1. CASE n = 0
      BY <2>1, <1>9
    <2>2. CASE n # 0
      <3>1. n \in 1 .. n
        BY <2>2, <1>8
      <3>2. chunks[n].count = chunk_size
        BY <3>1, <1>11 DEF AllAreFull
      <3>. QED BY <2>2, <3>2, <1>8
    <2>. QED BY <2>1, <2>2
  <1>. QED BY <1>2, <1>7, <1>10, <1>11

\* The same, of one chunk at a time.
LEMMA FileNumbers ==
  ASSUME OnDisk
  PROVE  /\ Len(chunks) \in Nat /\ npoints \in Nat
         /\ chunk_size \in 1 .. U32MAX /\ chunk_size \in Nat
         /\ Readable \in 0 .. npoints /\ Readable \in Nat
         /\ Base \in Nat \ {0} /\ U32MAX \in Nat \ {0}
         /\ NothingOverflows /\ FileInv /\ WriterInv /\ WriterTypeOK
BY FileFacts, ReadableFacts, Bounds DEF OnDisk, WriterInv

\* Where a chunk starts, or would start behind the last one, is a place on the stream.
LEMMA PlaceFacts ==
  ASSUME OnDisk, NEW c \in 1 .. Len(chunks) + 1
  PROVE  /\ StartOf(c) \in Nat \ {0} /\ StartOf(c) \in Nat /\ FirstOf(c) \in Nat /\ c \in Nat \ {0}
         /\ c <= Len(chunks) <=> c \in 1 .. Len(chunks)
         /\ ~(c <= Len(chunks)) <=> c = Len(chunks) + 1
  <1>1. StartOf(c) \in Nat \ {0} /\ FirstOf(c) \in Nat
    BY FileFacts
  <1>2. Len(chunks) \in Nat
    BY FileFacts
  <1>. QED BY <1>1, <1>2

\* A chunk on the stream holds points, and the next one follows it.
LEMMA ChunkFacts ==
  ASSUME OnDisk, NEW c \in 1 .. Len(chunks)
  PROVE  /\ c \in Nat /\ c # 0 /\ c <= Len(chunks)
         /\ c \in 1 .. Len(chunks) + 1 /\ c + 1 \in 1 .. Len(chunks) + 1
         /\ chunks # <<>>
         /\ chunks[c].bytes \in Nat \ {0}
         /\ chunks[c].count \in 1 .. chunk_size /\ chunks[c].count \in Nat \ {0}
         /\ chunks[c].ok \in 0 .. chunks[c].count /\ chunks[c].ok \in Nat
         /\ IsWhole(chunks[c]) \/ (phase = "crashed" /\ c = Len(chunks) /\ IsTorn(chunks[c]))
         /\ StartOf(c) = chunks[c].start /\ FirstOf(c) = chunks[c].first
         /\ StartOf(c) \in Nat /\ FirstOf(c) \in Nat
         /\ StartOf(c + 1) = StartOf(c) + chunks[c].bytes
         /\ FirstOf(c + 1) = FirstOf(c) + chunks[c].count
  <1>1. /\ Len(chunks) \in Nat /\ chunk_size \in Nat
        /\ chunks = <<>> <=> Len(chunks) = 0
    BY FileFacts
  <1>2. /\ c \in Nat /\ c # 0 /\ c <= Len(chunks) /\ chunks # <<>>
        /\ c \in 1 .. Len(chunks) + 1 /\ c + 1 \in 1 .. Len(chunks) + 1
    BY <1>1
  <1>3. /\ chunks[c].start \in Nat /\ chunks[c].first \in Nat
        /\ chunks[c].bytes \in Nat \ {0}
        /\ chunks[c].count \in 1 .. chunk_size /\ chunks[c].count \in Nat
        /\ chunks[c].ok \in 0 .. chunks[c].count
        /\ IsWhole(chunks[c]) \/ (phase = "crashed" /\ c = Len(chunks) /\ IsTorn(chunks[c]))
    BY FileFacts
  <1>4. /\ StartOf(c) = chunks[c].start /\ FirstOf(c) = chunks[c].first
        /\ StartOf(c + 1) = chunks[c].start + chunks[c].bytes
        /\ FirstOf(c + 1) = chunks[c].first + chunks[c].count
    BY FileFacts
  <1>5. chunks[c].ok \in Nat /\ chunks[c].count \in Nat \ {0}
    BY <1>3
  <1>. QED BY <1>2, <1>3, <1>4, <1>5

\* The points that can be read are the intact ones of the chunks.
LEMMA ChunkReadable ==
  ASSUME OnDisk, Compressed, ~NotToBeFound, NEW c \in 1 .. Len(chunks),
         NEW k \in 0 .. chunks[c].count - 1
  PROVE  FirstOf(c) + k < Readable <=> k < chunks[c].ok
BY ReadableFacts

------------------------------------------------------------------------------
(* The fields of the reader *)

\* Reader t has the fields of r, but for the one named f.
Others(t, r, f) ==
  /\ f # "readers" => t.readers = r.readers
  /\ f # "chunk_size" => t.chunk_size = r.chunk_size
  /\ f # "chunk_count" => t.chunk_count = r.chunk_count
  /\ f # "current_chunk" => t.current_chunk = r.current_chunk
  /\ f # "number_chunks" => t.number_chunks = r.number_chunks
  /\ f # "tabled_chunks" => t.tabled_chunks = r.tabled_chunks
  /\ f # "chunk_starts" => t.chunk_starts = r.chunk_starts
  /\ f # "chunk_totals" => t.chunk_totals = r.chunk_totals
  /\ f # "point_start" => t.point_start = r.point_start
  /\ f # "here" => t.here = r.here
  /\ f # "chunk" => t.chunk = r.chunk
  /\ f # "decoded" => t.decoded = r.decoded

\* Setting the field readers leaves the others as they are.
LEMMA SetReaders ==
  ASSUME NEW r, IsReader(r), NEW v
  PROVE  LET t == [r EXCEPT !.readers = v]
         IN IsReader(t) /\ Others(t, r, "readers") /\ t.readers = v
BY DEF IsReader, Others

\* Setting the field chunk_size leaves the others as they are.
LEMMA SetChunkSize ==
  ASSUME NEW r, IsReader(r), NEW v
  PROVE  LET t == [r EXCEPT !.chunk_size = v]
         IN IsReader(t) /\ Others(t, r, "chunk_size") /\ t.chunk_size = v
BY DEF IsReader, Others

\* Setting the field chunk_count leaves the others as they are.
LEMMA SetChunkCount ==
  ASSUME NEW r, IsReader(r), NEW v
  PROVE  LET t == [r EXCEPT !.chunk_count = v]
         IN IsReader(t) /\ Others(t, r, "chunk_count") /\ t.chunk_count = v
BY DEF IsReader, Others

\* Setting the field current_chunk leaves the others as they are.
LEMMA SetCurrentChunk ==
  ASSUME NEW r, IsReader(r), NEW v
  PROVE  LET t == [r EXCEPT !.current_chunk = v]
         IN IsReader(t) /\ Others(t, r, "current_chunk") /\ t.current_chunk = v
BY DEF IsReader, Others

\* Setting the field number_chunks leaves the others as they are.
LEMMA SetNumberChunks ==
  ASSUME NEW r, IsReader(r), NEW v
  PROVE  LET t == [r EXCEPT !.number_chunks = v]
         IN IsReader(t) /\ Others(t, r, "number_chunks") /\ t.number_chunks = v
BY DEF IsReader, Others

\* Setting the field tabled_chunks leaves the others as they are.
LEMMA SetTabledChunks ==
  ASSUME NEW r, IsReader(r), NEW v
  PROVE  LET t == [r EXCEPT !.tabled_chunks = v]
         IN IsReader(t) /\ Others(t, r, "tabled_chunks") /\ t.tabled_chunks = v
BY DEF IsReader, Others

\* Setting the field chunk_starts leaves the others as they are.
LEMMA SetChunkStarts ==
  ASSUME NEW r, IsReader(r), NEW v
  PROVE  LET t == [r EXCEPT !.chunk_starts = v]
         IN IsReader(t) /\ Others(t, r, "chunk_starts") /\ t.chunk_starts = v
BY DEF IsReader, Others

\* Setting the field chunk_totals leaves the others as they are.
LEMMA SetChunkTotals ==
  ASSUME NEW r, IsReader(r), NEW v
  PROVE  LET t == [r EXCEPT !.chunk_totals = v]
         IN IsReader(t) /\ Others(t, r, "chunk_totals") /\ t.chunk_totals = v
BY DEF IsReader, Others

\* Setting the field point_start leaves the others as they are.
LEMMA SetPointStart ==
  ASSUME NEW r, IsReader(r), NEW v
  PROVE  LET t == [r EXCEPT !.point_start = v]
         IN IsReader(t) /\ Others(t, r, "point_start") /\ t.point_start = v
BY DEF IsReader, Others

\* Setting the field here leaves the others as they are.
LEMMA SetHere ==
  ASSUME NEW r, IsReader(r), NEW v
  PROVE  LET t == [r EXCEPT !.here = v]
         IN IsReader(t) /\ Others(t, r, "here") /\ t.here = v
BY DEF IsReader, Others

\* Setting the field chunk leaves the others as they are.
LEMMA SetChunk ==
  ASSUME NEW r, IsReader(r), NEW v
  PROVE  LET t == [r EXCEPT !.chunk = v]
         IN IsReader(t) /\ Others(t, r, "chunk") /\ t.chunk = v
BY DEF IsReader, Others

\* Setting the field decoded leaves the others as they are.
LEMMA SetDecoded ==
  ASSUME NEW r, IsReader(r), NEW v
  PROVE  LET t == [r EXCEPT !.decoded = v]
         IN IsReader(t) /\ Others(t, r, "decoded") /\ t.decoded = v
BY DEF IsReader, Others

------------------------------------------------------------------------------
(* Taking a point *)

\* The reader may be asked for point n: it gives that point and is in front of the
\* next one, or there is none and the file was interrupted or cannot be sought in.
Answers(out, n, left) ==
  IF out.ok
  THEN out.point = n /\ n < Readable /\ At(out.r, n + 1, left)
  ELSE /\ out.ok = FALSE /\ out.point = Garbage /\ n >= Readable
       /\ ~(phase = "closed" /\ in_seekable /\ npoints > 0)

\* The decoder works on the chunk it stands in.
LEMMA StandsInChunk ==
  ASSUME OnDisk, NEW r, NEW c, NEW k, Standing(r, c, k)
  PROVE  /\ c \in 1 .. Len(chunks) + 1
         /\ ChunkHere(r) = (IF c <= Len(chunks) THEN c ELSE 0)
         /\ c <= Len(chunks) => /\ c \in 1 .. Len(chunks)
                                /\ DecodedHere(r) = k /\ k \in 0 .. chunks[c].ok /\ k \in Nat
         /\ ~(c <= Len(chunks)) => c = Len(chunks) + 1 /\ k = 0 /\ r.here = StartOf(c)
  <1>1. c \in 1 .. Len(chunks) + 1
    BY DEF Standing
  <1>2. c <= Len(chunks) => c \in 1 .. Len(chunks) /\ chunks[c].ok \in Nat
    BY <1>1, PlaceFacts, ChunkFacts
  <1>3. ~(c <= Len(chunks)) => c = Len(chunks) + 1
    BY <1>1, PlaceFacts
  <1>4. CASE r.readers = "none" /\ k = 0 /\ r.here = StartOf(c)
    <2>1. ChunkHere(r) = IF c <= Len(chunks) THEN c ELSE 0
      BY <1>1, <1>4, ChunkIsFound
    <2>. QED BY <2>1, <1>1, <1>2, <1>3, <1>4 DEF DecodedHere
  <1>5. CASE /\ r.readers = "compressed" /\ c <= Len(chunks)
             /\ r.chunk = c /\ r.decoded = k
             /\ k \in 1 .. chunks[c].ok /\ r.here = HereAfter(c, k)
    <2>1. ChunkHere(r) = c /\ DecodedHere(r) = k
      BY <1>5 DEF ChunkHere, DecodedHere
    <2>. QED BY <2>1, <1>1, <1>2, <1>5
  <1>. QED BY <1>4, <1>5 DEF Standing

\* The reader after it has taken the point k of chunk c.
Took(r, c, k) == [r EXCEPT !.readers = "compressed", !.chunk = c, !.decoded = k + 1,
                           !.here = HereAfter(c, k + 1)]

\* Only the stream, the decoder and what it has taken are changed by taking a point.
LEMMA TookFields ==
  ASSUME NEW r, IsReader(r), NEW c, NEW k
  PROVE  LET t == Took(r, c, k)
         IN /\ IsReader(t)
            /\ t.readers = "compressed" /\ t.chunk = c /\ t.decoded = k + 1
            /\ t.here = HereAfter(c, k + 1)
            /\ t.current_chunk = r.current_chunk /\ t.chunk_count = r.chunk_count
            /\ t.tabled_chunks = r.tabled_chunks /\ t.chunk_starts = r.chunk_starts
            /\ t.number_chunks = r.number_chunks /\ t.chunk_totals = r.chunk_totals
            /\ t.chunk_size = r.chunk_size /\ t.point_start = r.point_start
  <1>. DEFINE a == [r EXCEPT !.readers = "compressed"]
              b == [a EXCEPT !.chunk = c]
              d == [b EXCEPT !.decoded = k + 1]
              t == [d EXCEPT !.here = HereAfter(c, k + 1)]
  <1>1. IsReader(a) /\ Others(a, r, "readers") /\ a.readers = "compressed"
    BY SetReaders
  <1>2. IsReader(b) /\ Others(b, a, "chunk") /\ b.chunk = c
    BY <1>1, SetChunk
  <1>3. IsReader(d) /\ Others(d, b, "decoded") /\ d.decoded = k + 1
    BY <1>2, SetDecoded
  <1>4. IsReader(t) /\ Others(t, d, "here") /\ t.here = HereAfter(c, k + 1)
    BY <1>3, SetHere
  <1>5. Took(r, c, k) = t
    BY DEF Took
  <1>. HIDE DEF a, b, d, t
  <1>. QED BY <1>1, <1>2, <1>3, <1>4, <1>5 DEF Others

\* An intact point is read, and the decoder stands behind it.
LEMMA PointTaken ==
  ASSUME OnDisk, NEW r, IsReader(r), NEW c, NEW k, Standing(r, c, k), NEW luck,
         c <= Len(chunks), k < chunks[c].ok
  PROVE  /\ TakePoint(r, luck) = [ok |-> TRUE, point |-> FirstOf(c) + k, r |-> Took(r, c, k)]
         /\ Standing(Took(r, c, k), c, k + 1)
  <1>1. /\ c \in 1 .. Len(chunks) /\ ChunkHere(r) = c /\ DecodedHere(r) = k
        /\ k \in 0 .. chunks[c].ok /\ k \in Nat
    BY StandsInChunk
  <1>2. c # 0 /\ FirstOf(c) = chunks[c].first /\ chunks[c].ok \in Nat /\ c \in 1 .. Len(chunks) + 1
    BY <1>1, ChunkFacts
  <1>3. Meets(r, luck) = "point"
    BY <1>1, <1>2 DEF Meets
  <1>4. DecodePoint(r) = [ok |-> TRUE, point |-> FirstOf(c) + k, r |-> Took(r, c, k)]
    BY <1>1, <1>2 DEF DecodePoint, Took
  <1>5. TakePoint(r, luck) = [ok |-> TRUE, point |-> FirstOf(c) + k, r |-> Took(r, c, k)]
    BY <1>3, <1>4 DEF TakePoint
  <1>6. k + 1 \in 1 .. chunks[c].ok
    BY <1>1, <1>2
  <1>7. Standing(Took(r, c, k), c, k + 1)
    BY <1>2, <1>6, TookFields DEF Standing
  <1>. QED BY <1>5, <1>7

\* Behind what is left of an interrupted file the bytes end.
LEMMA PointMissing ==
  ASSUME OnDisk, table = NoTable, NEW r, NEW c, NEW k, Standing(r, c, k), NEW luck,
         c <= Len(chunks) => k >= chunks[c].ok
  PROVE  TakePoint(r, luck) = Failed([r EXCEPT !.here = AtEOF])
  <1>1. CASE c <= Len(chunks)
    <2>1. /\ c \in 1 .. Len(chunks) /\ ChunkHere(r) = c /\ DecodedHere(r) = k
          /\ k \in 0 .. chunks[c].ok /\ k \in Nat
      BY <1>1, StandsInChunk
    <2>2. /\ chunks[c].ok \in 0 .. chunks[c].count /\ chunks[c].count \in Nat \ {0} /\ c # 0
          /\ chunks[c].ok \in Nat
          /\ IsWhole(chunks[c]) \/ IsTorn(chunks[c])
          /\ StartOf(c) = chunks[c].start /\ StartOf(c) \in Nat /\ chunks[c].bytes \in Nat
      BY <2>1, ChunkFacts
    <2>3. k = chunks[c].ok /\ ~(k < chunks[c].ok)
      BY <1>1, <2>1, <2>2
    <2>4. CASE IsTorn(chunks[c])
      <3>1. k < chunks[c].count /\ chunks[c].fault = "eof"
        BY <2>3, <2>4 DEF IsTorn
      <3>2. Meets(r, luck) = "eof"
        BY <2>1, <2>2, <2>3, <3>1 DEF Meets
      <3>. QED BY <3>2 DEF TakePoint
    <2>5. CASE IsWhole(chunks[c])
      <3>1. k = chunks[c].count /\ chunks[c].fault = "none" /\ ~(k < chunks[c].count) /\ k # 0
        BY <2>2, <2>3, <2>5 DEF IsWhole
      <3>2. HereAfter(c, k) = chunks[c].start + chunks[c].bytes
        BY <3>1 DEF HereAfter
      <3>3. r.here \in Nat
        <4>1. r.here = StartOf(c) \/ r.here = HereAfter(c, k)
          BY DEF Standing
        <4>. QED BY <4>1, <3>2, <2>2
      <3>4. r.here # Nowhere
        BY <3>3 DEF Nowhere
      <3>5. Meets(r, luck) = "eof"
        BY <2>1, <2>3, <3>1, <3>4 DEF Meets
      <3>. QED BY <3>5 DEF TakePoint
    <2>. QED BY <2>2, <2>4, <2>5
  <1>2. CASE ~(c <= Len(chunks))
    <2>1. ChunkHere(r) = 0 /\ r.here = StartOf(c) /\ c \in 1 .. Len(chunks) + 1
      BY <1>2, StandsInChunk
    <2>2. r.here \in Nat
      BY <2>1, PlaceFacts
    <2>4. Meets(r, luck) = "eof"
      BY <2>1, <2>2 DEF Meets, Nowhere
    <2>. QED BY <2>4 DEF TakePoint
  <1>. QED BY <1>1, <1>2

\* The reader that has counted one point more.
Counted(r) == [r EXCEPT !.chunk_count = r.chunk_count + 1]

\* ... and by counting it only the count.
LEMMA CountedFields ==
  ASSUME NEW r, IsReader(r)
  PROVE  LET t == Counted(r)
         IN /\ IsReader(t)
            /\ t.readers = r.readers /\ t.here = r.here /\ t.chunk = r.chunk /\ t.decoded = r.decoded
            /\ t.current_chunk = r.current_chunk /\ t.chunk_count = r.chunk_count + 1
            /\ t.tabled_chunks = r.tabled_chunks /\ t.chunk_starts = r.chunk_starts
            /\ t.number_chunks = r.number_chunks /\ t.chunk_totals = r.chunk_totals
            /\ t.chunk_size = r.chunk_size /\ t.point_start = r.point_start
BY DEF Counted, IsReader

\* Within a chunk, or at the start of one that was entered, a point is taken.
LEMMA TakenInChunks ==
  ASSUME OnDisk, Chunked, NEW s, IsReader(s), NEW n \in 0 .. Readable, n < npoints,
         InChunks(s, n), s.chunk_count # s.chunk_size, NEW luck, NEW left
  PROVE  Answers(TakePoint(Counted(s), luck), n, left)
  <1>. DEFINE c == s.current_chunk + 1
              k == s.chunk_count
              m == Len(chunks)
              t == Counted(s)
              out == TakePoint(t, luck)
  <1>1. Standing(s, c, k) /\ n = FirstOf(c) + k /\ StartsAreTrue(s) /\ SizesAreTrue(s)
        /\ s.current_chunk \in 0 .. s.tabled_chunks - 1 /\ s.point_start # 0
    BY DEF InChunks
  <1>2. /\ t.readers = s.readers /\ t.here = s.here /\ t.chunk = s.chunk /\ t.decoded = s.decoded
        /\ t.current_chunk = s.current_chunk /\ t.chunk_count = k + 1
        /\ t.tabled_chunks = s.tabled_chunks /\ t.chunk_starts = s.chunk_starts
        /\ t.number_chunks = s.number_chunks /\ t.chunk_totals = s.chunk_totals
        /\ t.chunk_size = s.chunk_size /\ t.point_start = s.point_start
        /\ IsReader(t)
    BY CountedFields
  <1>. HIDE DEF t
  <1>3. Standing(t, c, k)
    BY <1>1, <1>2 DEF Standing
  <1>4. ~NotToBeFound /\ Compressed
    BY <1>1 DEF SizesAreTrue, NotToBeFound, Compressed, Chunked
  <1>5. /\ m \in Nat /\ c \in 1 .. m + 1
        /\ c <= m => c \in 1 .. m /\ k \in 0 .. chunks[c].ok /\ k \in Nat
        /\ ~(c <= m) => c = m + 1 /\ k = 0
    BY <1>1, StandsInChunk, FileNumbers
  <1>a. c = s.current_chunk + 1 /\ k = s.chunk_count
    OBVIOUS
  <1>b. /\ npoints \in Nat /\ Readable \in Nat
        /\ FirstOf(c) \in Nat
    BY <1>5, FileNumbers, PlaceFacts
  <1>. HIDE DEF c, k
  <1>6. CASE c <= m /\ k < chunks[c].ok
    <2>. DEFINE next == Took(t, c, k)
    <2>1. /\ out = [ok |-> TRUE, point |-> FirstOf(c) + k, r |-> next]
          /\ Standing(next, c, k + 1)
      BY <1>2, <1>3, <1>6, PointTaken
    <2>2. /\ next.current_chunk = s.current_chunk /\ next.chunk_count = k + 1
          /\ next.tabled_chunks = s.tabled_chunks /\ next.chunk_starts = s.chunk_starts
          /\ next.number_chunks = s.number_chunks /\ next.chunk_totals = s.chunk_totals
          /\ next.chunk_size = s.chunk_size /\ next.point_start = s.point_start
          /\ IsReader(next)
      BY <1>2, TookFields
    <2>. HIDE DEF next
    <2>3. n < Readable
      <3>1. c \in 1 .. m /\ chunks[c].ok \in 0 .. chunks[c].count /\ chunks[c].count \in Nat
        BY <1>5, <1>6, ChunkFacts
      <3>2. k \in 0 .. chunks[c].count - 1
        BY <3>1, <1>5, <1>6
      <3>3. FirstOf(c) + k < Readable <=> k < chunks[c].ok
        BY <3>1, <3>2, <1>4, ChunkReadable
      <3>. QED BY <3>3, <1>1, <1>6
    <2>4. n + 1 = FirstOf(c) + (k + 1) /\ n + 1 \in 0 .. Readable
      BY <2>3, <1>1, <1>5, <1>6, <1>b
    <2>5. StartsAreTrue(next)
      BY <2>2, <1>1 DEF StartsAreTrue
    <2>6. SizesAreTrue(next)
      BY <2>2, <1>1 DEF SizesAreTrue
    <2>7. InChunks(next, n + 1)
      BY <2>1, <2>2, <2>4, <2>5, <2>6, <1>1, <1>a DEF InChunks
    <2>8. At(next, n + 1, left)
      BY <2>2, <2>4, <2>7 DEF At
    <2>9. out.ok /\ out.point = n /\ out.r = next
      BY <2>1, <1>1
    <2>. QED BY <2>3, <2>8, <2>9 DEF Answers, t
  <1>7. CASE ~(c <= m /\ k < chunks[c].ok)
    <2>1. ASSUME c <= m
          PROVE  /\ c \in 1 .. m /\ k \in Nat
                 /\ k = chunks[c].ok
                 /\ chunks[c].ok \in 0 .. chunks[c].count /\ chunks[c].count \in Nat
                 /\ IsWhole(chunks[c]) \/ (phase = "crashed" /\ IsTorn(chunks[c]))
                 /\ FirstOf(c + 1) = FirstOf(c) + chunks[c].count
      <3>1. /\ c \in 1 .. m
            /\ chunks[c].ok \in 0 .. chunks[c].count /\ chunks[c].count \in Nat
            /\ chunks[c].ok \in Nat
            /\ IsWhole(chunks[c]) \/ (phase = "crashed" /\ IsTorn(chunks[c]))
            /\ FirstOf(c + 1) = FirstOf(c) + chunks[c].count
        BY <2>1, <1>5, ChunkFacts
      <3>2. k \in 0 .. chunks[c].ok /\ ~(k < chunks[c].ok)
        BY <2>1, <1>5, <1>7
      <3>3. k = chunks[c].ok /\ k \in Nat
        BY <3>1, <3>2
      <3>. QED BY <3>1, <3>3
    \* A whole chunk that is read up to its end is the last one.
    <2>2. ASSUME c <= m => IsWhole(chunks[c])
          PROVE  n = FirstOf(m + 1)
      <3>1. CASE ~(c <= m)
        BY <3>1, <1>1, <1>5, <1>b
      <3>2. CASE c <= m
        <4>1. k = chunks[c].count /\ n = FirstOf(c + 1)
          BY <2>1, <2>2, <3>2, <1>1 DEF IsWhole
        <4>2. ~Variable
          <5>. SUFFICES ASSUME Variable PROVE FALSE
            OBVIOUS
          <5>1. chunks # <<>>
            BY <2>1, <3>2, ChunkFacts
          <5>2. s.chunk_size = chunks[c].count
            BY <5>1, <1>1, <1>a DEF SizesAreTrue
          <5>. QED BY <4>1, <5>2, <1>a
        <4>3. s.chunk_size = chunk_size
          BY <4>2, <1>1 DEF SizesAreTrue
        <4>4. chunks[c].count # chunk_size
          BY <4>1, <4>3, <1>a
        <4>5. ~(c \in 1 .. m - 1)
          BY <4>2, <4>4, FixedPlaces
        <4>6. c = m
          BY <4>5, <2>1, <3>2, <1>5
        <4>. QED BY <4>1, <4>6
      <3>. QED BY <3>1, <3>2
    <2>3. n # npoints
      BY <1>b
    <2>4. phase = "crashed"
      <3>. SUFFICES ASSUME phase = "closed" PROVE FALSE
        BY DEF OnDisk
      <3>1. n = FirstOf(m + 1)
        BY <2>1, <2>2
      <3>2. npoints = FirstOf(m + 1)
        BY <1>4, ReadableFacts
      <3>. QED BY <2>3, <3>1, <3>2
    <2>a. table = NoTable
      <3>. SUFFICES ASSUME TornTable PROVE FALSE
        BY <2>4 DEF OnDisk, FileInv, CrashedFile
      <3>1. n = FirstOf(m + 1)
        BY <2>1, <2>2 DEF TornTable
      <3>2. npoints = PointsOnStream /\ PointsOnStream = FirstOf(m + 1)
        BY FileFacts DEF TornTable
      <3>. QED BY <2>3, <3>1, <3>2
    <2>b. out = Failed([t EXCEPT !.here = AtEOF])
      <3>1. c <= m => k >= chunks[c].ok
        BY <2>1
      <3>. QED BY <3>1, <2>a, <1>3, PointMissing
    <2>5. n >= Readable
      <3>1. CASE c <= m /\ ~IsWhole(chunks[c])
        <4>1. k < chunks[c].count /\ k = chunks[c].ok /\ k \in Nat /\ c \in 1 .. m
              /\ chunks[c].count \in Nat
          BY <3>1, <2>1 DEF IsTorn
        <4>2. k \in 0 .. chunks[c].count - 1
          BY <4>1
        <4>3. ~(FirstOf(c) + k < Readable)
          BY <4>1, <4>2, <1>4, ChunkReadable
        <4>. QED BY <4>1, <4>3, <1>1, <1>b
      <3>2. CASE c <= m => IsWhole(chunks[c])
        <4>1. n = FirstOf(m + 1)
          BY <3>2, <2>2
        <4>2. Readable <= FirstOf(m + 1)
          BY <1>4, ReadableFacts
        <4>. QED BY <4>1, <4>2, <1>b
      <3>. QED BY <3>1, <3>2
    <2>6. ~out.ok /\ out.point = Garbage
      BY <2>b DEF Failed
    <2>. QED BY <2>4, <2>5, <2>6 DEF Answers, t
  <1>. QED BY <1>6, <1>7

------------------------------------------------------------------------------
(* read_chunk_table() and init() *)

\* The running sums are the function that begins as f does and grows by it.
LEMMA RunningSums ==
  ASSUME NEW m \in Nat, NEW f, DOMAIN f = 0 .. m,
         NEW g \in [0 .. m -> Int],
         g[0] = f[0], \A i \in 1 .. m : g[i] = g[i-1] + f[i]
  PROVE  SumUpTo(f, m) = g
  <1>. DEFINE Is(s) == s = [i \in 0 .. m |-> IF i = 0 \/ i > m THEN f[i] ELSE s[i-1] + f[i]]
              sum == CHOOSE s : Is(s)
  <1>1. SumUpTo(f, m) = sum
    BY DEF SumUpTo
  <1>2. Is(g)
    <2>1. ASSUME NEW i \in 0 .. m
          PROVE  g[i] = IF i = 0 \/ i > m THEN f[i] ELSE g[i-1] + f[i]
      <3>1. CASE i = 0
        BY <3>1
      <3>2. CASE i # 0
        <4>1. i \in 1 .. m /\ ~(i > m)
          BY <3>2
        <4>. QED BY <4>1, <3>2
      <3>. QED BY <3>1, <3>2
    <2>. QED BY <2>1
  <1>3. Is(sum)
    <2>. HIDE DEF Is
    <2>. QED BY <1>2
  <1>. HIDE DEF sum
  <1>4. /\ DOMAIN sum = 0 .. m
        /\ sum[0] = f[0]
        /\ \A i \in 1 .. m : sum[i] = sum[i-1] + f[i]
    <2>1. DOMAIN sum = 0 .. m
      BY <1>3
    <2>2. \A i \in 0 .. m : sum[i] = IF i = 0 \/ i > m THEN f[i] ELSE sum[i-1] + f[i]
      BY <1>3
    <2>3. 0 \in 0 .. m
      OBVIOUS
    <2>4. ASSUME NEW i \in 1 .. m PROVE sum[i] = sum[i-1] + f[i]
      <3>1. i \in 0 .. m /\ ~(i = 0 \/ i > m)
        OBVIOUS
      <3>. QED BY <3>1, <2>2
    <2>. QED BY <2>1, <2>2, <2>3, <2>4
  <1>. HIDE DEF Is
  <1>. DEFINE S == {j \in Nat : j \in 0 .. m => sum[j] = g[j]}
  <1>5. 0 \in S
    BY <1>4
  <1>6. ASSUME NEW j \in Nat, j \in S PROVE j + 1 \in S
    <2>. SUFFICES ASSUME j + 1 \in 0 .. m PROVE sum[j + 1] = g[j + 1]
      OBVIOUS
    <2>1. j \in 0 .. m /\ j + 1 \in 1 .. m /\ (j + 1) - 1 = j
      OBVIOUS
    <2>2. sum[j] = g[j]
      BY <2>1, <1>6
    <2>3. sum[j + 1] = sum[(j + 1) - 1] + f[j + 1] /\ g[j + 1] = g[(j + 1) - 1] + f[j + 1]
      BY <2>1, <1>4
    <2>. QED BY <2>1, <2>2, <2>3
  <1>. HIDE DEF S
  <1>7. \A j \in Nat : j \in S
    BY <1>5, <1>6, NaturalInduction
  <1>8. \A i \in 0 .. m : sum[i] = g[i]
    BY <1>7 DEF S
  <1>9. sum = [i \in 0 .. m |-> sum[i]]
    BY <1>3 DEF Is
  <1>10. [i \in 0 .. m |-> sum[i]] = [i \in 0 .. m |-> g[i]]
    BY <1>8
  <1>. QED BY <1>1, <1>9, <1>10

\* A number of bytes or of points that is narrow enough is tabled as it is.
LEMMA NarrowNumbers ==
  ASSUME NEW n \in Nat, n <= U32MAX \div 2
  PROVE  AsI32(n % (U32MAX + 1)) = n /\ AsI32(n) = n
  <1>1. U32MAX \in Nat \ {0}
    BY U32MAXAssumption
  <1>. DEFINE half == U32MAX \div 2
  <1>2. half \in Nat /\ half <= U32MAX
    BY <1>1
  <1>3. n <= U32MAX
    <2>. HIDE DEF half
    <2>1. n <= half
      BY DEF half
    <2>. QED BY <2>1, <1>1, <1>2
  <1>4. n % (U32MAX + 1) = n
    BY <1>1, <1>3
  <1>5. ~(n > U32MAX \div 2)
    BY <1>1
  <1>. QED BY <1>4, <1>5 DEF AsI32

\* The entries of the table of a finished file, as they are decoded.
LEMMA TableEntries ==
  ASSUME OnDisk, Chunked, phase = "closed"
  PROVE  /\ table.readable = Len(chunks) /\ Len(table.entries) = Len(chunks)
         /\ table # NoTable /\ table.pos = ChunksEnd /\ table.pos # -1
         /\ IF table.trailer THEN fields[Base] = -1 ELSE fields[Base] = ChunksEnd
         /\ \A i \in 1 .. Len(chunks) :
              /\ AsI32(table.entries[i].bytes) = chunks[i].bytes
              /\ Variable => AsI32(table.entries[i].count) = chunks[i].count
  <1>1. FileInv /\ WriterTypeOK /\ chunk_size = SetupChunkSize /\ NothingOverflows
    BY DEF OnDisk, WriterInv, FileInv
  <1>a. /\ InOrder /\ ChunksTabled /\ Signs /\ ~Overdo
        /\ ChunksEnd = chunk_start_position /\ PointsOnStream = Before
        /\ put = <<>> => end = ChunksEnd
        /\ put # <<>> => phase = "open"
    BY ChunkedFile, Bounds DEF OnDisk
  <1>b. /\ table = Table /\ end = ChunksEnd
        /\ chunk_table_start_position = IF seekable THEN Base ELSE -1
        /\ fields[Base] = IF seekable THEN end ELSE chunk_table_start_position
    BY <1>a DEF Signs
  <1>c. /\ Table.pos = end /\ Table.pos # -1
        /\ Table.trailer <=> chunk_table_start_position = -1
        /\ Len(Table.entries) = Len(chunks) /\ Table.readable = Len(chunks)
        /\ \A i \in 1 .. Len(chunks) :
             /\ Table.entries[i].bytes = chunk_bytes[i]
             /\ Variable => Table.entries[i].count = chunk_sizes[i]
    BY <1>a, TableFacts
  <1>2. /\ Len(table.entries) = Len(chunks)
        /\ \A i \in 1 .. Len(chunks) :
             /\ table.entries[i].bytes = chunks[i].bytes % (U32MAX + 1)
             /\ Variable => table.entries[i].count = chunks[i].count
    <2>1. ASSUME NEW i \in 1 .. Len(chunks)
          PROVE  /\ table.entries[i].bytes = chunks[i].bytes % (U32MAX + 1)
                 /\ Variable => table.entries[i].count = chunks[i].count
      <3>1. /\ chunk_bytes[i] = (Bound(i) - chunks[i].start) % (U32MAX + 1)
            /\ Variable => chunk_sizes[i] = FirstBound(i) - chunks[i].first
            /\ chunks[i].start + chunks[i].bytes = Bound(i)
            /\ chunks[i].first + chunks[i].count = FirstBound(i)
        BY <1>a DEF ChunksTabled, Tabled
      <3>2. /\ chunks[i].start \in Nat /\ chunks[i].first \in Nat
            /\ chunks[i].bytes \in Nat /\ chunks[i].count \in Nat
        BY FileFacts
      <3>3. /\ Bound(i) - chunks[i].start = chunks[i].bytes
            /\ FirstBound(i) - chunks[i].first = chunks[i].count
        BY <3>1, <3>2
      <3>. QED BY <3>1, <3>3, <1>b, <1>c
    <2>. QED BY <2>1, <1>b, <1>c
  <1>3. /\ table # NoTable /\ table.readable = Len(chunks)
        /\ table.pos = ChunksEnd /\ table.pos # -1
        /\ IF table.trailer THEN fields[Base] = -1 ELSE fields[Base] = ChunksEnd
    <2>1. Base # -1
      BY Bounds, <1>1
    <2>2. NoTable.pos = -1
      BY DEF NoTable
    <2>. QED BY <1>b, <1>c, <2>1, <2>2
  <1>4. DOMAIN chunks = 1 .. Len(chunks) /\ Len(chunks) \in Nat
    BY FileFacts
  <1>5. ASSUME NEW i \in 1 .. Len(chunks)
        PROVE  AsI32(table.entries[i].bytes) = chunks[i].bytes
    <2>1. chunks[i].bytes \in Nat /\ chunks[i].bytes <= U32MAX \div 2
      BY <1>1, ChunkFacts DEF FileInv
    <2>. QED BY <2>1, <1>2, NarrowNumbers
  <1>6. ASSUME Variable, NEW i \in 1 .. Len(chunks)
        PROVE  AsI32(table.entries[i].count) = chunks[i].count
    <2>1. MaxPoints <= U32MAX \div 2
      <3>1. laszip.chunk_size \in {0, U32MAX} /\ laszip \in Configs
        BY <1>1, <1>6 DEF Variable, SetupChunkSize, WriterTypeOK
      <3>. QED BY <3>1 DEF OnDisk, NothingOverflows
    <2>2. chunks[i].count <= npoints /\ npoints <= MaxPoints
      <3>1. FirstOf(i + 1) <= FirstOf(Len(chunks) + 1)
        <4>1. i + 1 \in 1 .. Len(chunks) + 1 /\ i + 1 <= Len(chunks) + 1
          BY <1>4
        <4>2. Len(chunks) + 1 \in 1 .. Len(chunks) + 1
          BY <1>4
        <4>. QED BY <4>1, <4>2, FileFacts
      <3>2. npoints = FirstOf(Len(chunks) + 1)
        BY ReadableFacts DEF Chunked, Compressed
      <3>3. FirstOf(i + 1) = FirstOf(i) + chunks[i].count /\ FirstOf(i) \in Nat
            /\ chunks[i].count \in Nat
        BY ChunkFacts
      <3>. QED BY <3>1, <3>2, <3>3, FileNumbers, <1>1 DEF FileInv
    <2>3. chunks[i].count \in Nat /\ npoints \in Nat /\ MaxPoints \in Nat /\ U32MAX \div 2 \in Nat
      BY ChunkFacts, FileNumbers, Bounds
    <2>4. chunks[i].count <= U32MAX \div 2
      <3>. DEFINE half == U32MAX \div 2
      <3>1. half \in Nat /\ MaxPoints <= half
        BY <2>1, <2>3
      <3>. HIDE DEF half
      <3>2. chunks[i].count <= half
        BY <3>1, <2>2, <2>3
      <3>. QED BY <3>2 DEF half
    <2>. QED BY <2>3, <2>4, <1>2, <1>6, NarrowNumbers
  <1>. QED BY <1>2, <1>3, <1>5, <1>6

Starts == [i \in 0 .. Len(chunks) |-> StartOf(i + 1)]
Totals == [i \in 0 .. Len(chunks) |-> FirstOf(i + 1)]

\* The reader with the table of a finished file.
WithTable(r) == [r EXCEPT !.number_chunks = Len(chunks), !.tabled_chunks = Len(chunks) + 1,
                          !.chunk_starts = Starts, !.here = DataStart,
                          !.chunk_totals = IF Variable THEN Totals ELSE Null]

\* The table is decoded into the starts of the chunks and, where the sizes
\* vary, the numbers of points in front of them.
LEMMA TableDecoded ==
  ASSUME OnDisk, Chunked, phase = "closed", NEW r, IsReader(r), r.chunk_size = chunk_size
  PROVE  DecodeTable(r, DataStart) = Succeeds(WithTable(r))
  <1>. DEFINE n == Len(chunks)
              starts == [i \in 0 .. n |-> IF i = 0 THEN DataStart ELSE AsI32(table.entries[i].bytes)]
              totals == [i \in 0 .. n |-> IF i = 0 THEN 0 ELSE AsI32(table.entries[i].count)]
              tabled == [r EXCEPT !.number_chunks = n, !.tabled_chunks = n + 1,
                                  !.chunk_starts = SumUpTo(starts, n), !.here = DataStart]
  <1>1. /\ n \in Nat
        /\ StartOf(0 + 1) = DataStart /\ FirstOf(0 + 1) = 0
    BY FileFacts
  <1>2. ASSUME NEW i \in 1 .. n
        PROVE  /\ starts[i] = chunks[i].bytes /\ chunks[i].bytes \in Nat \ {0}
               /\ (i - 1) + 1 = i /\ i # 0 /\ i \in 0 .. n /\ i - 1 \in 0 .. n
               /\ StartOf(i + 1) = StartOf(i) + chunks[i].bytes
               /\ FirstOf(i + 1) = FirstOf(i) + chunks[i].count
               /\ Variable => totals[i] = chunks[i].count
    <2>1. i \in 0 .. n /\ i # 0 /\ (i - 1) + 1 = i /\ i - 1 \in 0 .. n
      <3>. HIDE DEF n
      <3>. QED BY <1>1
    <2>2. /\ AsI32(table.entries[i].bytes) = chunks[i].bytes
          /\ Variable => AsI32(table.entries[i].count) = chunks[i].count
      BY TableEntries
    <2>3. /\ starts[i] = AsI32(table.entries[i].bytes)
          /\ totals[i] = AsI32(table.entries[i].count)
      BY <2>1
    <2>4. /\ chunks[i].bytes \in Nat \ {0}
          /\ StartOf(i + 1) = StartOf(i) + chunks[i].bytes
          /\ FirstOf(i + 1) = FirstOf(i) + chunks[i].count
      BY ChunkFacts
    <2>. HIDE DEF starts, totals
    <2>. QED BY <2>1, <2>2, <2>3, <2>4
  <1>3. /\ starts[0] = DataStart /\ totals[0] = 0
        /\ DOMAIN starts = 0 .. n /\ DOMAIN totals = 0 .. n
    BY <1>1
  <1>4. /\ Starts = [i \in 0 .. n |-> Starts[i]] /\ Totals = [i \in 0 .. n |-> Totals[i]]
        /\ \A i \in 0 .. n : Starts[i] = StartOf(i + 1) /\ Totals[i] = FirstOf(i + 1)
    BY DEF Starts, Totals
  <1>5. 0 \in 0 .. n
    BY <1>1
  <1>. HIDE DEF starts, totals, n
  <1>6. SumUpTo(starts, n) = Starts
    <2>1. Starts[0] = starts[0]
      BY <1>1, <1>3, <1>4, <1>5
    <2>2. ASSUME NEW i \in 1 .. n PROVE Starts[i] = Starts[i-1] + starts[i]
      <3>1. Starts[i] = StartOf(i + 1) /\ Starts[i-1] = StartOf((i - 1) + 1)
        BY <1>2, <1>4
      <3>. QED BY <3>1, <1>2
    <2>3. Starts \in [0 .. n -> Int]
      <3>1. ASSUME NEW i \in 0 .. n PROVE Starts[i] \in Int
        <4>1. i + 1 \in 1 .. n + 1
          BY <1>1
        <4>2. StartOf(i + 1) \in Int /\ FirstOf(i + 1) \in Int
          BY <4>1, PlaceFacts DEF n
        <4>. QED BY <4>2, <1>4
      <3>. QED BY <3>1, <1>4
    <2>4. DOMAIN starts = 0 .. n /\ n \in Nat
      BY <1>1, <1>3
    <2>5. \A i \in 1 .. n : Starts[i] = Starts[i-1] + starts[i]
      BY <2>2
    <2>. HIDE DEF Starts
    <2>. QED BY ONLY <2>1, <2>3, <2>4, <2>5, RunningSums
  <1>7. Variable => SumUpTo(totals, n) = Totals
    <2>. SUFFICES ASSUME Variable PROVE SumUpTo(totals, n) = Totals
      OBVIOUS
    <2>1. Totals[0] = totals[0]
      BY <1>1, <1>3, <1>4, <1>5
    <2>2. ASSUME NEW i \in 1 .. n PROVE Totals[i] = Totals[i-1] + totals[i]
      <3>1. Totals[i] = FirstOf(i + 1) /\ Totals[i-1] = FirstOf((i - 1) + 1)
        BY <1>2, <1>4
      <3>. QED BY <3>1, <1>2
    <2>3. Totals \in [0 .. n -> Int]
      <3>1. ASSUME NEW i \in 0 .. n PROVE Totals[i] \in Int
        <4>1. i + 1 \in 1 .. n + 1
          BY <1>1
        <4>2. StartOf(i + 1) \in Int /\ FirstOf(i + 1) \in Int
          BY <4>1, PlaceFacts DEF n
        <4>. QED BY <4>2, <1>4
      <3>. QED BY <3>1, <1>4
    <2>4. DOMAIN totals = 0 .. n /\ n \in Nat
      BY <1>1, <1>3
    <2>5. \A i \in 1 .. n : Totals[i] = Totals[i-1] + totals[i]
      BY <2>2
    <2>. HIDE DEF Totals
    <2>. QED BY ONLY <2>1, <2>3, <2>4, <2>5, RunningSums
  <1>8. {i \in 1 .. n : starts[i] <= 0} = {}
    <2>. SUFFICES ASSUME NEW i \in 1 .. n PROVE ~(starts[i] <= 0)
      OBVIOUS
    <2>. QED BY <1>2
  <1>9. Len(table.entries) = n /\ table.readable = n /\ (r.chunk_size = U32MAX <=> Variable)
    BY TableEntries DEF Variable, n
  <1>10. DecodeTable(r, DataStart)
           = Succeeds([tabled EXCEPT !.chunk_totals = IF Variable THEN SumUpTo(totals, n) ELSE Null])
    BY <1>8, <1>9 DEF DecodeTable, starts, totals
  <1>11. tabled = [r EXCEPT !.number_chunks = n, !.tabled_chunks = n + 1,
                           !.chunk_starts = Starts, !.here = DataStart]
    BY <1>6
  <1>12. (IF Variable THEN SumUpTo(totals, n) ELSE Null) = (IF Variable THEN Totals ELSE Null)
    BY <1>7
  <1>. QED BY <1>10, <1>11, <1>12 DEF WithTable, n

\* Nothing is summed up to the first entry.
LEMMA SumsOfNothing ==
  ASSUME NEW m \in Nat, NEW f, f = [i \in 0 .. m |-> f[i]]
  PROVE  SumUpTo(f, 0) = f
  <1>. DEFINE Is(s) == s = [i \in 0 .. m |-> IF i = 0 \/ i > 0 THEN f[i] ELSE s[i-1] + f[i]]
              sum == CHOOSE s : Is(s)
  <1>1. SumUpTo(f, 0) = sum
    BY DEF SumUpTo
  <1>2. ASSUME NEW s PROVE [i \in 0 .. m |-> IF i = 0 \/ i > 0 THEN f[i] ELSE s[i-1] + f[i]] = f
    <2>1. ASSUME NEW i \in 0 .. m
          PROVE  (IF i = 0 \/ i > 0 THEN f[i] ELSE s[i-1] + f[i]) = f[i]
      OBVIOUS
    <2>. QED BY <2>1
  <1>3. Is(f)
    BY <1>2
  <1>4. Is(sum)
    <2>. HIDE DEF Is
    <2>. QED BY <1>3
  <1>. HIDE DEF sum
  <1>. QED BY <1>1, <1>2, <1>4

\* The reader with the part of a table that a crash has left.
Part == [i \in 0 .. table.readable |-> StartOf(i + 1)]

WithPart(r) == [r EXCEPT !.number_chunks = Len(chunks), !.tabled_chunks = table.readable + 1,
                         !.chunk_starts = Part, !.here = DataStart]

\* A part of a table is decoded into the starts of the chunks it speaks of, and of no
\* use where the sizes vary.
LEMMA PartDecoded ==
  ASSUME OnDisk, Chunked, TornTable, table.readable < Len(chunks),
         NEW r, IsReader(r), r.chunk_size = chunk_size
  PROVE  IF Variable
         THEN DecodeTable(r, DataStart).ok = FALSE /\ DecodeTable(r, DataStart).point = Garbage
         ELSE DecodeTable(r, DataStart) = Succeeds(WithPart(r))
  <1>. DEFINE n == Len(chunks)
              m == table.readable
              starts == [i \in 0 .. m |-> IF i = 0 THEN DataStart ELSE AsI32(table.entries[i].bytes)]
              tabled == [r EXCEPT !.number_chunks = n, !.tabled_chunks = m + 1,
                                  !.chunk_starts = SumUpTo(starts, 0), !.here = DataStart]
  <1>1. /\ n \in Nat /\ m \in 0 .. n /\ m \in Nat /\ m < n /\ m # n
        /\ Len(table.entries) = n
        /\ StartOf(0 + 1) = DataStart
        /\ (r.chunk_size = U32MAX <=> Variable)
    <2>1. n \in Nat /\ StartOf(1) = DataStart
      BY FileFacts
    <2>a. 0 + 1 = 1
      OBVIOUS
    <2>2. m \in 0 .. n /\ Len(table.entries) = n
      BY DEF TornTable
    <2>. HIDE DEF n
    <2>. QED BY <2>1, <2>a, <2>2 DEF Variable, n
  <1>2. IF Variable
        THEN DecodeTable(r, DataStart) = Failed([tabled EXCEPT !.here = Nowhere])
        ELSE DecodeTable(r, DataStart) = Succeeds([tabled EXCEPT !.chunk_starts = SumUpTo(@, m)])
    BY <1>1 DEF DecodeTable
  <1>3. CASE Variable
    BY <1>2, <1>3 DEF Failed
  <1>4. CASE ~Variable
    <2>1. ASSUME NEW i \in 1 .. m
          PROVE  /\ starts[i] = chunks[i].bytes /\ chunks[i].bytes \in Nat \ {0}
                 /\ (i - 1) + 1 = i /\ i # 0 /\ i \in 0 .. m /\ i - 1 \in 0 .. m
                 /\ StartOf(i + 1) = StartOf(i) + chunks[i].bytes
      <3>1. i \in 0 .. m /\ i # 0 /\ (i - 1) + 1 = i /\ i - 1 \in 0 .. m /\ i \in 1 .. n
        <4>. HIDE DEF n, m
        <4>. QED BY <1>1
      <3>2. /\ chunks[i].bytes \in Nat \ {0}
            /\ StartOf(i + 1) = StartOf(i) + chunks[i].bytes
        BY <3>1, ChunkFacts
      <3>3. /\ table.entries[i].bytes = chunks[i].bytes % (U32MAX + 1)
            /\ chunks[i].bytes <= U32MAX \div 2
        BY <3>1 DEF TornTable
      <3>4. AsI32(table.entries[i].bytes) = chunks[i].bytes
        BY <3>2, <3>3, NarrowNumbers
      <3>5. starts[i] = AsI32(table.entries[i].bytes)
        BY <3>1
      <3>. HIDE DEF starts, m, n
      <3>. QED BY <3>1, <3>2, <3>4, <3>5
    <2>2. /\ starts[0] = DataStart /\ DOMAIN starts = 0 .. m /\ 0 \in 0 .. m
          /\ starts = [i \in 0 .. m |-> starts[i]]
      BY <1>1
    <2>3. Part = [i \in 0 .. m |-> Part[i]] /\ \A i \in 0 .. m : Part[i] = StartOf(i + 1)
      BY DEF Part
    <2>. HIDE DEF starts, m, n
    <2>4. SumUpTo(starts, 0) = starts
      BY ONLY <2>2, <1>1, SumsOfNothing
    <2>5. SumUpTo(starts, m) = Part
      <3>1. Part[0] = starts[0]
        BY <1>1, <2>2, <2>3
      <3>2. ASSUME NEW i \in 1 .. m PROVE Part[i] = Part[i-1] + starts[i]
        <4>1. Part[i] = StartOf(i + 1) /\ Part[i-1] = StartOf((i - 1) + 1)
          BY <2>1, <2>3
        <4>. QED BY <4>1, <2>1
      <3>3. Part \in [0 .. m -> Int]
        <4>1. ASSUME NEW i \in 0 .. m PROVE Part[i] \in Int
          <5>1. i + 1 \in 1 .. n + 1
            BY <1>1
          <5>2. StartOf(i + 1) \in Int
            BY <5>1, PlaceFacts DEF n
          <5>. QED BY <5>2, <2>3
        <4>. QED BY <4>1, <2>3
      <3>4. DOMAIN starts = 0 .. m /\ m \in Nat
        BY <1>1, <2>2
      <3>5. \A i \in 1 .. m : Part[i] = Part[i-1] + starts[i]
        BY <3>2
      <3>. HIDE DEF Part
      <3>. QED BY ONLY <3>1, <3>3, <3>4, <3>5, RunningSums
    <2>6. tabled = [r EXCEPT !.number_chunks = n, !.tabled_chunks = m + 1,
                             !.chunk_starts = starts, !.here = DataStart]
      BY <2>4
    <2>7. [tabled EXCEPT !.chunk_starts = SumUpTo(@, m)]
            = [r EXCEPT !.number_chunks = n, !.tabled_chunks = m + 1,
                        !.chunk_starts = Part, !.here = DataStart]
      BY <2>5, <2>6 DEF IsReader
    <2>. QED BY <2>7, <1>2, <1>4 DEF WithPart, n, m
  <1>. QED BY <1>3, <1>4

\* The reader that has no table but knows where the chunks begin, when it cannot
\* seek: it will table them as it reads.
Untabled(r) == [r EXCEPT !.number_chunks = 0, !.tabled_chunks = 0, !.here = DataStart]

\* Chunks of variable size are refused when their table is missing or cannot be
\* reached; that of a finished file is found on a stream that can seek, and so is the
\* part of one that a crash left; otherwise chunks of fixed size are tabled while they
\* are read.
LEMMA TableRead ==
  ASSUME OnDisk, Chunked, NEW r, IsReader(r), r.here = Base, r.chunk_size = chunk_size
  PROVE  IF NotToBeFound
         THEN ReadChunkTable(r).ok = FALSE /\ ReadChunkTable(r).point = Garbage
         ELSE \/ /\ phase = "closed" /\ in_seekable
                 /\ ReadChunkTable(r) = Succeeds(WithTable(r))
              \/ ~Variable /\ ReadChunkTable(r) = TableWhileReading(r, DataStart)
              \/ ~Variable /\ ~in_seekable /\ ReadChunkTable(r) = Succeeds(Untabled(r))
              \/ /\ ~Variable /\ phase = "crashed" /\ TornTable /\ table.readable < Len(chunks)
                 /\ ReadChunkTable(r) = Succeeds(WithPart(r))
  <1>1. /\ Base \in Nat \ {0} /\ DataStart = Base + FieldBytes /\ FieldBytes = 8
        /\ r.chunk_size = U32MAX <=> Variable
        /\ phase \in {"closed", "crashed"} /\ in_seekable \in BOOLEAN
        /\ FileInv /\ WriterInv
    BY FileNumbers DEF DataStart, FieldBytes, Variable, OnDisk
  <1>2. DOMAIN fields = {Base} /\ r.here \in DOMAIN fields
    BY <1>1 DEF FileInv
  <1>. DEFINE position == fields[Base]
              interrupted == position + FieldBytes = DataStart
              found == /\ table # NoTable
                       /\ IF position = -1 THEN table.trailer ELSE position = table.pos
  <1>3. ReadChunkTable(r) =
          IF interrupted
          THEN IF Variable THEN Failed([r EXCEPT !.here = DataStart])
               ELSE TableWhileReading(r, DataStart)
          ELSE IF ~in_seekable
          THEN IF Variable THEN Failed([r EXCEPT !.here = DataStart]) ELSE Succeeds(Untabled(r))
          ELSE IF found THEN DecodeTable(r, DataStart)
          ELSE IF Variable THEN Failed([r EXCEPT !.here = Nowhere])
          ELSE TableWhileReading(r, DataStart)
    BY <1>1, <1>2 DEF ReadChunkTable, Untabled
  <1>. HIDE DEF interrupted, found
  <1>4. CASE phase = "closed"
    <2>1. table # NoTable
      BY <1>4, TableEntries
    <2>2. /\ table.pos = ChunksEnd
          /\ IF table.trailer THEN position = -1 ELSE position = table.pos
      BY <1>4, TableEntries
    <2>3. ChunksEnd \in Nat /\ ChunksEnd >= DataStart
      <3>1. /\ StartOf(1) = DataStart /\ StartOf(Len(chunks) + 1) = ChunksEnd
            /\ 1 \in 1 .. Len(chunks) + 1 /\ Len(chunks) + 1 \in 1 .. Len(chunks) + 1
            /\ 1 <= Len(chunks) + 1
            /\ StartOf(Len(chunks) + 1) \in Nat
        <4>1. Len(chunks) \in Nat
          BY FileNumbers
        <4>2. StartOf(1) = DataStart /\ StartOf(Len(chunks) + 1) = ChunksEnd
          BY FileFacts
        <4>3. Len(chunks) + 1 \in 1 .. Len(chunks) + 1 /\ 1 \in 1 .. Len(chunks) + 1
          BY <4>1
        <4>4. StartOf(Len(chunks) + 1) \in Nat
          BY <4>3, PlaceFacts
        <4>. QED BY <4>1, <4>2, <4>3, <4>4
      <3>2. StartOf(1) <= StartOf(Len(chunks) + 1)
        BY <3>1, FileFacts
      <3>3. DataStart \in Nat
        BY FileFacts
      <3>. QED BY <3>1, <3>2, <3>3
    <2>4. position # Base /\ position \in Int
      <3>1. CASE position = -1
        BY <3>1, <1>1
      <3>2. CASE position = ChunksEnd
        BY <3>2, <1>1, <2>3
      <3>. QED BY <3>1, <3>2, <2>2
    <2>5. ~interrupted
      <3>. HIDE DEF position
      <3>. QED BY <2>4, <1>1 DEF interrupted
    <2>6. found
      <3>1. table.pos # -1
        BY <2>2, <2>3
      <3>. QED BY <2>1, <2>2, <3>1 DEF found
    <2>7. DecodeTable(r, DataStart) = Succeeds(WithTable(r))
      BY <1>4, TableDecoded
    <2>. QED BY <1>1, <1>3, <1>4, <2>5, <2>6, <2>7 DEF NotToBeFound, Failed
  <1>5. CASE phase = "crashed"
    <2>1. CASE ~found
      BY <1>1, <1>3, <1>5, <2>1 DEF NotToBeFound, Failed
    <2>2. CASE found
      <3>1. table = NoTable \/ TornTable
        BY <1>1, <1>5 DEF FileInv, CrashedFile
      <3>2. TornTable
        BY <2>2, <3>1 DEF found
      <3>3. table.readable < Len(chunks)
        BY <2>2, <3>2 DEF found, TornTable
      <3>4. IF Variable
            THEN DecodeTable(r, DataStart).ok = FALSE /\ DecodeTable(r, DataStart).point = Garbage
            ELSE DecodeTable(r, DataStart) = Succeeds(WithPart(r))
        BY <3>2, <3>3, PartDecoded
      <3>. QED BY <1>1, <1>3, <1>5, <2>2, <3>2, <3>3, <3>4 DEF NotToBeFound, Failed
    <2>. QED BY <2>1, <2>2
  <1>. QED BY <1>1, <1>4, <1>5

\* init() starts the decoder where the stream stands.
Located(r) == [r EXCEPT !.point_start = r.here, !.readers = "none"]

\* It leaves the counts and the table of the reader alone.
LEMMA LocatedFields ==
  ASSUME NEW r, IsReader(r)
  PROVE  LET t == Located(r)
         IN /\ IsReader(t)
            /\ t.readers = "none" /\ t.point_start = r.here
            /\ t.here = r.here /\ t.chunk = r.chunk /\ t.decoded = r.decoded
            /\ t.current_chunk = r.current_chunk /\ t.chunk_count = r.chunk_count
            /\ t.tabled_chunks = r.tabled_chunks /\ t.chunk_starts = r.chunk_starts
            /\ t.number_chunks = r.number_chunks /\ t.chunk_totals = r.chunk_totals
            /\ t.chunk_size = r.chunk_size
  <1>. DEFINE a == [r EXCEPT !.point_start = r.here]
              t == [a EXCEPT !.readers = "none"]
  <1>1. IsReader(a) /\ Others(a, r, "point_start") /\ a.point_start = r.here
    BY SetPointStart
  <1>. HIDE DEF a
  <1>2. IsReader(t) /\ Others(t, a, "readers") /\ t.readers = "none"
    BY <1>1, SetReaders
  <1>3. Located(r) = t
    BY DEF Located, a
  <1>. HIDE DEF t
  <1>. QED BY <1>1, <1>2, <1>3 DEF Others

\* When the chunks have been told from the table, or without it, init() only does this ...
LEMMA InitKnown ==
  ASSUME NEW r, r.number_chunks # U32MAX
  PROVE  InitDec(r) = Succeeds(Located(r))
BY DEF InitDec, Located

\* The object as setup() leaves it.
LEMMA NewReaderFields ==
  ASSUME OnDisk, Compressed
  PROVE  /\ IsReader(NewReader)
         /\ NewReader.readers = "none" /\ NewReader.here = Base /\ NewReader.point_start = 0
         /\ NewReader.chunk_size = chunk_size /\ NewReader.chunk_count = chunk_size
         /\ NewReader.current_chunk = 0 /\ NewReader.tabled_chunks = 0
         /\ NewReader.chunk_starts = Null /\ NewReader.chunk_totals = Null
         /\ NewReader.number_chunks = IF Chunked THEN U32MAX ELSE 0
  <1>1. chunk_size = SetupChunkSize
    BY FileNumbers DEF FileInv
  <1>. QED BY <1>1 DEF NewReader, IsReader

\* Reader t is about to read the first chunk and has no points counted of it.
Opened(t) ==
  /\ IsReader(t)
  /\ t.readers = "none" /\ t.here = StartOf(1) /\ t.point_start = StartOf(1)
  /\ t.current_chunk = 0 /\ t.chunk_count = chunk_size
  /\ IF Chunked
     THEN /\ SizesAreTrue(t)
          /\ \/ StartsAreTrue(t)
             \/ /\ ~Variable /\ ~in_seekable
                /\ t.chunk_starts = Null /\ t.tabled_chunks = 0 /\ t.number_chunks = 0
     ELSE /\ t.chunk_totals = Null /\ t.chunk_size = U32MAX
          /\ t.chunk_starts = Null /\ t.tabled_chunks = 0 /\ t.number_chunks = 0

\* The number of points of the first chunk, where numbers vary.
FirstSize(s) == IF s.chunk_totals = Null THEN s.chunk_size
                ELSE IF s.number_chunks = 0 THEN 0 ELSE s.chunk_totals[1]

First(s) == [s EXCEPT !.current_chunk = 0, !.chunk_size = FirstSize(s)]

\* ... and before, it reads the chunk table (read_chunk_table()).
LEMMA InitNew ==
  ASSUME NEW r, r.number_chunks = U32MAX
  PROVE  InitDec(r) = IF ReadChunkTable(r).ok THEN Succeeds(Located(First(ReadChunkTable(r).r)))
                      ELSE ReadChunkTable(r)
BY DEF InitDec, Then, Succeeds, Located, First, FirstSize

\* What the table, or the want of one, leaves: the starts that are known are true.
LEMMA TableLeaves ==
  ASSUME OnDisk, Chunked, ~NotToBeFound
  PROVE  \E s : /\ ReadChunkTable(NewReader) = Succeeds(s)
                /\ IsReader(s) /\ s.here = DataStart
                /\ s.chunk_count = chunk_size /\ s.chunk_size = chunk_size
                /\ IF Variable
                   THEN /\ phase = "closed" /\ in_seekable
                        /\ s.number_chunks = Len(chunks) /\ s.tabled_chunks = Len(chunks) + 1
                        /\ s.chunk_totals = Totals
                   ELSE s.chunk_totals = Null
                /\ \/ StartsAreTrue(s)
                   \/ /\ ~Variable /\ ~in_seekable
                      /\ s.chunk_starts = Null /\ s.tabled_chunks = 0 /\ s.number_chunks = 0
  <1>. DEFINE r == NewReader
              n == Len(chunks)
  <1>1. /\ IsReader(r) /\ r.here = Base /\ r.chunk_size = chunk_size /\ r.chunk_count = chunk_size
        /\ r.chunk_starts = Null /\ r.chunk_totals = Null
    BY NewReaderFields DEF Compressed, Chunked
  <1>2. n \in Nat /\ GrowBy \in Nat \ {0} /\ Readable \in Nat
    BY FileNumbers, Bounds
  <1>3. Compressed
    BY DEF Compressed, Chunked
  <1>. HIDE DEF r
  <1>4. CASE phase = "closed" /\ in_seekable /\ ReadChunkTable(r) = Succeeds(WithTable(r))
    <2>. DEFINE v == IF Variable THEN Totals ELSE Null
                a == [r EXCEPT !.number_chunks = n]
                b == [a EXCEPT !.tabled_chunks = n + 1]
                d == [b EXCEPT !.chunk_starts = Starts]
                e == [d EXCEPT !.here = DataStart]
                s == [e EXCEPT !.chunk_totals = v]
    <2>a. WithTable(r) = s
      BY DEF WithTable
    <2>. HIDE DEF v
    <2>1. IsReader(a) /\ Others(a, r, "number_chunks") /\ a.number_chunks = n
      BY <1>1, SetNumberChunks
    <2>. HIDE DEF a
    <2>2. IsReader(b) /\ Others(b, a, "tabled_chunks") /\ b.tabled_chunks = n + 1
      BY <2>1, SetTabledChunks
    <2>. HIDE DEF b
    <2>3. IsReader(d) /\ Others(d, b, "chunk_starts") /\ d.chunk_starts = Starts
      BY <2>2, SetChunkStarts
    <2>. HIDE DEF d
    <2>4. IsReader(e) /\ Others(e, d, "here") /\ e.here = DataStart
      BY <2>3, SetHere
    <2>. HIDE DEF e
    <2>5. IsReader(s) /\ Others(s, e, "chunk_totals") /\ s.chunk_totals = v
      BY <2>4, SetChunkTotals
    <2>. HIDE DEF s
    <2>6. /\ s.here = DataStart /\ s.chunk_count = chunk_size /\ s.chunk_size = chunk_size
          /\ s.number_chunks = n /\ s.tabled_chunks = n + 1 /\ s.chunk_starts = Starts
          /\ s.chunk_totals = IF Variable THEN Totals ELSE Null
      BY <2>1, <2>2, <2>3, <2>4, <2>5, <1>1 DEF Others, v
    <2>7. StartsAreTrue(s)
      <3>1. n + 1 \in 1 .. n + 1 /\ n \in 0 .. n + GrowBy /\ 0 .. (n + 1) - 1 = 0 .. n
        BY <1>2
      <3>2. DOMAIN Starts = 0 .. n /\ \A i \in 0 .. n : Starts[i] = StartOf(i + 1)
        BY DEF Starts
      <3>3. ASSUME NEW i \in 0 .. n PROVE FirstOf(i + 1) <= Readable
        <4>1. i + 1 \in 1 .. n + 1 /\ n + 1 \in 1 .. n + 1 /\ i + 1 <= n + 1
          BY <1>2
        <4>2. FirstOf(i + 1) <= FirstOf(n + 1)
          BY <4>1, FileFacts
        <4>3. Readable = FirstOf(n + 1)
          BY <1>3, <1>4, ReadableFacts
        <4>. QED BY <4>2, <4>3
      <3>4. phase # "crashed"
        BY <1>4
      <3>. HIDE DEF n
      <3>. QED BY <3>1, <3>2, <3>3, <3>4, <2>6 DEF StartsAreTrue, n
    <2>. QED BY <2>a, <2>5, <2>6, <2>7, <1>4 DEF r
  <1>5. CASE ~Variable /\ ReadChunkTable(r) = TableWhileReading(r, DataStart)
    <2>. DEFINE a == [r EXCEPT !.number_chunks = GrowBy]
                b == [a EXCEPT !.tabled_chunks = 1]
                d == [b EXCEPT !.chunk_starts = [i \in {0} |-> DataStart]]
                s == [d EXCEPT !.here = DataStart]
    <2>a. TableWhileReading(r, DataStart) = Succeeds(s)
      BY DEF TableWhileReading
    <2>1. IsReader(a) /\ Others(a, r, "number_chunks") /\ a.number_chunks = GrowBy
      BY <1>1, SetNumberChunks
    <2>. HIDE DEF a
    <2>2. IsReader(b) /\ Others(b, a, "tabled_chunks") /\ b.tabled_chunks = 1
      BY <2>1, SetTabledChunks
    <2>. HIDE DEF b
    <2>3. IsReader(d) /\ Others(d, b, "chunk_starts") /\ d.chunk_starts = [i \in {0} |-> DataStart]
      BY <2>2, SetChunkStarts
    <2>. HIDE DEF d
    <2>4. IsReader(s) /\ Others(s, d, "here") /\ s.here = DataStart
      BY <2>3, SetHere
    <2>. HIDE DEF s
    <2>6. /\ s.here = DataStart /\ s.chunk_count = chunk_size /\ s.chunk_size = chunk_size
          /\ s.number_chunks = GrowBy /\ s.tabled_chunks = 1
          /\ s.chunk_starts = [i \in {0} |-> DataStart] /\ s.chunk_totals = Null
      BY <2>1, <2>2, <2>3, <2>4, <1>1 DEF Others
    <2>7. StartsAreTrue(s)
      <3>1. 1 \in 1 .. n + 1 /\ GrowBy \in 0 .. n + GrowBy /\ 0 .. 1 - 1 = {0}
        BY <1>2
      <3>2. StartOf(0 + 1) = DataStart /\ FirstOf(0 + 1) <= Readable
        <4>1. StartOf(1) = DataStart /\ FirstOf(1) = 0
          BY FileFacts
        <4>2. 0 + 1 = 1 /\ 0 <= Readable
          BY <1>2
        <4>. HIDE DEF n
        <4>. QED BY <4>1, <4>2
      <3>3. /\ DOMAIN [i \in {0} |-> DataStart] = {0}
            /\ \A i \in {0} : [j \in {0} |-> DataStart][i] = DataStart
        OBVIOUS
      <3>4. 1 > n => AllAreFull
        BY <1>2 DEF AllAreFull
      <3>5. s.tabled_chunks > Len(chunks) => AllAreFull
        BY <3>4, <2>6
      <3>. QED BY <3>1, <3>2, <3>3, <3>5, <2>6 DEF StartsAreTrue
    <2>. QED BY <2>a, <2>4, <2>6, <2>7, <1>5 DEF r
  <1>6. CASE ~Variable /\ ~in_seekable /\ ReadChunkTable(r) = Succeeds(Untabled(r))
    <2>. DEFINE a == [r EXCEPT !.number_chunks = 0]
                b == [a EXCEPT !.tabled_chunks = 0]
                s == [b EXCEPT !.here = DataStart]
    <2>a. Untabled(r) = s
      BY DEF Untabled
    <2>1. IsReader(a) /\ Others(a, r, "number_chunks") /\ a.number_chunks = 0
      BY <1>1, SetNumberChunks
    <2>. HIDE DEF a
    <2>2. IsReader(b) /\ Others(b, a, "tabled_chunks") /\ b.tabled_chunks = 0
      BY <2>1, SetTabledChunks
    <2>. HIDE DEF b
    <2>3. IsReader(s) /\ Others(s, b, "here") /\ s.here = DataStart
      BY <2>2, SetHere
    <2>. HIDE DEF s
    <2>6. /\ s.here = DataStart /\ s.chunk_count = chunk_size /\ s.chunk_size = chunk_size
          /\ s.number_chunks = 0 /\ s.tabled_chunks = 0
          /\ s.chunk_starts = Null /\ s.chunk_totals = Null
      BY <2>1, <2>2, <2>3, <1>1 DEF Others
    <2>. QED BY <2>a, <2>3, <2>6, <1>6 DEF r
  <1>7. CASE /\ ~Variable /\ phase = "crashed" /\ TornTable /\ table.readable < Len(chunks)
             /\ ReadChunkTable(r) = Succeeds(WithPart(r))
    <2>. DEFINE m == table.readable
                a == [r EXCEPT !.number_chunks = n]
                b == [a EXCEPT !.tabled_chunks = m + 1]
                d == [b EXCEPT !.chunk_starts = Part]
                s == [d EXCEPT !.here = DataStart]
    <2>a. WithPart(r) = s
      BY DEF WithPart
    <2>1. IsReader(a) /\ Others(a, r, "number_chunks") /\ a.number_chunks = n
      BY <1>1, SetNumberChunks
    <2>. HIDE DEF a
    <2>2. IsReader(b) /\ Others(b, a, "tabled_chunks") /\ b.tabled_chunks = m + 1
      BY <2>1, SetTabledChunks
    <2>. HIDE DEF b
    <2>3. IsReader(d) /\ Others(d, b, "chunk_starts") /\ d.chunk_starts = Part
      BY <2>2, SetChunkStarts
    <2>. HIDE DEF d
    <2>4. IsReader(s) /\ Others(s, d, "here") /\ s.here = DataStart
      BY <2>3, SetHere
    <2>. HIDE DEF s
    <2>6. /\ s.here = DataStart /\ s.chunk_count = chunk_size /\ s.chunk_size = chunk_size
          /\ s.number_chunks = n /\ s.tabled_chunks = m + 1 /\ s.chunk_starts = Part
          /\ s.chunk_totals = Null
      BY <2>1, <2>2, <2>3, <2>4, <1>1 DEF Others
    <2>7. StartsAreTrue(s)
      <3>a. m \in 0 .. n /\ m < n
        BY <1>7 DEF TornTable
      <3>b. DOMAIN Part = 0 .. m /\ \A i \in 0 .. m : Part[i] = StartOf(i + 1)
        BY DEF Part
      <3>c. \A c \in 1 .. n : FirstOf(c) <= Readable
        BY <1>3, ReadableFacts
      <3>. HIDE DEF m
      <3>1. m + 1 \in 1 .. n + 1 /\ n \in 0 .. n + GrowBy /\ 0 .. (m + 1) - 1 = 0 .. m
            /\ ~(m + 1 > n)
        <4>. HIDE DEF n
        <4>. QED BY <1>2, <3>a
      <3>3. ASSUME NEW i \in 0 .. m PROVE FirstOf(i + 1) <= Readable
        <4>1. i + 1 \in 1 .. n
          <5>. HIDE DEF n
          <5>. QED BY <1>2, <3>a
        <4>. QED BY <4>1, <3>c
      <3>. HIDE DEF n
      <3>. QED BY <3>1, <3>b, <3>3, <2>6 DEF StartsAreTrue, n
    <2>. QED BY <2>a, <2>4, <2>6, <2>7, <1>7 DEF r
  <1>. QED BY <1>1, <1>4, <1>5, <1>6, <1>7, TableRead

\* init() of a new object: chunks of variable size whose table is not to be found are
\* refused, otherwise the first chunk can be opened.
LEMMA Opening ==
  ASSUME OnDisk, Compressed
  PROVE  IF NotToBeFound
         THEN InitDec(NewReader).ok = FALSE /\ InitDec(NewReader).point = Garbage
         ELSE \E t : InitDec(NewReader) = Succeeds(t) /\ Opened(t)
  <1>. DEFINE r == NewReader
              n == Len(chunks)
  <1>1. /\ IsReader(r) /\ r.here = Base /\ r.chunk_size = chunk_size /\ r.chunk_count = chunk_size
        /\ r.current_chunk = 0 /\ r.tabled_chunks = 0
        /\ r.chunk_starts = Null /\ r.chunk_totals = Null
        /\ r.number_chunks = IF Chunked THEN U32MAX ELSE 0
    BY NewReaderFields
  <1>2. StartOf(1) = DataStart /\ FirstOf(1) = 0
    BY FileFacts
  <1>3. n \in Nat /\ U32MAX \in Nat \ {0} /\ FileInv
    BY FileNumbers
  <1>4. CASE ~Chunked
    <2>1. InitDec(r) = Succeeds(Located(r))
      <3>1. r.number_chunks # U32MAX
        BY <1>1, <1>3, <1>4
      <3>. QED BY <3>1, InitKnown
    <2>2. Opened(Located(r))
      <3>1. StartOf(1) = Base
        BY <1>2, <1>4 DEF DataStart
      <3>2. chunk_size = U32MAX
        BY <1>3, <1>4 DEF FileInv, SetupChunkSize
      <3>. HIDE DEF r
      <3>. QED BY <3>1, <3>2, <1>1, <1>4, LocatedFields DEF Opened
    <2>. QED BY <2>1, <2>2, <1>4 DEF NotToBeFound
  <1>5. CASE Chunked /\ NotToBeFound
    <2>1. ReadChunkTable(r).ok = FALSE /\ ReadChunkTable(r).point = Garbage
      <3>. HIDE DEF r
      <3>. QED BY <1>1, <1>5, TableRead
    <2>. QED BY <1>1, <1>5, <2>1, InitNew
  <1>6. CASE Chunked /\ ~NotToBeFound
    <2>1. PICK s : /\ ReadChunkTable(r) = Succeeds(s)
                   /\ IsReader(s) /\ s.here = DataStart
                   /\ s.chunk_count = chunk_size /\ s.chunk_size = chunk_size
                   /\ IF Variable
                      THEN /\ phase = "closed" /\ in_seekable
                           /\ s.number_chunks = n /\ s.tabled_chunks = n + 1
                           /\ s.chunk_totals = Totals
                      ELSE s.chunk_totals = Null
                   /\ \/ StartsAreTrue(s)
                      \/ /\ ~Variable /\ ~in_seekable
                         /\ s.chunk_starts = Null /\ s.tabled_chunks = 0 /\ s.number_chunks = 0
      BY <1>6, TableLeaves
    <2>. DEFINE z == FirstSize(s)
                a == [s EXCEPT !.current_chunk = 0]
                b == [a EXCEPT !.chunk_size = z]
                t == Located(b)
    <2>2. InitDec(r) = Succeeds(t)
      <3>1. ReadChunkTable(r).ok /\ ReadChunkTable(r).r = s
        BY <2>1 DEF Succeeds
      <3>2. First(s) = b
        BY DEF First
      <3>. HIDE DEF b, r
      <3>. QED BY <3>1, <3>2, <1>1, <1>6, InitNew
    <2>. HIDE DEF z
    <2>3. IsReader(a) /\ Others(a, s, "current_chunk") /\ a.current_chunk = 0
      BY <2>1, SetCurrentChunk
    <2>. HIDE DEF a
    <2>4. IsReader(b) /\ Others(b, a, "chunk_size") /\ b.chunk_size = z
      BY <2>3, SetChunkSize
    <2>. HIDE DEF b
    <2>5. /\ IsReader(t)
          /\ t.readers = "none" /\ t.point_start = DataStart /\ t.here = DataStart
          /\ t.current_chunk = 0 /\ t.chunk_count = chunk_size /\ t.chunk_size = z
          /\ t.tabled_chunks = s.tabled_chunks /\ t.chunk_starts = s.chunk_starts
          /\ t.number_chunks = s.number_chunks /\ t.chunk_totals = s.chunk_totals
      BY <2>1, <2>3, <2>4, LocatedFields DEF Others
    <2>. HIDE DEF t
    <2>6. SizesAreTrue(t)
      <3>1. CASE ~Variable
        <4>1. z = chunk_size
          BY <3>1, <2>1 DEF z, FirstSize
        <4>. QED BY <4>1, <3>1, <2>1, <2>5 DEF SizesAreTrue
      <3>2. CASE Variable
        <4>1. t.chunk_totals = [i \in 0 .. n |-> FirstOf(i + 1)]
          BY <3>2, <2>1, <2>5 DEF Totals
        <4>2. z = IF n = 0 THEN 0 ELSE Totals[1]
          <5>1. 0 \in DOMAIN Totals /\ DOMAIN Null = {}
            BY <1>3 DEF Totals, Null
          <5>2. s.chunk_totals # Null
            BY <5>1, <3>2, <2>1
          <5>. QED BY <5>2, <3>2, <2>1 DEF z, FirstSize
        <4>3. CASE n = 0
          <5>1. chunks = <<>>
            BY <4>3, FileFacts
          <5>. QED BY <4>1, <4>2, <4>3, <5>1, <3>2, <2>1, <2>5 DEF SizesAreTrue
        <4>4. CASE n # 0
          <5>1. 1 \in 1 .. n /\ 1 \in 0 .. n /\ 0 < n /\ 0 + 1 = 1 /\ 1 + 1 = 2
            <6>. HIDE DEF n
            <6>. QED BY <1>3, <4>4
          <5>2. /\ chunks # <<>> /\ FirstOf(1 + 1) = FirstOf(1) + chunks[1].count
                /\ chunks[1].count \in Nat
            BY <5>1, ChunkFacts
          <5>3. z = FirstOf(1 + 1)
            BY <4>2, <4>4, <5>1 DEF Totals
          <5>4. z = chunks[1].count
            BY <5>2, <5>3, <1>2
          <5>. QED BY <4>1, <5>1, <5>2, <5>4, <3>2, <2>1, <2>5 DEF SizesAreTrue
        <4>. QED BY <4>3, <4>4
      <3>. QED BY <3>1, <3>2
    <2>7. StartsAreTrue(s) => StartsAreTrue(t)
      BY <2>5 DEF StartsAreTrue
    <2>8. Opened(t)
      BY <2>1, <2>5, <2>6, <2>7, <1>2, <1>6 DEF Opened
    <2>. QED BY <2>2, <2>8, <1>6 DEF r
  <1>. QED BY <1>4, <1>5, <1>6

------------------------------------------------------------------------------
(* read() *)

\* What the table tells of the sizes of chunks, whatever chunk the reader is in.
SizesAreKnown(t) ==
  IF Variable
  THEN /\ phase = "closed" /\ in_seekable
       /\ t.number_chunks = Len(chunks) /\ t.tabled_chunks = Len(chunks) + 1
       /\ t.chunk_totals = [i \in 0 .. Len(chunks) |-> FirstOf(i + 1)]
  ELSE t.chunk_totals = Null /\ t.chunk_size = chunk_size

\* The numbers of chunks in the reader's table are far from the sentinel.
LEMMA NumberOfChunksFits ==
  ASSUME OnDisk, NEW k \in 0 .. Len(chunks) + GrowBy
  PROVE  /\ k # U32MAX /\ k \in Nat /\ k <= U32MAX
         /\ Len(chunks) + GrowBy < U32MAX
  <1>1. /\ Len(chunks) \in Nat /\ U32MAX \in Nat \ {0} /\ FileInv
        /\ GrowBy \in Nat \ {0} /\ MaxChunks \in Nat /\ MaxChunks + GrowBy + 1 < U32MAX
    BY FileNumbers, Bounds
  <1>2. Len(chunks) <= MaxChunks + 1
    <2>1. Chunked => Len(chunks) <= MaxChunks + 1
      BY <1>1 DEF FileInv
    <2>2. ~Chunked => Len(chunks) <= 1
      BY <1>1 DEF FileInv
    <2>. QED BY <2>1, <2>2, <1>1
  <1>3. Len(chunks) + GrowBy < U32MAX
    BY <1>1, <1>2
  <1>. QED BY <1>1, <1>3

\* At the end of the table there is room for one start more.
LEMMA GrowsWell ==
  ASSUME OnDisk, NEW r, IsReader(r), r.current_chunk \in 0 .. Len(chunks),
         r.number_chunks \in 0 .. Len(chunks) + GrowBy
  PROVE  \E k : /\ Grow(r) = Succeeds([r EXCEPT !.number_chunks = k])
                /\ k \in 0 .. Len(chunks) + GrowBy
                /\ k = IF r.current_chunk < r.number_chunks THEN r.number_chunks
                       ELSE r.number_chunks + GrowBy
  <1>1. /\ Len(chunks) \in Nat /\ U32MAX \in Nat \ {0} /\ GrowBy \in Nat \ {0}
        /\ Len(chunks) + GrowBy < U32MAX
    BY FileNumbers, Bounds, NumberOfChunksFits
  <1>. DEFINE k == r.number_chunks
              at == r.current_chunk
              n == Len(chunks)
  <1>0. k \in 0 .. n + GrowBy /\ at \in 0 .. n /\ n \in Nat /\ n + GrowBy < U32MAX
    BY <1>1
  <1>2. CASE at < k
    <2>1. r = [r EXCEPT !.number_chunks = k]
      BY DEF IsReader
    <2>. QED BY <2>1, <1>0, <1>2 DEF Grow
  <1>3. CASE ~(at < k)
    <2>. DEFINE m == k + GrowBy
    <2>1. m \in 0 .. n + GrowBy /\ ~(m > U32MAX) /\ m # k
      <3>. HIDE DEF n, k, at
      <3>. QED BY <1>0, <1>1, <1>3
    <2>2. Grow(r) = Succeeds([r EXCEPT !.number_chunks = m])
      BY <2>1, <1>3 DEF Grow
    <2>. QED BY <2>1, <2>2, <1>3
  <1>. QED BY <1>2, <1>3

\* The starts that are tabled with one more.
StartsWith(r) ==
  [c \in DOMAIN r.chunk_starts \cup {r.tabled_chunks} |->
     IF c = r.tabled_chunks THEN r.point_start ELSE r.chunk_starts[c]]

\* The reader that has tabled the start of the chunk it enters.
WithStart(r) == [r EXCEPT !.tabled_chunks = r.tabled_chunks + 1, !.chunk_count = 0,
                          !.chunk_starts = StartsWith(r)]

\* The start of a chunk is tabled and its count begins; the rest stays.
LEMMA WithStartFields ==
  ASSUME NEW r, IsReader(r)
  PROVE  LET t == WithStart(r)
         IN /\ TableStart(r) = Succeeds(t)
            /\ IsReader(t)
            /\ t.readers = r.readers /\ t.point_start = r.point_start
            /\ t.here = r.here /\ t.chunk = r.chunk /\ t.decoded = r.decoded
            /\ t.current_chunk = r.current_chunk /\ t.chunk_count = 0
            /\ t.tabled_chunks = r.tabled_chunks + 1 /\ t.chunk_starts = StartsWith(r)
            /\ t.number_chunks = r.number_chunks /\ t.chunk_totals = r.chunk_totals
            /\ t.chunk_size = r.chunk_size
  <1>. DEFINE v == StartsWith(r)
              a == [r EXCEPT !.tabled_chunks = r.tabled_chunks + 1]
              b == [a EXCEPT !.chunk_count = 0]
              t == [b EXCEPT !.chunk_starts = v]
  <1>a. WithStart(r) = t
    BY DEF WithStart
  <1>b. TableStart(r) = Succeeds(WithStart(r))
    BY DEF TableStart, WithStart, StartsWith
  <1>. HIDE DEF v
  <1>1. IsReader(a) /\ Others(a, r, "tabled_chunks") /\ a.tabled_chunks = r.tabled_chunks + 1
    BY SetTabledChunks
  <1>. HIDE DEF a
  <1>2. IsReader(b) /\ Others(b, a, "chunk_count") /\ b.chunk_count = 0
    BY <1>1, SetChunkCount
  <1>. HIDE DEF b
  <1>3. IsReader(t) /\ Others(t, b, "chunk_starts") /\ t.chunk_starts = v
    BY <1>2, SetChunkStarts
  <1>. HIDE DEF t
  <1>. QED BY <1>a, <1>b, <1>1, <1>2, <1>3 DEF Others, v

\* A chunk is entered whose start was not tabled ...
LEMMA OpenUntabled ==
  ASSUME OnDisk, NEW t, IsReader(t), t.current_chunk = t.tabled_chunks,
         t.current_chunk \in 0 .. Len(chunks), t.number_chunks \in 0 .. Len(chunks) + GrowBy
  PROVE  \E u : /\ OpenChunk(t) = Succeeds(u)
                /\ IsReader(u)
                /\ u.readers = t.readers /\ u.here = t.here /\ u.point_start = t.point_start
                /\ u.current_chunk = t.current_chunk /\ u.chunk_count = 0
                /\ u.tabled_chunks = t.tabled_chunks + 1 /\ u.chunk_starts = StartsWith(t)
                /\ u.chunk_totals = t.chunk_totals /\ u.chunk_size = t.chunk_size
                /\ u.number_chunks \in 0 .. Len(chunks) + GrowBy
                /\ u.number_chunks = IF t.current_chunk < t.number_chunks THEN t.number_chunks
                                     ELSE t.number_chunks + GrowBy
  <1>1. PICK k : /\ Grow(t) = Succeeds([t EXCEPT !.number_chunks = k])
                 /\ k \in 0 .. Len(chunks) + GrowBy
                 /\ k = IF t.current_chunk < t.number_chunks THEN t.number_chunks
                        ELSE t.number_chunks + GrowBy
    BY GrowsWell
  <1>. DEFINE a == [t EXCEPT !.number_chunks = k]
              u == WithStart(a)
  <1>2. IsReader(a) /\ Others(a, t, "number_chunks") /\ a.number_chunks = k
    BY SetNumberChunks
  <1>3. OpenChunk(t) = Then(Grow(t), TableStart)
    BY DEF OpenChunk
  <1>4. Grow(t).ok /\ Grow(t).r = a
    BY <1>1 DEF Succeeds
  <1>. HIDE DEF a
  <1>5. OpenChunk(t) = TableStart(a)
    BY <1>3, <1>4 DEF Then
  <1>6. /\ TableStart(a) = Succeeds(u)
        /\ IsReader(u)
        /\ u.readers = a.readers /\ u.point_start = a.point_start
        /\ u.here = a.here /\ u.current_chunk = a.current_chunk /\ u.chunk_count = 0
        /\ u.tabled_chunks = a.tabled_chunks + 1 /\ u.chunk_starts = StartsWith(a)
        /\ u.number_chunks = a.number_chunks /\ u.chunk_totals = a.chunk_totals
        /\ u.chunk_size = a.chunk_size
    BY <1>2, WithStartFields
  <1>7. StartsWith(a) = StartsWith(t)
    BY <1>2 DEF StartsWith, Others
  <1>. HIDE DEF u
  <1>. QED BY <1>1, <1>2, <1>5, <1>6, <1>7 DEF Others

\* ... or one that the table knows, and perhaps the size of.
LEMMA OpenKnown ==
  ASSUME NEW t, IsReader(t), t.current_chunk # t.tabled_chunks
  PROVE  \E u : /\ OpenChunk(t) = Succeeds(u)
                /\ IsReader(u)
                /\ u.readers = t.readers /\ u.here = t.here /\ u.point_start = t.point_start
                /\ u.current_chunk = t.current_chunk /\ u.chunk_count = 0
                /\ u.tabled_chunks = t.tabled_chunks /\ u.chunk_starts = t.chunk_starts
                /\ u.number_chunks = t.number_chunks /\ u.chunk_totals = t.chunk_totals
                /\ u.chunk_size = IF t.chunk_totals = Null THEN t.chunk_size
                     ELSE IF t.current_chunk < t.number_chunks
                     THEN t.chunk_totals[t.current_chunk + 1] - t.chunk_totals[t.current_chunk]
                     ELSE 0
  <1>. DEFINE z == IF t.chunk_totals = Null THEN t.chunk_size
                     ELSE IF t.current_chunk < t.number_chunks
                     THEN t.chunk_totals[t.current_chunk + 1] - t.chunk_totals[t.current_chunk]
                     ELSE 0
              a == [t EXCEPT !.chunk_size = z]
              u == [a EXCEPT !.chunk_count = 0]
  <1>1. OpenChunk(t) = Succeeds(u)
    BY DEF OpenChunk
  <1>. HIDE DEF z
  <1>2. IsReader(a) /\ Others(a, t, "chunk_size") /\ a.chunk_size = z
    BY SetChunkSize
  <1>. HIDE DEF a
  <1>3. IsReader(u) /\ Others(u, a, "chunk_count") /\ u.chunk_count = 0
    BY <1>2, SetChunkCount
  <1>. HIDE DEF u
  <1>. QED BY <1>1, <1>2, <1>3 DEF Others, z

\* The chunk at whose start the reader stands is entered: its start is tabled, and
\* its size is the one it was written with.
LEMMA EnterChunk ==
  ASSUME OnDisk, Chunked, NEW t, IsReader(t), NEW c \in 1 .. Len(chunks) + 1,
         t.readers = "none", t.here = StartOf(c), t.point_start = StartOf(c),
         t.current_chunk = c - 1, FirstOf(c) <= Readable, FirstOf(c) < npoints,
         SizesAreKnown(t),
         phase = "crashed" /\ c > Len(chunks) => AllAreFull,
         \/ StartsAreTrue(t) /\ c <= t.tabled_chunks + 1
         \/ c = 1 /\ t.chunk_starts = Null /\ t.tabled_chunks = 0 /\ t.number_chunks = 0
  PROVE  \E u : /\ OpenChunk(t) = Succeeds(u)
                /\ IsReader(u) /\ InChunks(u, FirstOf(c)) /\ u.chunk_count = 0
                /\ u.chunk_size # 0
  <1>. DEFINE n == Len(chunks)
  <1>1. /\ n \in Nat /\ c \in Nat \ {0} /\ c \in Int /\ (c - 1) + 1 = c /\ c - 1 \in 0 .. n
        /\ GrowBy \in Nat \ {0}
        /\ StartOf(c) # 0 /\ FirstOf(c) \in Nat /\ chunk_size \in 1 .. U32MAX
    BY FileNumbers, PlaceFacts, Bounds
  <1>2. CASE t.current_chunk = t.tabled_chunks
    <2>1. t.number_chunks \in 0 .. n + GrowBy
      BY <1>1 DEF StartsAreTrue
    <2>2. PICK u : /\ OpenChunk(t) = Succeeds(u)
                   /\ IsReader(u)
                   /\ u.readers = t.readers /\ u.here = t.here /\ u.point_start = t.point_start
                   /\ u.current_chunk = t.current_chunk /\ u.chunk_count = 0
                   /\ u.tabled_chunks = t.tabled_chunks + 1 /\ u.chunk_starts = StartsWith(t)
                   /\ u.chunk_totals = t.chunk_totals /\ u.chunk_size = t.chunk_size
                   /\ u.number_chunks \in 0 .. Len(chunks) + GrowBy
      BY <2>1, <1>1, <1>2, OpenUntabled
    \* A table with totals has the starts of all chunks.
    <2>3. ~Variable
      <3>. SUFFICES ASSUME Variable PROVE FALSE
        OBVIOUS
      <3>1. phase = "closed" /\ t.tabled_chunks = n + 1
        BY DEF SizesAreKnown
      <3>. QED BY <3>1, <1>1, <1>2
    <2>4. SizesAreTrue(u) /\ u.chunk_size # 0
      BY <2>2, <2>3, <1>1 DEF SizesAreKnown, SizesAreTrue
    <2>5. DOMAIN t.chunk_starts = 0 .. t.tabled_chunks - 1 /\ t.tabled_chunks = c - 1
      <3>1. CASE t.chunk_starts = Null /\ t.tabled_chunks = 0
        BY <3>1, <1>2 DEF Null
      <3>2. CASE StartsAreTrue(t)
        BY <3>2, <1>2 DEF StartsAreTrue
      <3>. QED BY <3>1, <3>2
    <2>6. DOMAIN u.chunk_starts = 0 .. u.tabled_chunks - 1 /\ u.tabled_chunks = c
      <3>1. u.tabled_chunks = c
        BY <2>2, <2>5, <1>1
      <3>2. DOMAIN u.chunk_starts = (0 .. (c - 1) - 1) \cup {c - 1}
        BY <2>2, <2>5 DEF StartsWith
      <3>3. (0 .. (c - 1) - 1) \cup {c - 1} = 0 .. c - 1
        BY <1>1
      <3>. QED BY <3>1, <3>2, <3>3
    <2>7. ASSUME NEW i \in 0 .. u.tabled_chunks - 1
          PROVE  u.chunk_starts[i] = StartOf(i + 1) /\ FirstOf(i + 1) <= Readable
      <3>1. CASE i = c - 1
        BY <3>1, <2>2, <2>5, <1>1 DEF StartsWith
      <3>2. CASE i # c - 1
        <4>1. i \in 0 .. t.tabled_chunks - 1 /\ t.tabled_chunks # 0
          BY <3>2, <2>5, <2>6, <1>1
        <4>2. t.chunk_starts[i] = StartOf(i + 1) /\ FirstOf(i + 1) <= Readable
          BY <4>1 DEF StartsAreTrue
        <4>3. u.chunk_starts[i] = t.chunk_starts[i]
          BY <3>2, <4>1, <2>2, <2>5 DEF StartsWith
        <4>. QED BY <4>2, <4>3
      <3>. QED BY <3>1, <3>2
    <2>8. StartsAreTrue(u)
      <3>1. c \in 1 .. n + 1
        OBVIOUS
      <3>. QED BY <3>1, <2>2, <2>6, <2>7 DEF StartsAreTrue
    <2>9. Standing(u, c, 0)
      BY <2>2 DEF Standing
    <2>10. u.current_chunk = c - 1 /\ u.current_chunk \in 0 .. u.tabled_chunks - 1
           /\ u.current_chunk + 1 = c /\ FirstOf(c) = FirstOf(c) + 0
      BY <2>2, <2>6, <1>1
    <2>11. InChunks(u, FirstOf(c))
      BY <2>2, <2>4, <2>8, <2>9, <2>10, <1>1 DEF InChunks
    <2>. QED BY <2>2, <2>4, <2>11
  <1>3. CASE t.current_chunk # t.tabled_chunks
    <2>1. StartsAreTrue(t) /\ c <= t.tabled_chunks /\ t.tabled_chunks \in Nat
      <3>1. ~(c = 1 /\ t.tabled_chunks = 0)
        BY <1>1, <1>3
      <3>2. StartsAreTrue(t) /\ c <= t.tabled_chunks + 1
        BY <3>1
      <3>3. t.tabled_chunks \in Nat
        BY <3>2, <1>1 DEF StartsAreTrue
      <3>. QED BY <3>2, <3>3, <1>1, <1>3
    <2>2. PICK u : /\ OpenChunk(t) = Succeeds(u)
                   /\ IsReader(u)
                   /\ u.readers = t.readers /\ u.here = t.here /\ u.point_start = t.point_start
                   /\ u.current_chunk = t.current_chunk /\ u.chunk_count = 0
                   /\ u.tabled_chunks = t.tabled_chunks /\ u.chunk_starts = t.chunk_starts
                   /\ u.number_chunks = t.number_chunks /\ u.chunk_totals = t.chunk_totals
                   /\ u.chunk_size = IF t.chunk_totals = Null THEN t.chunk_size
                        ELSE IF t.current_chunk < t.number_chunks
                        THEN t.chunk_totals[t.current_chunk + 1] - t.chunk_totals[t.current_chunk]
                        ELSE 0
      BY <1>3, OpenKnown
    <2>3. StartsAreTrue(u)
      BY <2>1, <2>2 DEF StartsAreTrue
    <2>4. SizesAreTrue(u) /\ u.chunk_size # 0
      <3>1. CASE ~Variable
        BY <3>1, <2>2, <1>1 DEF SizesAreKnown, SizesAreTrue
      <3>2. CASE Variable
        <4>1. /\ phase = "closed" /\ in_seekable
              /\ t.number_chunks = n /\ t.tabled_chunks = n + 1
              /\ t.chunk_totals = [i \in 0 .. n |-> FirstOf(i + 1)]
          BY <3>2 DEF SizesAreKnown
        <4>2. c \in 1 .. n
          <5>1. npoints = FirstOf(n + 1)
            BY <4>1, ReadableFacts DEF Compressed, Chunked
          <5>2. c # n + 1
            BY <5>1, <1>1
          <5>. QED BY <5>2, <1>1
        <4>3. chunks # <<>> /\ FirstOf(c + 1) = FirstOf(c) + chunks[c].count
              /\ chunks[c].count \in Nat \ {0}
          BY <4>2, ChunkFacts
        <4>4. t.chunk_totals # Null
          <5>1. 0 \in DOMAIN t.chunk_totals /\ DOMAIN Null = {}
            BY <4>1, <1>1 DEF Null
          <5>. QED BY <5>1
        <4>5. c - 1 < n /\ c - 1 \in 0 .. n /\ c \in 0 .. n
          BY <4>2, <1>1
        <4>6. u.chunk_size = t.chunk_totals[c] - t.chunk_totals[c - 1]
          BY <4>1, <4>4, <4>5, <2>2, <1>1
        <4>7. t.chunk_totals[c] = FirstOf(c + 1) /\ t.chunk_totals[c - 1] = FirstOf(c)
          BY <4>1, <4>5, <1>1
        <4>8. u.chunk_size = chunks[c].count
          BY <4>3, <4>6, <4>7, <1>1
        <4>9. u.current_chunk + 1 = c /\ u.current_chunk < n
          BY <4>5, <2>2, <1>1
        <4>10. u.chunk_size # 0
          BY <4>3, <4>8
        <4>11. /\ u.number_chunks = n /\ u.tabled_chunks = n + 1
               /\ u.chunk_totals = [i \in 0 .. n |-> FirstOf(i + 1)]
          BY <4>1, <2>2
        <4>. QED BY <4>1, <4>3, <4>8, <4>9, <4>10, <4>11, <3>2 DEF SizesAreTrue
      <3>. QED BY <3>1, <3>2
    <2>9. Standing(u, c, 0)
      BY <2>2 DEF Standing
    <2>10. u.current_chunk = c - 1 /\ u.current_chunk \in 0 .. u.tabled_chunks - 1
           /\ u.current_chunk + 1 = c /\ FirstOf(c) = FirstOf(c) + 0
      BY <2>1, <2>2, <1>1
    <2>11. InChunks(u, FirstOf(c))
      BY <2>2, <2>3, <2>4, <2>9, <2>10, <1>1 DEF InChunks
    <2>. QED BY <2>2, <2>4, <2>11
  <1>. QED BY <1>2, <1>3

\* The next chunk, when the one before has been read.
Turned(r) == [r EXCEPT !.current_chunk = r.current_chunk + 1]

StandsElsewhere(r) ==
  /\ r.point_start # 0
  /\ r.current_chunk + 1 < r.tabled_chunks
  /\ r.chunk_starts[r.current_chunk + 1] # r.here

\* There are three ways through read(): the point is taken in the open chunk ...
LEMMA ReadInside ==
  ASSUME NEW r, IsReader(r), NEW luck, r.chunk_count # r.chunk_size
  PROVE  ReadCompressed(r, luck) = TakePoint(Counted(r), luck)
BY DEF ReadCompressed, Counted

\* ... or the chunk table cannot be read ...
LEMMA ReadRefused ==
  ASSUME NEW r, IsReader(r), NEW luck, r.chunk_count = r.chunk_size, r.point_start = 0,
         ~InitDec(r).ok
  PROVE  ReadCompressed(r, luck) = InitDec(r)
BY DEF ReadCompressed, Then

\* ... or the next chunk is entered.
LEMMA ReadEnters ==
  ASSUME NEW r, IsReader(r), NEW luck, r.chunk_count = r.chunk_size, ~StandsElsewhere(r),
         NEW t, InitDec(IF r.point_start # 0 THEN Turned(r) ELSE r) = Succeeds(t),
         NEW u, OpenChunk(t) = Succeeds(u)
  PROVE  ReadCompressed(r, luck) = TakePoint(Counted(u), luck)
  <1>. DEFINE next == IF r.point_start # 0 THEN Turned(r) ELSE r
  <1>1. next.current_chunk = IF r.point_start # 0 THEN r.current_chunk + 1 ELSE r.current_chunk
    BY DEF Turned, IsReader
  <1>2. ~(/\ r.chunk_count = r.chunk_size /\ r.point_start # 0
          /\ next.current_chunk < r.tabled_chunks
          /\ r.chunk_starts[next.current_chunk] # r.here)
    BY <1>1 DEF StandsElsewhere
  <1>3. next = IF r.chunk_count = r.chunk_size /\ r.point_start # 0
               THEN [r EXCEPT !.current_chunk = @ + 1] ELSE r
    BY DEF Turned
  <1>4. ReadCompressed(r, luck) =
          Then(InitDec(next), LAMBDA s : Then(OpenChunk(s), LAMBDA v :
                 TakePoint([v EXCEPT !.chunk_count = v.chunk_count + 1], luck)))
    <2>. HIDE DEF next
    <2>. QED BY <1>2, <1>3 DEF ReadCompressed
  <1>5. InitDec(next) = Succeeds(t) /\ InitDec(next).ok /\ InitDec(next).r = t
    BY DEF Succeeds
  <1>6. OpenChunk(t).ok /\ OpenChunk(t).r = u
    BY DEF Succeeds
  <1>. HIDE DEF next
  <1>. QED BY <1>4, <1>5, <1>6 DEF Then, Counted

\* A file in chunks is read from its beginning ...
LEMMA FirstOfChunks ==
  ASSUME OnDisk, Chunked, npoints > 0, NEW luck, NEW left
  PROVE  Answers(ReadCompressed(NewReader, luck), 0, left)
  <1>. DEFINE r == NewReader
  <1>1. /\ IsReader(r) /\ r.chunk_count = r.chunk_size /\ r.point_start = 0
        /\ Compressed /\ ~StandsElsewhere(r)
    BY NewReaderFields DEF Compressed, Chunked, StandsElsewhere
  <1>2. npoints \in Nat /\ Readable \in 0 .. npoints /\ Readable \in Nat /\ Len(chunks) \in Nat
    BY FileNumbers
  <1>3. CASE NotToBeFound
    <2>1. InitDec(r).ok = FALSE /\ InitDec(r).point = Garbage
      BY <1>1, <1>3, Opening
    <2>2. Readable = 0 /\ ~(phase = "closed" /\ in_seekable)
      BY <1>3, ReadableFacts DEF NotToBeFound
    <2>. HIDE DEF r
    <2>3. ReadCompressed(r, luck) = InitDec(r)
      BY <1>1, <2>1, ReadRefused
    <2>. QED BY <2>1, <2>2, <2>3 DEF Answers, r
  <1>4. CASE ~NotToBeFound
    <2>1. PICK t : InitDec(r) = Succeeds(t) /\ Opened(t)
      BY <1>1, <1>4, Opening
    <2>. HIDE DEF r
    <2>2. /\ IsReader(t) /\ t.readers = "none" /\ t.here = StartOf(1) /\ t.point_start = StartOf(1)
          /\ t.current_chunk = 0
          /\ SizesAreTrue(t)
          /\ \/ StartsAreTrue(t)
             \/ ~Variable /\ t.chunk_starts = Null /\ t.tabled_chunks = 0 /\ t.number_chunks = 0
      BY <2>1 DEF Opened
    <2>3. SizesAreKnown(t)
      BY <2>2 DEF SizesAreTrue, SizesAreKnown
    <2>4. FirstOf(1) = 0
      BY FileFacts
    <2>5. 1 \in 1 .. Len(chunks) + 1 /\ 1 - 1 = 0
      BY <1>2
    <2>6. StartsAreTrue(t) => 1 <= t.tabled_chunks + 1
      BY <1>2 DEF StartsAreTrue
    <2>a. 1 > Len(chunks) => AllAreFull
      BY <1>2 DEF AllAreFull
    <2>7. PICK u : /\ OpenChunk(t) = Succeeds(u)
                   /\ IsReader(u) /\ InChunks(u, FirstOf(1)) /\ u.chunk_count = 0
                   /\ u.chunk_size # 0
      BY <2>2, <2>3, <2>4, <2>5, <2>6, <2>a, <1>2, EnterChunk
    <2>8. ReadCompressed(r, luck) = TakePoint(Counted(u), luck)
      BY <2>1, <2>7, <1>1, ReadEnters
    <2>9. Answers(TakePoint(Counted(u), luck), 0, left)
      BY <2>4, <2>7, <1>2, TakenInChunks
    <2>. QED BY <2>8, <2>9 DEF r
  <1>. QED BY <1>3, <1>4

\* ... and on from wherever the reader is, into the next chunk if it must be.
LEMMA NextOfChunks ==
  ASSUME OnDisk, Chunked, NEW r, IsReader(r), NEW n \in 0 .. Readable, n < npoints,
         InChunks(r, n), NEW luck, NEW left
  PROVE  Answers(ReadCompressed(r, luck), n, left)
  <1>1. CASE r.chunk_count # r.chunk_size
    BY <1>1, ReadInside, TakenInChunks
  <1>2. CASE r.chunk_count = r.chunk_size
    <2>. DEFINE c == r.current_chunk + 1
                k == r.chunk_count
                m == Len(chunks)
    <2>1. /\ Standing(r, c, k) /\ n = FirstOf(c) + k /\ StartsAreTrue(r) /\ SizesAreTrue(r)
          /\ r.current_chunk \in 0 .. r.tabled_chunks - 1 /\ r.point_start # 0
      BY DEF InChunks
    <2>2. /\ m \in Nat /\ npoints \in Nat /\ Readable \in Nat /\ chunk_size \in 1 .. U32MAX
          /\ chunk_size \in Nat /\ r.tabled_chunks \in 1 .. m + 1
      BY <2>1, FileNumbers DEF StartsAreTrue
    <2>3. /\ c \in 1 .. m + 1
          /\ c <= m => c \in 1 .. m /\ k \in 0 .. chunks[c].ok /\ k \in Nat
          /\ ~(c <= m) => c = m + 1 /\ k = 0
      BY <2>1, StandsInChunk
    <2>a. c = r.current_chunk + 1 /\ k = r.chunk_count /\ c - 1 = r.current_chunk
          /\ r.current_chunk \in Nat /\ c \in Nat /\ c <= r.tabled_chunks
      BY <2>2, <2>1, SMTT(30)
    <2>b. Compressed /\ ~NotToBeFound
      BY <2>1 DEF SizesAreTrue, NotToBeFound, Compressed, Chunked
    <2>. HIDE DEF c, k
    \* The chunk is full, and has been read to its end.
    <2>4. c \in 1 .. m
      <3>. SUFFICES ASSUME ~(c <= m) PROVE FALSE
        BY <2>3
      <3>1. k = 0 /\ c = m + 1
        BY <2>3
      <3>2. r.chunk_size = 0 /\ r.current_chunk = m
        BY <3>1, <2>2, <2>a, <1>2
      <3>3. Variable
        BY <3>2, <2>1, <2>2 DEF SizesAreTrue
      <3>4. chunks = <<>> /\ phase = "closed"
        BY <3>2, <3>3, <2>1, <2>2 DEF SizesAreTrue
      <3>5. m = 0
        BY <3>4, FileFacts
      <3>6. npoints = FirstOf(m + 1) /\ FirstOf(1) = 0
        BY <3>4, <2>b, ReadableFacts, FileFacts
      <3>7. npoints = 0
        BY <3>5, <3>6
      <3>. QED BY <3>7, <2>2
    <2>5. /\ chunks[c].count \in Nat \ {0} /\ chunks[c].count \in 1 .. chunk_size
          /\ chunks[c].ok \in 0 .. chunks[c].count /\ chunks[c].ok \in Nat
          /\ IsWhole(chunks[c]) \/ IsTorn(chunks[c])
          /\ StartOf(c) = chunks[c].start
          /\ StartOf(c + 1) = StartOf(c) + chunks[c].bytes
          /\ FirstOf(c + 1) = FirstOf(c) + chunks[c].count
          /\ chunks # <<>> /\ c + 1 \in 1 .. m + 1
      BY <2>4, ChunkFacts
    <2>6. r.chunk_size >= chunks[c].count /\ r.chunk_size \in Nat
      <3>1. CASE Variable
        <4>1. r.chunk_size = chunks[c].count
          BY <3>1, <2>1, <2>5, <2>a DEF SizesAreTrue
        <4>. QED BY <4>1, <2>5
      <3>2. CASE ~Variable
        <4>1. r.chunk_size = chunk_size
          BY <3>2, <2>1 DEF SizesAreTrue
        <4>. QED BY <4>1, <2>5, <2>2
      <3>. QED BY <3>1, <3>2
    <2>7. k = chunks[c].count /\ k = chunks[c].ok /\ k # 0
      <3>1. k \in 0 .. chunks[c].ok /\ k >= chunks[c].count /\ k \in Nat
        BY <2>3, <2>4, <2>6, <2>a, <1>2, <2>2
      <3>. QED BY <3>1, <2>5
    <2>8. IsWhole(chunks[c])
      BY <2>5, <2>7 DEF IsTorn
    <2>9. r.here = StartOf(c + 1)
      <3>1. r.here = HereAfter(c, k)
        BY <2>1, <2>7 DEF Standing
      <3>2. ~(k < chunks[c].count)
        BY <2>5, <2>7
      <3>3. chunks[c].fault # "slip"
        BY <2>8 DEF IsWhole
      <3>. QED BY <3>1, <3>2, <3>3, <2>5 DEF HereAfter
    <2>10. n = FirstOf(c + 1)
      BY <2>1, <2>5, <2>7
    <2>11. ~StandsElsewhere(r)
      <3>. SUFFICES ASSUME c < r.tabled_chunks
                    PROVE  r.chunk_starts[c] = r.here
        BY <2>a DEF StandsElsewhere
      <3>1. c \in 0 .. r.tabled_chunks - 1
        BY <2>2, <2>a
      <3>. QED BY <3>1, <2>1, <2>9 DEF StartsAreTrue
    <2>. DEFINE next == Turned(r)
                t == Located(next)
    <2>12. /\ IsReader(next) /\ Others(next, r, "current_chunk")
           /\ next.current_chunk = r.current_chunk + 1
      BY SetCurrentChunk DEF Turned
    <2>. HIDE DEF next
    <2>13. /\ IsReader(t)
           /\ t.readers = "none" /\ t.point_start = StartOf(c + 1) /\ t.here = StartOf(c + 1)
           /\ t.current_chunk = c
           /\ t.tabled_chunks = r.tabled_chunks /\ t.chunk_starts = r.chunk_starts
           /\ t.number_chunks = r.number_chunks /\ t.chunk_totals = r.chunk_totals
           /\ t.chunk_size = r.chunk_size
      BY <2>12, <2>9, <2>a, LocatedFields DEF Others
    <2>14. InitDec(next) = Succeeds(t)
      <3>1. r.number_chunks \in 0 .. m + GrowBy
        BY <2>1 DEF StartsAreTrue
      <3>2. next.number_chunks # U32MAX
        BY <3>1, <2>12, NumberOfChunksFits DEF Others
      <3>. QED BY <3>2, InitKnown
    <2>. HIDE DEF t
    <2>15. StartsAreTrue(t) /\ SizesAreKnown(t) /\ c + 1 <= t.tabled_chunks + 1
           /\ t.current_chunk = (c + 1) - 1
      <3>1. StartsAreTrue(t)
        BY <2>1, <2>13 DEF StartsAreTrue
      <3>2. SizesAreKnown(t)
        BY <2>1, <2>13 DEF SizesAreTrue, SizesAreKnown
      <3>3. c + 1 <= t.tabled_chunks + 1 /\ c = (c + 1) - 1
        BY <2>2, <2>13, <2>a
      <3>. QED BY <3>1, <3>2, <3>3, <2>13
    <2>16. FirstOf(c + 1) <= Readable /\ FirstOf(c + 1) < npoints
      BY <2>10, <2>2
    <2>c. phase = "crashed" /\ c + 1 > m => AllAreFull
      <3>. SUFFICES ASSUME phase = "crashed", c + 1 > m PROVE AllAreFull
        OBVIOUS
      <3>1. ~Variable
        BY <2>1 DEF SizesAreTrue
      <3>2. chunks[c].count = chunk_size
        BY <3>1, <2>1, <2>7, <2>a, <1>2 DEF SizesAreTrue
      <3>3. \A i \in 1 .. m - 1 : chunks[i].count = chunk_size
        BY <3>1, FixedPlaces
      <3>4. c = m /\ \A i \in 1 .. m : i = c \/ i \in 1 .. m - 1
        <4>. HIDE DEF m
        <4>. QED BY <2>2, <2>4
      <3>. QED BY <3>2, <3>3, <3>4 DEF AllAreFull
    <2>17. PICK u : /\ OpenChunk(t) = Succeeds(u)
                    /\ IsReader(u) /\ InChunks(u, FirstOf(c + 1)) /\ u.chunk_count = 0
                    /\ u.chunk_size # 0
      BY <2>5, <2>13, <2>15, <2>16, <2>c, EnterChunk
    <2>18. ReadCompressed(r, luck) = TakePoint(Counted(u), luck)
      BY <2>1, <2>11, <2>14, <2>17, <1>2, ReadEnters DEF next
    <2>19. Answers(TakePoint(Counted(u), luck), n, left)
      BY <2>10, <2>17, TakenInChunks
    <2>. QED BY <2>18, <2>19
  <1>. QED BY <1>1, <1>2

\* A stream without chunks is one chunk, or none if there are no points.
LEMMA StreamFile ==
  ASSUME OnDisk, Compressed, ~Chunked
  PROVE  /\ Len(chunks) <= 1 /\ ~NotToBeFound
         /\ StartOf(1) = Base /\ FirstOf(1) = 0
         /\ phase = "crashed" => \A c \in 1 .. Len(chunks) : IsTorn(chunks[c])
         /\ table = NoTable
         /\ MaxTaken + MaxPoints + 1 < U32MAX
  <1>1. FileInv /\ laszip.compressor = "POINTWISE" /\ laszip \in Configs
    <2>1. WriterTypeOK /\ FileInv
      BY FileNumbers
    <2>2. laszip.compressor \in Compressors
      BY <2>1, WriterAssumption DEF WriterTypeOK
    <2>. QED BY <2>1, <2>2 DEF WriterTypeOK, Compressors, Compressed, Chunked
  <1>2. MaxTaken + MaxPoints + 1 < U32MAX
    BY <1>1, FileNumbers DEF NothingOverflows
  <1>3. StartOf(1) = Base /\ FirstOf(1) = 0
    BY FileFacts DEF DataStart
  <1>4. phase = "crashed" => \A c \in 1 .. Len(chunks) : IsTorn(chunks[c])
    BY <1>1 DEF FileInv, CrashedFile
  <1>. QED BY <1>1, <1>2, <1>3, <1>4 DEF FileInv, NotToBeFound

\* A point is taken from the stream, or the stream was cut off there.
LEMMA TakenInStream ==
  ASSUME OnDisk, Compressed, ~Chunked, NEW r, IsReader(r), NEW n \in 0 .. Readable, n < npoints,
         NEW left \in Nat, InStream(r, n, left + 1), NEW luck
  PROVE  Answers(TakePoint(Counted(r), luck), n, left)
  <1>. DEFINE t == Counted(r)
              m == Len(chunks)
  <1>1. /\ r.point_start = Base /\ r.current_chunk = 0
        /\ r.chunk_totals = Null /\ r.chunk_size = U32MAX
        /\ Standing(r, 1, n)
        /\ \/ r.chunk_starts = Null /\ r.tabled_chunks = 0 /\ r.number_chunks = 0
           \/ /\ r.chunk_starts = [i \in {0} |-> Base] /\ r.tabled_chunks = 1
              /\ r.number_chunks = GrowBy
              /\ r.chunk_count = n
        /\ r.chunk_count \in Nat
        /\ r.chunk_count + (left + 1) <= MaxTaken + MaxPoints + 1
    BY DEF InStream
  <1>2. /\ IsReader(t)
        /\ t.readers = r.readers /\ t.here = r.here /\ t.chunk = r.chunk /\ t.decoded = r.decoded
        /\ t.current_chunk = r.current_chunk /\ t.chunk_count = r.chunk_count + 1
        /\ t.tabled_chunks = r.tabled_chunks /\ t.chunk_starts = r.chunk_starts
        /\ t.number_chunks = r.number_chunks /\ t.chunk_totals = r.chunk_totals
        /\ t.chunk_size = r.chunk_size /\ t.point_start = r.point_start
    BY CountedFields
  <1>. HIDE DEF t
  <1>3. Standing(t, 1, n)
    BY <1>1, <1>2 DEF Standing
  <1>4. /\ m \in Nat /\ npoints \in Nat /\ Readable \in Nat /\ MaxTaken \in Nat /\ MaxPoints \in Nat
        /\ n \in Nat
    BY FileNumbers, Bounds
  <1>5. /\ 1 <= m => 1 \in 1 .. m /\ n \in 0 .. chunks[1].ok
        /\ ~(1 <= m) => n = 0
    BY <1>3, StandsInChunk
  <1>6. /\ ~NotToBeFound /\ FirstOf(1) = 0
        /\ phase = "crashed" => \A c \in 1 .. m : IsTorn(chunks[c])
    BY StreamFile
  <1>7. CASE 1 <= m /\ n < chunks[1].ok
    <2>. DEFINE next == Took(t, 1, n)
    <2>1. /\ TakePoint(t, luck) = [ok |-> TRUE, point |-> FirstOf(1) + n, r |-> next]
          /\ Standing(next, 1, n + 1)
      BY <1>2, <1>3, <1>7, PointTaken
    <2>2. /\ next.current_chunk = r.current_chunk /\ next.chunk_count = r.chunk_count + 1
          /\ next.tabled_chunks = r.tabled_chunks /\ next.chunk_starts = r.chunk_starts
          /\ next.number_chunks = r.number_chunks /\ next.chunk_totals = r.chunk_totals
          /\ next.chunk_size = r.chunk_size /\ next.point_start = r.point_start
          /\ IsReader(next)
      BY <1>2, TookFields
    <2>. HIDE DEF next
    <2>3. n < Readable
      <3>1. chunks[1].ok \in 0 .. chunks[1].count /\ chunks[1].count \in Nat /\ 1 \in 1 .. m
        BY <1>5, <1>7, ChunkFacts
      <3>2. n \in 0 .. chunks[1].count - 1
        BY <3>1, <1>4, <1>7
      <3>3. FirstOf(1) + n < Readable
        BY <3>1, <3>2, <1>6, <1>7, ChunkReadable
      <3>. QED BY <3>3, <1>4, <1>6
    <2>4. FirstOf(1) + n = n /\ n + 1 \in 0 .. Readable
      BY <2>3, <1>4, <1>6
    <2>5. /\ r.chunk_count + 1 \in Nat
          /\ (r.chunk_count + 1) + left <= MaxTaken + MaxPoints + 1
      BY <1>1, <1>4
    <2>6. InStream(next, n + 1, left)
      BY <2>1, <2>2, <2>5, <1>1 DEF InStream
    <2>7. At(next, n + 1, left)
      BY <2>2, <2>4, <2>6 DEF At
    <2>. QED BY <2>1, <2>3, <2>4, <2>7 DEF Answers, t
  <1>8. CASE ~(1 <= m /\ n < chunks[1].ok)
    <2>1. ASSUME 1 <= m
          PROVE  /\ 1 \in 1 .. m /\ n = chunks[1].ok
                 /\ chunks[1].ok \in 0 .. chunks[1].count /\ chunks[1].count \in Nat
                 /\ IsWhole(chunks[1]) \/ (phase = "crashed" /\ 1 = m /\ IsTorn(chunks[1]))
                 /\ FirstOf(2) = chunks[1].count /\ 1 = m
      <3>1. 1 \in 1 .. m /\ n \in 0 .. chunks[1].ok /\ m = 1
        <4>1. m <= 1
          BY StreamFile
        <4>2. m = 1
          <5>. HIDE DEF m
          <5>. QED BY <4>1, <2>1, <1>4
        <4>. QED BY <4>2, <2>1, <1>5
      <3>2. /\ chunks[1].ok \in 0 .. chunks[1].count /\ chunks[1].count \in Nat /\ chunks[1].ok \in Nat
            /\ IsWhole(chunks[1]) \/ (phase = "crashed" /\ 1 = m /\ IsTorn(chunks[1]))
            /\ FirstOf(1 + 1) = FirstOf(1) + chunks[1].count
        BY <3>1, ChunkFacts
      <3>3. n = chunks[1].ok /\ FirstOf(2) = chunks[1].count
        BY <3>1, <3>2, <1>6, <1>8
      <3>. QED BY <3>1, <3>2, <3>3
    <2>2. phase = "crashed"
      <3>. SUFFICES ASSUME phase = "closed" PROVE FALSE
        BY DEF OnDisk
      <3>1. npoints = FirstOf(m + 1)
        BY ReadableFacts
      <3>2. CASE 1 <= m
        <4>1. n = chunks[1].ok /\ IsWhole(chunks[1]) /\ m = 1
          BY <3>2, <2>1
        <4>2. n = chunks[1].count /\ m + 1 = 2
          BY <4>1 DEF IsWhole
        <4>. QED BY <4>2, <3>1, <3>2, <2>1, <1>4
      <3>3. CASE ~(1 <= m)
        <4>1. m = 0 /\ m + 1 = 1
          BY <3>3, <1>4
        <4>. QED BY <4>1, <3>1, <1>4, <1>6
      <3>. QED BY <3>2, <3>3
    <2>3. 1 <= m => n >= chunks[1].ok /\ IsTorn(chunks[1])
      BY <2>1, <2>2, <1>4, <1>6
    <2>4. TakePoint(t, luck) = Failed([t EXCEPT !.here = AtEOF])
      BY <2>3, <1>3, StreamFile, PointMissing
    <2>5. n >= Readable
      <3>1. CASE 1 <= m
        <4>1. n < chunks[1].count /\ n \in 0 .. chunks[1].count - 1
          BY <3>1, <2>1, <2>3, <1>4 DEF IsTorn
        <4>2. ~(FirstOf(1) + n < Readable)
          BY <4>1, <3>1, <2>1, <1>4, <1>6, ChunkReadable
        <4>. QED BY <4>2, <1>4, <1>6
      <3>2. CASE ~(1 <= m)
        <4>1. m = 0 /\ m + 1 = 1
          BY <3>2, <1>4
        <4>2. Readable <= FirstOf(m + 1)
          BY <1>6, ReadableFacts
        <4>. QED BY <4>1, <4>2, <1>4, <1>6
      <3>. QED BY <3>1, <3>2
    <2>. QED BY <2>2, <2>4, <2>5 DEF Answers, Failed, t
  <1>. QED BY <1>7, <1>8

\* A stream is read from its beginning.
LEMMA FirstOfStream ==
  ASSUME OnDisk, Compressed, ~Chunked, npoints > 0, NEW luck, NEW left \in 0 .. MaxPoints
  PROVE  Answers(ReadCompressed(NewReader, luck), 0, left)
  <1>. DEFINE r == NewReader
  <1>1. /\ IsReader(r) /\ r.chunk_count = r.chunk_size /\ r.point_start = 0
        /\ ~StandsElsewhere(r)
    BY NewReaderFields DEF StandsElsewhere
  <1>2. /\ npoints \in Nat /\ Readable \in 0 .. npoints /\ Readable \in Nat /\ Len(chunks) \in Nat
        /\ MaxPoints \in Nat /\ MaxTaken \in Nat /\ left \in Nat /\ GrowBy \in Nat \ {0}
    BY FileNumbers, Bounds
  <1>3. ~NotToBeFound /\ StartOf(1) = Base
    BY StreamFile
  <1>4. PICK t : InitDec(r) = Succeeds(t) /\ Opened(t)
    BY <1>3, Opening
  <1>. HIDE DEF r
  <1>5. /\ IsReader(t) /\ t.readers = "none" /\ t.here = StartOf(1) /\ t.point_start = StartOf(1)
        /\ t.current_chunk = 0
        /\ t.chunk_totals = Null /\ t.chunk_size = U32MAX
        /\ t.chunk_starts = Null /\ t.tabled_chunks = 0 /\ t.number_chunks = 0
    BY <1>4 DEF Opened
  <1>6. 0 \in 0 .. Len(chunks) /\ 0 \in 0 .. Len(chunks) + GrowBy /\ ~(0 < 0) /\ 0 + 1 = 1
        /\ 0 + GrowBy = GrowBy
    BY <1>2
  <1>7. PICK u : /\ OpenChunk(t) = Succeeds(u)
                 /\ IsReader(u)
                 /\ u.readers = t.readers /\ u.here = t.here /\ u.point_start = t.point_start
                 /\ u.current_chunk = t.current_chunk /\ u.chunk_count = 0
                 /\ u.tabled_chunks = t.tabled_chunks + 1 /\ u.chunk_starts = StartsWith(t)
                 /\ u.chunk_totals = t.chunk_totals /\ u.chunk_size = t.chunk_size
                 /\ u.number_chunks = IF t.current_chunk < t.number_chunks THEN t.number_chunks
                                      ELSE t.number_chunks + GrowBy
    BY <1>5, <1>6, OpenUntabled
  <1>8. StartsWith(t) = [i \in {0} |-> Base]
    <2>1. DOMAIN t.chunk_starts \cup {t.tabled_chunks} = {0}
      BY <1>5 DEF Null
    <2>. QED BY <2>1, <1>3, <1>5 DEF StartsWith
  <1>9. u.number_chunks = GrowBy
    BY <1>5, <1>6, <1>7
  <1>10. InStream(u, 0, left + 1)
    <2>1. Standing(u, 1, 0)
      BY <1>2, <1>5, <1>7 DEF Standing
    <2>2. 0 + (left + 1) <= MaxTaken + MaxPoints + 1
      BY <1>2
    <2>. QED BY <2>1, <2>2, <1>3, <1>5, <1>6, <1>7, <1>8, <1>9 DEF InStream
  <1>11. ReadCompressed(r, luck) = TakePoint(Counted(u), luck)
    BY <1>1, <1>4, <1>7, ReadEnters
  <1>12. Answers(TakePoint(Counted(u), luck), 0, left)
    BY <1>2, <1>7, <1>10, TakenInStream
  <1>. QED BY <1>11, <1>12 DEF r

\* Whatever the reader is asked for within the file, the answer is right.
LEMMA ReadAnswers ==
  ASSUME OnDisk, NEW r, NEW n, NEW left \in 0 .. MaxPoints, At(r, n, left + 1), n < npoints,
         NEW luck
  PROVE  Answers(ReadPoint(r, luck), n, left)
  <1>1. /\ IsReader(r) /\ n \in 0 .. Readable
        /\ npoints \in Nat /\ Readable \in 0 .. npoints /\ Readable \in Nat /\ n \in Nat
        /\ Base \in Nat \ {0} /\ left \in Nat
    BY FileNumbers, Bounds DEF At
  <1>2. Chunked => Compressed
    BY DEF Chunked, Compressed
  <1>3. CASE Compressed
    <2>1. ReadPoint(r, luck) = ReadCompressed(r, luck)
      BY <1>3 DEF ReadPoint
    <2>2. CASE r = NewReader /\ n = 0
      <3>1. npoints > 0
        BY <2>2, <1>1
      <3>. QED BY <2>1, <2>2, <3>1, <1>3, FirstOfChunks, FirstOfStream
    <2>3. CASE Chunked /\ InChunks(r, n)
      BY <2>1, <2>3, <1>1, NextOfChunks
    <2>4. CASE Compressed /\ ~Chunked /\ InStream(r, n, left + 1)
      <3>1. r.chunk_count # r.chunk_size
        <4>1. /\ r.chunk_size = U32MAX /\ r.chunk_count \in Nat
              /\ r.chunk_count + (left + 1) <= MaxTaken + MaxPoints + 1
          BY <2>4 DEF InStream
        <4>2. MaxTaken + MaxPoints + 1 < U32MAX /\ MaxTaken \in Nat /\ MaxPoints \in Nat
              /\ U32MAX \in Nat
          BY <2>4, StreamFile, Bounds, FileNumbers
        <4>. QED BY <4>1, <4>2, <1>1
      <3>2. ReadCompressed(r, luck) = TakePoint(Counted(r), luck)
        BY <3>1, <1>1, ReadInside
      <3>3. Answers(TakePoint(Counted(r), luck), n, left)
        BY <2>4, <1>1, TakenInStream
      <3>. QED BY <2>1, <3>2, <3>3
    <2>. QED BY <2>2, <2>3, <2>4, <1>3 DEF At
  <1>4. CASE ~Compressed
    <2>1. InRaw(r, n)
      <3>1. CASE InRaw(r, n)
        BY <3>1
      <3>2. CASE r = NewReader /\ n = 0
        BY <3>2, <1>1, <1>4 DEF InRaw, NewReader
      <3>. QED BY <3>1, <3>2, <1>2, <1>4 DEF At
    <2>2. r.here = Base + n /\ r.readers = "raw"
      BY <2>1 DEF InRaw
    <2>. DEFINE t == [r EXCEPT !.here = r.here + 1]
    <2>3. ReadPoint(r, luck) = [ok |-> TRUE, point |-> r.here - Base, r |-> t]
      <3>1. r.here < Base + npoints
        BY <2>2, <1>1
      <3>. QED BY <3>1, <1>4 DEF ReadPoint, ReadRaw
    <2>4. IsReader(t) /\ Others(t, r, "here") /\ t.here = r.here + 1
      BY <1>1, SetHere
    <2>. HIDE DEF t
    <2>5. Readable = npoints
      <3>1. phase = "closed" /\ ~NotToBeFound
        BY <1>2, <1>4, ReadableFacts DEF NotToBeFound, OnDisk
      <3>. QED BY <3>1, ReadableFacts
    <2>6. r.here - Base = n /\ n + 1 \in 0 .. Readable /\ n < Readable /\ t.here = Base + (n + 1)
      BY <2>2, <2>4, <2>5, <1>1
    <2>7. At(t, n + 1, left)
      BY <2>2, <2>4, <2>6, <1>4 DEF At, InRaw, Others
    <2>. QED BY <2>3, <2>6, <2>7 DEF Answers
  <1>. QED BY <1>3, <1>4

------------------------------------------------------------------------------
(* seek() *)

\* A chunk is gone to with nothing counted of it.
LEMMA Restarted ==
  ASSUME NEW r, IsReader(r), r.number_chunks # U32MAX, NEW c
  PROVE  \E u : /\ Restart(r, c) = Succeeds(u)
                /\ IsReader(u) /\ u.readers = "none"
                /\ u.here = r.chunk_starts[c] /\ u.point_start = r.chunk_starts[c]
                /\ u.current_chunk = c /\ u.chunk_count = 0
                /\ u.tabled_chunks = r.tabled_chunks /\ u.chunk_starts = r.chunk_starts
                /\ u.number_chunks = r.number_chunks /\ u.chunk_totals = r.chunk_totals
                /\ u.chunk_size = r.chunk_size
  <1>. DEFINE z == r.chunk_starts[c]
              a == [r EXCEPT !.current_chunk = c]
              b == [a EXCEPT !.here = z]
              d == Located(b)
              u == [d EXCEPT !.chunk_count = 0]
              i == InitDec(b)
  <1>a. Restart(r, c) = [i EXCEPT !.r.chunk_count = 0]
    <2>1. [r EXCEPT !.current_chunk = c, !.here = r.chunk_starts[c]] = b
      OBVIOUS
    <2>. HIDE DEF b
    <2>. QED BY <2>1 DEF Restart
  <1>. HIDE DEF z
  <1>1. IsReader(a) /\ Others(a, r, "current_chunk") /\ a.current_chunk = c
    BY SetCurrentChunk
  <1>. HIDE DEF a
  <1>2. IsReader(b) /\ Others(b, a, "here") /\ b.here = z
    BY <1>1, SetHere
  <1>. HIDE DEF b
  <1>3. i = Succeeds(d)
    <2>1. b.number_chunks # U32MAX
      BY <1>1, <1>2 DEF Others
    <2>. QED BY <2>1, InitKnown
  <1>4. /\ IsReader(d)
        /\ d.readers = "none" /\ d.point_start = z /\ d.here = z
        /\ d.current_chunk = c
        /\ d.tabled_chunks = r.tabled_chunks /\ d.chunk_starts = r.chunk_starts
        /\ d.number_chunks = r.number_chunks /\ d.chunk_totals = r.chunk_totals
        /\ d.chunk_size = r.chunk_size
    BY <1>1, <1>2, LocatedFields DEF Others
  <1>. HIDE DEF d
  <1>5. IsReader(u) /\ Others(u, d, "chunk_count") /\ u.chunk_count = 0
    BY <1>4, SetChunkCount
  <1>. HIDE DEF i
  <1>6. Restart(r, c) = [i EXCEPT !.r = u]
    <2>1. i.r = d
      BY <1>3 DEF Succeeds
    <2>2. [i EXCEPT !.r.chunk_count = 0] = [i EXCEPT !.r = [i.r EXCEPT !.chunk_count = 0]]
      OBVIOUS
    <2>. QED BY <1>a, <2>1, <2>2
  <1>. HIDE DEF u
  <1>7. [Succeeds(d) EXCEPT !.r = u] = Succeeds(u)
    <2>. DEFINE yes == TRUE
    <2>1. yes = TRUE
      OBVIOUS
    <2>. HIDE DEF yes
    <2>2. [[ok |-> yes, r |-> d, point |-> Garbage] EXCEPT !.r = u]
            = [ok |-> yes, r |-> u, point |-> Garbage]
      OBVIOUS
    <2>. QED BY <2>1, <2>2 DEF Succeeds
  <1>. QED BY <1>3, <1>4, <1>5, <1>6, <1>7 DEF Others, z

\* search_chunk_table() finds the chunk in which the point is.
LEMMA ChunkOfPoint ==
  ASSUME NEW m \in Nat \ {0}, NEW totals, \A c \in 0 .. m : totals[c] \in Nat,
         totals[0] = 0, NEW index \in Nat
  PROVE  /\ SearchChunkTable(totals, index, m) \in 0 .. m - 1
         /\ totals[SearchChunkTable(totals, index, m)] <= index
  <1>. DEFINE Is(c) == /\ totals[c] <= index \/ c = 0
                       /\ index < totals[c + 1] \/ c = m - 1
              S == {c \in Nat : c \in 0 .. m - 1 /\ (index < totals[c + 1] \/ c = m - 1)}
  <1>1. m - 1 \in S
    OBVIOUS
  <1>2. PICK c \in S : \A d \in S : c <= d
    BY <1>1, LeastNatural
  <1>3. Is(c)
    <2>1. CASE c = 0
      BY <2>1, <1>2
    <2>2. CASE c # 0
      <3>1. c - 1 \in Nat /\ c - 1 \in 0 .. m - 1 /\ ~(c <= c - 1) /\ (c - 1) + 1 = c
        BY <2>2, <1>2
      <3>2. ~(c - 1 \in S)
        BY <3>1, <1>2
      <3>3. ~(index < totals[c])
        BY <3>1, <3>2
      <3>4. totals[c] \in Nat
        BY <1>2
      <3>. QED BY <3>3, <3>4, <1>2
    <2>. QED BY <2>1, <2>2
  <1>. DEFINE goal == CHOOSE d \in 0 .. m - 1 : Is(d)
  <1>4. goal \in 0 .. m - 1 /\ Is(goal)
    <2>1. \E d \in 0 .. m - 1 : Is(d)
      BY <1>2, <1>3
    <2>. HIDE DEF Is
    <2>. QED BY <2>1
  <1>5. SearchChunkTable(totals, index, m) = goal
    BY DEF SearchChunkTable
  <1>6. totals[goal] <= index
    <2>. HIDE DEF goal
    <2>. QED BY <1>4
  <1>. HIDE DEF goal
  <1>. QED BY <1>4, <1>5, <1>6

\* seek() has brought the stream in front of the point, or points are left to skip, or
\* the file was interrupted or the stream cannot seek.
Lands(out, index) ==
  IF out.ok
  THEN out.skip \in 0 .. index /\ At(out.r, index - out.skip, out.skip)
  ELSE out.ok = FALSE /\ ~(phase = "closed" /\ in_seekable /\ npoints > 0)

\* A chunk in the table is gone to.
LEMMA ChunkGoneTo ==
  ASSUME OnDisk, Chunked, NEW r, IsReader(r), StartsAreTrue(r), SizesAreKnown(r),
         NEW goal \in 0 .. r.tabled_chunks - 1,
         Variable => goal < Len(chunks) /\ r.chunk_size = chunks[goal + 1].count
  PROVE  \E u : /\ Restart(r, goal) = Succeeds(u)
                /\ IsReader(u) /\ InChunks(u, FirstOf(goal + 1))
                /\ u.chunk_count = 0 /\ u.current_chunk = goal
  <1>1. /\ r.number_chunks # U32MAX
        /\ r.tabled_chunks \in 1 .. Len(chunks) + 1 /\ Len(chunks) \in Nat
    BY NumberOfChunksFits, FileNumbers DEF StartsAreTrue
  <1>2. PICK u : /\ Restart(r, goal) = Succeeds(u)
                 /\ IsReader(u) /\ u.readers = "none"
                 /\ u.here = r.chunk_starts[goal] /\ u.point_start = r.chunk_starts[goal]
                 /\ u.current_chunk = goal /\ u.chunk_count = 0
                 /\ u.tabled_chunks = r.tabled_chunks /\ u.chunk_starts = r.chunk_starts
                 /\ u.number_chunks = r.number_chunks /\ u.chunk_totals = r.chunk_totals
                 /\ u.chunk_size = r.chunk_size
    BY <1>1, Restarted
  <1>3. goal + 1 \in 1 .. Len(chunks) + 1
    BY <1>1
  <1>4. r.chunk_starts[goal] = StartOf(goal + 1) /\ StartOf(goal + 1) # 0
        /\ FirstOf(goal + 1) \in Nat
    BY <1>3, PlaceFacts DEF StartsAreTrue
  <1>5. StartsAreTrue(u)
    BY <1>2 DEF StartsAreTrue
  <1>6. SizesAreTrue(u)
    <2>1. CASE Variable
      <3>1. chunks # <<>>
        <4>1. goal + 1 \in 1 .. Len(chunks)
          BY <1>1, <2>1
        <4>. QED BY <4>1, ChunkFacts
      <3>2. /\ phase = "closed" /\ in_seekable
            /\ u.number_chunks = Len(chunks) /\ u.tabled_chunks = Len(chunks) + 1
            /\ u.chunk_totals = [i \in 0 .. Len(chunks) |-> FirstOf(i + 1)]
        BY <1>2, <2>1 DEF SizesAreKnown
      <3>. QED BY <1>2, <2>1, <3>1, <3>2 DEF SizesAreTrue
    <2>2. CASE ~Variable
      BY <1>2, <2>2 DEF SizesAreKnown, SizesAreTrue
    <2>. QED BY <2>1, <2>2
  <1>7. Standing(u, goal + 1, 0)
    BY <1>2, <1>3, <1>4 DEF Standing
  <1>8. InChunks(u, FirstOf(goal + 1))
    <2>1. FirstOf(goal + 1) = FirstOf(goal + 1) + 0
      BY <1>4
    <2>. QED BY <1>2, <1>4, <1>5, <1>6, <1>7, <2>1 DEF InChunks
  <1>. QED BY <1>2, <1>8

\* Points that are ahead in the chunk, or in the last one that is tabled, are skipped.
LEMMA ReadsOn ==
  ASSUME OnDisk, Chunked, NEW r, IsReader(r), NEW p \in 0 .. Readable, InChunks(r, p),
         NEW index \in Nat, p <= index
  PROVE  Lands(Skipping(Succeeds(r), index - p), index)
  <1>. DEFINE out == Skipping(Succeeds(r), index - p)
  <1>1. Readable \in Nat /\ p \in Nat
    BY FileNumbers
  <1>2. index - p \in 0 .. index /\ index - (index - p) = p
    BY <1>1
  <1>3. out.ok /\ out.r = r /\ out.skip = index - p
    BY DEF Skipping, Succeeds
  <1>4. At(r, p, index - p)
    BY DEF At
  <1>. HIDE DEF out
  <1>5. Lands(out, index)
    BY <1>2, <1>3, <1>4 DEF Lands
  <1>. QED BY <1>5 DEF out

\* A reader that went to the start of a chunk has the points up to the index to skip.
LEMMA RestartLands ==
  ASSUME OnDisk, Chunked, NEW out, NEW u, NEW c \in 1 .. Len(chunks) + 1,
         out = Succeeds(u), IsReader(u), InChunks(u, FirstOf(c)), FirstOf(c) <= Readable,
         NEW index \in Nat, NEW skip, skip = index - FirstOf(c), FirstOf(c) <= index
  PROVE  Lands(Skipping(out, skip), index)
  <1>1. FirstOf(c) \in Nat /\ Readable \in Nat
    BY FileNumbers, PlaceFacts
  <1>2. skip \in 0 .. index /\ index - skip = FirstOf(c) /\ FirstOf(c) \in 0 .. Readable
    BY <1>1
  <1>3. Skipping(out, skip).ok /\ Skipping(out, skip).r = u /\ Skipping(out, skip).skip = skip
    BY DEF Skipping, Succeeds
  <1>4. At(u, FirstOf(c), skip)
    BY <1>2 DEF At
  <1>. QED BY <1>2, <1>3, <1>4 DEF Lands

\* In a file with chunks of variable size the table is searched for the chunk.
LEMMA SeekInVariable ==
  ASSUME OnDisk, Chunked, Variable, NEW s, IsReader(s), NEW p \in 0 .. Readable, InChunks(s, p),
         NEW index \in 0 .. npoints
  PROVE  Lands(SeekInTable(s, p, index), index)
  <1>. DEFINE m == Len(chunks)
  <1>1. /\ StartsAreTrue(s) /\ SizesAreTrue(s) /\ p = FirstOf(s.current_chunk + 1) + s.chunk_count
        /\ s.current_chunk \in 0 .. s.tabled_chunks - 1 /\ s.point_start # 0
        /\ Standing(s, s.current_chunk + 1, s.chunk_count)
    BY DEF InChunks
  <1>2. /\ phase = "closed" /\ in_seekable
        /\ s.number_chunks = m /\ s.tabled_chunks = m + 1
        /\ s.chunk_totals = [i \in 0 .. m |-> FirstOf(i + 1)]
        /\ IF chunks = <<>> THEN s.chunk_size = 0
           ELSE /\ s.current_chunk < m
                /\ s.chunk_size = chunks[s.current_chunk + 1].count
    BY <1>1 DEF SizesAreTrue
  <1>3. m \in Nat /\ npoints \in Nat /\ index \in Nat /\ Readable \in Nat /\ p \in Nat
        /\ s.current_chunk \in Nat
    BY <1>1, <1>2, FileNumbers
  <1>. DEFINE totals == s.chunk_totals
  <1>4. totals # Null
    <2>1. 0 \in DOMAIN totals /\ DOMAIN Null = {}
      BY <1>2, <1>3 DEF Null
    <2>. QED BY <2>1
  <1>5. CASE m = 0
    <2>1. SeekInTable(s, p, index) = Skipping(Failed(s), 0)
      BY <1>2, <1>4, <1>5 DEF SeekInTable
    <2>2. npoints = 0
      <3>1. npoints = FirstOf(m + 1) /\ FirstOf(1) = 0 /\ m + 1 = 1
        BY <1>2, <1>5, ReadableFacts, FileFacts DEF Compressed, Chunked
      <3>. QED BY <3>1
    <2>. QED BY <2>1, <2>2 DEF Lands, Skipping, Failed
  <1>6. CASE m # 0
    <2>. DEFINE goal == SearchChunkTable(totals, index, m)
                inside == index - totals[goal]
                z == totals[goal + 1] - totals[goal]
                sized == [s EXCEPT !.chunk_size = z]
    <2>1. goal \in 0 .. m - 1 /\ totals[goal] <= index
      <3>1. ASSUME NEW c \in 0 .. m PROVE totals[c] \in Nat
        <4>1. c + 1 \in 1 .. m + 1
          BY <1>3
        <4>. QED BY <4>1, <1>2, PlaceFacts
      <3>2. totals[0] = 0
        <4>1. FirstOf(1) = 0
          BY FileFacts
        <4>2. 0 \in 0 .. m /\ 0 + 1 = 1
          BY <1>3
        <4>. QED BY <4>1, <4>2, <1>2
      <3>3. m \in Nat \ {0}
        BY <1>3, <1>6
      <3>. HIDE DEF totals, m
      <3>. QED BY <3>1, <3>2, <3>3, <1>3, ChunkOfPoint
    <2>2. /\ SeekInTable(s, p, index) =
               IF s.current_chunk # goal \/ p > index
               THEN Skipping(Restart(sized, goal), inside)
               ELSE Skipping(Succeeds(sized), index - p)
      <3>1. ~(s.number_chunks = 0) /\ ~(goal >= s.tabled_chunks)
        BY <2>1, <1>2, <1>3, <1>6
      <3>. QED BY <3>1, <1>2, <1>4 DEF SeekInTable
    <2>. HIDE DEF goal
    <2>3. /\ goal + 1 \in 1 .. m /\ goal + 1 \in 1 .. m + 1 /\ goal \in 0 .. m
          /\ goal + 1 \in 0 .. m /\ goal < m /\ goal \in 0 .. s.tabled_chunks - 1
      BY <2>1, <1>2, <1>3
    <2>4. /\ totals[goal] = FirstOf(goal + 1) /\ totals[goal + 1] = FirstOf((goal + 1) + 1)
          /\ FirstOf((goal + 1) + 1) = FirstOf(goal + 1) + chunks[goal + 1].count
          /\ FirstOf(goal + 1) \in Nat /\ chunks[goal + 1].count \in Nat /\ chunks # <<>>
      BY <2>3, <1>2, ChunkFacts
    <2>5. z = chunks[goal + 1].count
      BY <2>4
    <2>. HIDE DEF z
    <2>6. IsReader(sized) /\ Others(sized, s, "chunk_size") /\ sized.chunk_size = z
      BY SetChunkSize
    <2>. HIDE DEF sized, totals
    <2>7. StartsAreTrue(sized) /\ SizesAreKnown(sized) /\ sized.tabled_chunks = s.tabled_chunks
      <3>1. StartsAreTrue(sized)
        BY <2>6, <1>1 DEF StartsAreTrue, Others
      <3>2. SizesAreKnown(sized)
        BY <2>6, <1>2 DEF SizesAreKnown, Others
      <3>. QED BY <3>1, <3>2, <2>6 DEF Others
    <2>8. CASE s.current_chunk # goal \/ p > index
      <3>1. PICK u : /\ Restart(sized, goal) = Succeeds(u)
                     /\ IsReader(u) /\ InChunks(u, FirstOf(goal + 1))
        BY <2>3, <2>5, <2>6, <2>7, ChunkGoneTo
      <3>2. FirstOf(goal + 1) <= Readable
        BY <2>3, <1>1 DEF StartsAreTrue
      <3>3. inside = index - FirstOf(goal + 1) /\ FirstOf(goal + 1) <= index
        BY <2>1, <2>4
      <3>4. Lands(Skipping(Restart(sized, goal), inside), index)
        BY <3>1, <3>2, <3>3, <2>3, <1>3, RestartLands
      <3>. QED BY <3>4, <2>2, <2>8
    <2>9. CASE ~(s.current_chunk # goal \/ p > index)
      <3>1. InChunks(sized, p)
        <4>1. Standing(sized, sized.current_chunk + 1, sized.chunk_count)
          BY <2>6, <1>1 DEF Standing, Others
        <4>2. SizesAreTrue(sized)
          BY <2>4, <2>5, <2>6, <2>9, <1>1, <1>2 DEF SizesAreTrue, Others
        <4>. QED BY <4>1, <4>2, <2>6, <2>7, <1>1 DEF InChunks, Others
      <3>2. p <= index
        BY <2>9, <1>3
      <3>3. Lands(Skipping(Succeeds(sized), index - p), index)
        BY <3>1, <3>2, <2>6, <1>3, ReadsOn
      <3>. QED BY <3>3, <2>2, <2>9
    <2>. QED BY <2>8, <2>9
  <1>. QED BY <1>5, <1>6

\* Division finds a chunk and a place in it.
LEMMA Division ==
  ASSUME NEW a \in Nat, NEW d \in Nat \ {0}
  PROVE  /\ a \div d \in Nat /\ a % d \in 0 .. d - 1
         /\ a = ((a \div d) * d) + (a % d)
  <1>. DEFINE q == a \div d
              r == a % d
  <1>1. q \in Int /\ r \in 0 .. d - 1 /\ a = (q * d) + r
    OBVIOUS
  <1>2. q >= 0
    OBVIOUS
  <1>. QED BY <1>1, <1>2

\* Chunks further on start further on.
LEMMA TimesRises ==
  ASSUME NEW d \in Nat, NEW j \in Nat, NEW g \in Nat, j <= g
  PROVE  /\ j * d \in Nat /\ g * d \in Nat /\ j * d <= g * d
         /\ g * d = (j * d) + ((g - j) * d) /\ (g - j) * d \in Nat
         /\ d * (g - j) = (g - j) * d
         /\ j < g => (g - j) * d >= d
  <1>. DEFINE k == g - j
  <1>1. k \in Nat /\ g = j + k
    OBVIOUS
  <1>. HIDE DEF k
  <1>2. j * d \in Nat /\ k * d \in Nat /\ d * k = k * d
    BY <1>1
  <1>3. (j + k) * d = (j * d) + (k * d)
    BY <1>1
  <1>4. g * d = (j * d) + (k * d)
    BY <1>1, <1>3
  <1>5. j < g => k * d >= d
    <2>. SUFFICES ASSUME j < g PROVE k * d >= d
      OBVIOUS
    <2>. DEFINE i == k - 1
    <2>1. i \in Nat /\ k = i + 1
      BY <1>1
    <2>. HIDE DEF i
    <2>2. i * d \in Nat /\ (i + 1) * d = (i * d) + d
      BY <2>1, TimesNext
    <2>. QED BY <2>1, <2>2
  <1>. DEFINE x == j * d
              y == k * d
              w == g * d
  <1>6. x \in Nat /\ y \in Nat /\ w = x + y
    BY <1>2, <1>4
  <1>. HIDE DEF x, y, w
  <1>7. w \in Nat /\ x <= w
    BY <1>6
  <1>. QED BY <1>2, <1>4, <1>5, <1>6, <1>7 DEF k, x, y, w

\* Up to the point that is sought, the chunks that can be read are where division
\* expects them.
LEMMA FixedStart ==
  ASSUME OnDisk, Chunked, ~Variable, NEW j \in 0 .. Len(chunks), FirstOf(j + 1) <= Readable,
         phase = "crashed" /\ j >= Len(chunks) => AllAreFull, NEW index \in 0 .. npoints, j * chunk_size <= index
  PROVE  FirstOf(j + 1) = j * chunk_size
  <1>. DEFINE m == Len(chunks)
  <1>1. m \in Nat /\ npoints \in Nat /\ chunk_size \in Nat /\ index \in Nat
    BY FileNumbers
  <1>2. CASE j < m
    <2>1. j + 1 \in 1 .. m /\ (j + 1) - 1 = j
      BY <1>1, <1>2
    <2>2. FirstOf(j + 1) = ((j + 1) - 1) * chunk_size
      BY <2>1, FixedPlaces
    <2>. QED BY <2>1, <2>2
  <1>3. CASE ~(j < m)
    <2>1. j = m
      BY <1>1, <1>3
    <2>2. CASE phase = "crashed"
      <3>1. FirstOf(m + 1) = m * chunk_size
        <4>1. AllAreFull
          BY <1>1, <2>1, <2>2
        <4>. QED BY <4>1, FixedPlaces
      <3>. QED BY <3>1, <2>1
    <2>3. CASE phase = "closed"
      <3>1. npoints = FirstOf(m + 1) /\ FirstOf(m + 1) <= m * chunk_size
        BY <2>3, ReadableFacts, FixedPlaces DEF Compressed, Chunked
      <3>2. m * chunk_size <= index /\ m * chunk_size \in Nat
        BY <2>1, <1>1, TimesNext
      <3>. DEFINE x == m * chunk_size
      <3>3. npoints <= x /\ x <= index /\ x \in Nat /\ index <= npoints
        BY <3>1, <3>2
      <3>. HIDE DEF x
      <3>4. npoints = x
        BY <3>3, <1>1
      <3>. QED BY <3>1, <3>4, <2>1 DEF x
    <2>. QED BY <2>2, <2>3 DEF OnDisk
  <1>. QED BY <1>2, <1>3

\* In a file with chunks of fixed size the chunk is found by division, or the last
\* one that is tabled is gone to.
LEMMA SeekInFixed ==
  ASSUME OnDisk, Chunked, ~Variable, NEW s, IsReader(s), NEW p \in 0 .. Readable, InChunks(s, p),
         NEW index \in 0 .. npoints
  PROVE  Lands(SeekInTable(s, p, index), index)
  <1>. DEFINE m == Len(chunks)
              goal == index \div chunk_size
              inside == index % chunk_size
              last == s.tabled_chunks - 1
              onLast == IF s.current_chunk < last THEN Restart(s, last) ELSE Succeeds(s)
              skip == inside + ((chunk_size * (goal - onLast.r.current_chunk))
                                  - onLast.r.chunk_count)
  <1>1. /\ StartsAreTrue(s) /\ SizesAreTrue(s) /\ p = FirstOf(s.current_chunk + 1) + s.chunk_count
        /\ s.current_chunk \in 0 .. s.tabled_chunks - 1 /\ s.point_start # 0
        /\ Standing(s, s.current_chunk + 1, s.chunk_count)
        /\ s.chunk_totals = Null /\ s.chunk_size = chunk_size
        /\ SizesAreKnown(s)
    BY DEF InChunks, SizesAreTrue, SizesAreKnown
  <1>2. /\ m \in Nat /\ npoints \in Nat /\ index \in Nat /\ Readable \in Nat /\ p \in Nat
        /\ chunk_size \in Nat \ {0} /\ chunk_size \in Nat
        /\ s.tabled_chunks \in 1 .. m + 1 /\ s.tabled_chunks \in Nat
        /\ s.current_chunk \in Nat /\ s.current_chunk \in 0 .. m
    BY <1>1, FileNumbers, SMTT(30) DEF StartsAreTrue
  <1>3. SeekInTable(s, p, index) =
          IF goal >= s.tabled_chunks THEN Skipping(onLast, skip)
          ELSE IF s.current_chunk # goal \/ p > index
          THEN Skipping(Restart(s, goal), inside)
          ELSE Skipping(Succeeds(s), index - p)
    BY <1>1 DEF SeekInTable
  <1>4. /\ goal \in Nat /\ inside \in 0 .. chunk_size - 1 /\ inside \in Nat
        /\ index = (goal * chunk_size) + inside
    <2>1. /\ goal \in Nat /\ inside \in 0 .. chunk_size - 1
          /\ index = (goal * chunk_size) + inside
      BY <1>2, Division
    <2>. HIDE DEF inside, goal
    <2>2. inside \in Nat
      BY <2>1, <1>2
    <2>. QED BY <2>1, <2>2
  <1>. HIDE DEF goal, inside, skip
  \* The chunk is in the table ...
  <1>5. CASE goal < s.tabled_chunks
    <2>1. goal \in 0 .. s.tabled_chunks - 1 /\ goal \in 0 .. m /\ goal + 1 \in 1 .. m + 1
          /\ ~(goal >= s.tabled_chunks)
      BY <1>2, <1>4, <1>5
    <2>2. CASE s.current_chunk # goal \/ p > index
      <3>1. PICK u : /\ Restart(s, goal) = Succeeds(u)
                     /\ IsReader(u) /\ InChunks(u, FirstOf(goal + 1))
        BY <2>1, <1>1, ChunkGoneTo
      <3>2. FirstOf(goal + 1) <= Readable
        BY <2>1, <1>1 DEF StartsAreTrue
      <3>. DEFINE x == goal * chunk_size
      <3>3. x \in Nat
        BY <1>2, <1>4, TimesNext
      <3>. HIDE DEF x
      <3>4. x <= index /\ inside = index - x
        BY <3>3, <1>4 DEF x
      <3>a. phase = "crashed" /\ goal >= m => AllAreFull
        BY <2>1, <1>1, <1>2, <1>4 DEF StartsAreTrue
      <3>5. FirstOf(goal + 1) = x
        BY <2>1, <3>2, <3>4, <3>a, FixedStart DEF x
      <3>6. Lands(Skipping(Restart(s, goal), inside), index)
        BY <2>1, <3>1, <3>2, <3>4, <3>5, <1>2, RestartLands
      <3>. QED BY <3>6, <2>1, <2>2, <1>3
    <2>3. CASE ~(s.current_chunk # goal \/ p > index)
      <3>1. p <= index
        BY <2>3, <1>2
      <3>2. Lands(Skipping(Succeeds(s), index - p), index)
        BY <3>1, <1>2, ReadsOn
      <3>. QED BY <3>2, <2>1, <2>3, <1>3
    <2>. QED BY <2>2, <2>3
  \* ... or behind it.
  <1>6. CASE ~(goal < s.tabled_chunks)
    <2>1. /\ goal >= s.tabled_chunks /\ last \in Nat /\ last < goal /\ last \in 0 .. m
          /\ last \in 0 .. s.tabled_chunks - 1 /\ last + 1 \in 1 .. m + 1
      BY <1>2, <1>4, <1>6
    <2>2. FirstOf(last + 1) <= Readable /\ FirstOf(last + 1) \in Nat
      BY <2>1, <1>1, PlaceFacts DEF StartsAreTrue
    <2>. DEFINE x == last * chunk_size
                y == (goal - last) * chunk_size
                w == goal * chunk_size
    <2>3. x \in Nat /\ y \in Nat /\ w = x + y /\ y >= chunk_size /\ y = chunk_size * (goal - last)
      <3>. HIDE DEF last
      <3>. QED BY <2>1, <1>2, <1>4, TimesRises
    <2>. HIDE DEF x, y, w
    <2>4. index = (x + y) + inside
      BY <2>3, <1>4 DEF w
    <2>5. FirstOf(last + 1) = x
      <3>1. x <= index
        BY <2>3, <2>4, <1>4
      <3>2. phase = "crashed" /\ last >= m => AllAreFull
        BY <2>1, <1>1, <1>2 DEF StartsAreTrue
      <3>. HIDE DEF last
      <3>. QED BY <2>1, <2>2, <3>1, <3>2, FixedStart DEF x
    <2>6. SeekInTable(s, p, index) = Skipping(onLast, skip)
      BY <2>1, <1>3
    <2>7. CASE s.current_chunk < last
      <3>1. PICK u : /\ Restart(s, last) = Succeeds(u)
                     /\ IsReader(u) /\ InChunks(u, FirstOf(last + 1))
                     /\ u.chunk_count = 0 /\ u.current_chunk = last
        <4>. HIDE DEF last
        <4>. QED BY <2>1, <1>1, ChunkGoneTo
      <3>2. onLast = Succeeds(u) /\ onLast.r = u
        BY <2>7, <3>1 DEF Succeeds
      <3>3. skip = inside + (y - 0)
        BY <2>3, <3>1, <3>2 DEF skip
      <3>4. skip = index - x /\ x <= index
        BY <2>3, <2>4, <3>3, <1>4
      <3>. HIDE DEF last, onLast
      <3>5. Lands(Skipping(onLast, skip), index)
        BY <2>1, <2>2, <2>5, <3>1, <3>2, <3>4, <1>2, RestartLands
      <3>. QED BY <3>5, <2>6
    <2>8. CASE ~(s.current_chunk < last)
      <3>1. s.current_chunk = last
        BY <2>8, <1>1, <1>2
      <3>2. onLast = Succeeds(s) /\ onLast.r = s
        BY <2>8 DEF Succeeds
      <3>3. s.chunk_count \in Nat /\ s.chunk_count <= chunk_size
        <4>. DEFINE c == s.current_chunk + 1
        <4>1. /\ c \in 1 .. m + 1
              /\ c <= m => c \in 1 .. m /\ s.chunk_count \in 0 .. chunks[c].ok
              /\ ~(c <= m) => s.chunk_count = 0
          BY <1>1, StandsInChunk
        <4>. HIDE DEF c
        <4>2. CASE c <= m
          <5>1. /\ s.chunk_count \in 0 .. chunks[c].ok /\ chunks[c].ok \in 0 .. chunks[c].count
                /\ chunks[c].count \in 1 .. chunk_size
            BY <4>1, <4>2, ChunkFacts
          <5>. QED BY <5>1, <1>2
        <4>3. CASE ~(c <= m)
          BY <4>1, <4>3, <1>2
        <4>. QED BY <4>2, <4>3
      <3>4. skip = inside + (y - s.chunk_count)
        BY <2>3, <3>1, <3>2 DEF skip
      <3>5. p = x + s.chunk_count
        BY <3>1, <2>5, <1>1
      <3>6. skip = index - p /\ p <= index
        <4>1. x \in Nat /\ y \in Nat /\ y >= chunk_size
          BY <2>3
        <4>2. inside \in Nat /\ chunk_size \in Nat /\ index \in Nat
          BY <1>2, <1>4
        <4>. DEFINE k == s.chunk_count
        <4>3. k \in Nat /\ k <= chunk_size /\ skip = inside + (y - k) /\ p = x + k
          BY <3>3, <3>4, <3>5
        <4>. HIDE DEF k
        <4>. QED BY <4>1, <4>2, <4>3, <2>4
      <3>. HIDE DEF onLast
      <3>7. Lands(Skipping(onLast, skip), index)
        BY <3>2, <3>6, <1>2, ReadsOn
      <3>. QED BY <3>7, <2>6
    <2>. QED BY <2>7, <2>8
  <1>. QED BY <1>5, <1>6

\* The caller stops before the count of a stream without chunks comes to U32MAX.
CountIsLow(r) == r.point_start # 0 /\ r.chunk_size = U32MAX => r.chunk_count <= MaxTaken

\* A stream without chunks is read on, or again from its start.
LEMMA SeekInStream ==
  ASSUME OnDisk, Compressed, ~Chunked, NEW s, IsReader(s), NEW p \in 0 .. Readable,
         InStream(s, p, 0), s.chunk_count <= MaxTaken, NEW index \in 0 .. npoints
  PROVE  Lands(IF s.chunk_starts # Null THEN SeekInTable(s, p, index)
               ELSE SeekWithoutTable(s, p, index), index)
  <1>1. /\ s.point_start = Base /\ s.current_chunk = 0
        /\ s.chunk_totals = Null /\ s.chunk_size = U32MAX
        /\ Standing(s, 1, p)
        /\ \/ s.chunk_starts = Null /\ s.tabled_chunks = 0 /\ s.number_chunks = 0
           \/ /\ s.chunk_starts = [i \in {0} |-> Base] /\ s.tabled_chunks = 1
              /\ s.number_chunks = GrowBy
              /\ s.chunk_count = p
        /\ s.chunk_count \in Nat
    BY DEF InStream
  <1>2. /\ Readable \in Nat /\ p \in Nat /\ npoints \in Nat /\ index \in Nat /\ Len(chunks) \in Nat
        /\ MaxTaken \in Nat /\ MaxPoints \in Nat /\ index <= MaxPoints
        /\ U32MAX \in Nat \ {0} /\ Base \in Nat \ {0} /\ GrowBy \in Nat \ {0}
        /\ MaxTaken + MaxPoints + 1 < U32MAX
    <2>1. FileInv /\ npoints \in Nat
      BY FileNumbers
    <2>2. npoints <= MaxPoints
      BY <2>1 DEF FileInv
    <2>. QED BY <2>1, <2>2, FileNumbers, Bounds, StreamFile
  <1>3. StartOf(1) = Base /\ 1 \in 1 .. Len(chunks) + 1
    BY <1>2, StreamFile
  \* From where it is, or ...
  <1>4. ASSUME p <= index
        PROVE  Lands(Skipping(Succeeds(s), index - p), index)
    <2>. DEFINE out == Skipping(Succeeds(s), index - p)
    <2>1. index - p \in 0 .. index /\ index - (index - p) = p
      BY <1>2, <1>4
    <2>2. out.ok /\ out.r = s /\ out.skip = index - p
      BY DEF Skipping, Succeeds
    <2>3. s.chunk_count + (index - p) <= MaxTaken + MaxPoints + 1
      BY <1>1, <1>2, <1>4
    <2>4. InStream(s, p, index - p)
      BY <1>1, <2>3 DEF InStream
    <2>5. At(s, p, index - p)
      BY <2>4 DEF At
    <2>. HIDE DEF out
    <2>6. Lands(out, index)
      BY <2>1, <2>2, <2>5 DEF Lands
    <2>. QED BY <2>6 DEF out
  \* ... from the start.
  <1>5. ASSUME NEW out, NEW u, out = Succeeds(u), IsReader(u),
               u.readers = "none", u.here = Base, u.point_start = Base, u.current_chunk = 0,
               u.chunk_totals = Null, u.chunk_size = U32MAX,
               u.chunk_starts = s.chunk_starts, u.tabled_chunks = s.tabled_chunks,
               u.number_chunks = s.number_chunks,
               u.chunk_count = IF s.chunk_starts = Null THEN s.chunk_count ELSE 0
        PROVE  Lands(Skipping(out, index), index)
    <2>1. Standing(u, 1, 0)
      BY <1>3, <1>5 DEF Standing
    <2>2. u.chunk_count \in Nat /\ u.chunk_count + index <= MaxTaken + MaxPoints + 1
      BY <1>1, <1>2, <1>5
    <2>3. \/ s.chunk_starts = Null /\ s.tabled_chunks = 0 /\ s.number_chunks = 0
          \/ /\ s.chunk_starts = [i \in {0} |-> Base] /\ s.tabled_chunks = 1
             /\ s.number_chunks = GrowBy
             /\ s.chunk_starts # Null
      <3>1. 0 \in DOMAIN [i \in {0} |-> Base] /\ DOMAIN Null = {}
        BY DEF Null
      <3>2. [i \in {0} |-> Base] # Null
        BY <3>1
      <3>. QED BY <3>2, <1>1
    <2>4. \/ u.chunk_starts = Null /\ u.tabled_chunks = 0 /\ u.number_chunks = 0
          \/ /\ u.chunk_starts = [i \in {0} |-> Base] /\ u.tabled_chunks = 1
             /\ u.number_chunks = GrowBy
             /\ u.chunk_count = 0
      BY <2>3, <1>5
    <2>5. InStream(u, 0, index)
      BY <1>5, <2>1, <2>2, <2>4 DEF InStream
    <2>6. index - index = 0 /\ index \in 0 .. index /\ 0 \in 0 .. Readable
      BY <1>2
    <2>7. At(u, 0, index)
      BY <2>5, <2>6, <1>5 DEF At
    <2>8. Skipping(out, index).ok /\ Skipping(out, index).r = u /\ Skipping(out, index).skip = index
      BY <1>5 DEF Skipping, Succeeds
    <2>. QED BY <2>6, <2>7, <2>8 DEF Lands
  <1>6. CASE s.chunk_starts = Null
    <2>1. CASE p > index
      <3>. DEFINE b == [s EXCEPT !.here = s.point_start]
                  u == Located(b)
      <3>1. SeekWithoutTable(s, p, index) = Skipping(InitDec(b), index)
        BY <2>1 DEF SeekWithoutTable
      <3>2. IsReader(b) /\ Others(b, s, "here") /\ b.here = s.point_start
        BY SetHere
      <3>. HIDE DEF b
      <3>3. InitDec(b) = Succeeds(u)
        <4>1. b.number_chunks # U32MAX
          <5>1. GrowBy # U32MAX /\ 0 # U32MAX
            BY <1>2, NumberOfChunksFits
          <5>. QED BY <5>1, <3>2, <1>1 DEF Others
        <4>. QED BY <4>1, InitKnown
      <3>4. /\ IsReader(u)
            /\ u.readers = "none" /\ u.here = Base /\ u.point_start = Base /\ u.current_chunk = 0
            /\ u.chunk_totals = Null /\ u.chunk_size = U32MAX
            /\ u.chunk_starts = s.chunk_starts /\ u.tabled_chunks = s.tabled_chunks
            /\ u.number_chunks = s.number_chunks /\ u.chunk_count = s.chunk_count
        BY <3>2, <1>1, LocatedFields DEF Others
      <3>. HIDE DEF u
      <3>5. Lands(Skipping(InitDec(b), index), index)
        BY <3>3, <3>4, <1>5, <1>6
      <3>. QED BY <3>1, <3>5, <1>6
    <2>2. CASE ~(p > index)
      <3>1. p <= index
        BY <2>2, <1>2
      <3>2. SeekWithoutTable(s, p, index) = Skipping(Succeeds(s), index - p)
        BY <2>2 DEF SeekWithoutTable
      <3>. QED BY <3>1, <3>2, <1>4, <1>6
    <2>. QED BY <2>1, <2>2
  <1>7. CASE s.chunk_starts # Null
    <2>1. /\ s.chunk_starts = [i \in {0} |-> Base] /\ s.tabled_chunks = 1
          /\ s.number_chunks = GrowBy /\ s.chunk_starts[0] = Base
      BY <1>1, <1>7
    <2>2. index \div U32MAX = 0 /\ index % U32MAX = index
      <3>1. index < U32MAX
        BY <1>2
      <3>. QED BY <3>1, <1>2
    <2>3. SeekInTable(s, p, index) =
            IF p > index THEN Skipping(Restart(s, 0), index) ELSE Skipping(Succeeds(s), index - p)
      <3>1. ~(0 >= 1) /\ ~(s.chunk_totals # Null)
        BY <1>1
      <3>. QED BY <3>1, <2>1, <2>2, <1>1 DEF SeekInTable
    <2>4. CASE p > index
      <3>1. s.number_chunks # U32MAX
        <4>1. Len(chunks) + GrowBy < U32MAX
          <5>1. 0 \in 0 .. Len(chunks) + GrowBy
            BY <1>2
          <5>. QED BY <5>1, NumberOfChunksFits
        <4>. QED BY <4>1, <2>1, <1>2
      <3>2. PICK u : /\ Restart(s, 0) = Succeeds(u)
                     /\ IsReader(u) /\ u.readers = "none"
                     /\ u.here = s.chunk_starts[0] /\ u.point_start = s.chunk_starts[0]
                     /\ u.current_chunk = 0 /\ u.chunk_count = 0
                     /\ u.tabled_chunks = s.tabled_chunks /\ u.chunk_starts = s.chunk_starts
                     /\ u.number_chunks = s.number_chunks /\ u.chunk_totals = s.chunk_totals
                     /\ u.chunk_size = s.chunk_size
        BY <3>1, Restarted
      <3>3. Lands(Skipping(Restart(s, 0), index), index)
        BY <3>2, <2>1, <1>1, <1>5, <1>7
      <3>. QED BY <3>3, <2>3, <2>4, <1>7
    <2>5. CASE ~(p > index)
      <3>1. p <= index
        BY <2>5, <1>2
      <3>. QED BY <3>1, <2>3, <2>5, <1>4, <1>7
    <2>. QED BY <2>4, <2>5
  <1>. QED BY <1>6, <1>7

\* A new reader opens the file before it seeks.
LEMMA SeekOpens ==
  ASSUME OnDisk, Compressed, in_seekable, ~NotToBeFound
  PROVE  \E i, s : /\ InitDec(NewReader) = i /\ i.ok /\ s = [i.r EXCEPT !.chunk_count = 0]
                   /\ IsReader(s) /\ s.chunk_count = 0
                   /\ IF Chunked THEN InChunks(s, 0) ELSE InStream(s, 0, 0)
  <1>1. PICK t : InitDec(NewReader) = Succeeds(t) /\ Opened(t)
    BY Opening
  <1>. DEFINE i == InitDec(NewReader)
              s == [t EXCEPT !.chunk_count = 0]
  <1>2. i.ok /\ i.r = t
    BY <1>1 DEF Succeeds
  <1>3. /\ IsReader(t)
        /\ t.readers = "none" /\ t.here = StartOf(1) /\ t.point_start = StartOf(1)
        /\ t.current_chunk = 0
    BY <1>1 DEF Opened
  <1>. HIDE DEF i
  <1>4. IsReader(s) /\ Others(s, t, "chunk_count") /\ s.chunk_count = 0
    BY <1>3, SetChunkCount
  <1>a. s = [i.r EXCEPT !.chunk_count = 0]
    BY <1>2
  <1>. HIDE DEF s
  <1>5. /\ Len(chunks) \in Nat /\ 1 \in 1 .. Len(chunks) + 1 /\ 0 + 1 = 1 /\ 0 + 0 = 0
        /\ MaxTaken \in Nat /\ MaxPoints \in Nat
    BY FileNumbers, Bounds
  <1>6. Standing(s, 1, 0) /\ s.current_chunk = 0 /\ s.point_start = StartOf(1)
    BY <1>3, <1>4, <1>5 DEF Standing, Others
  <1>7. FirstOf(1) = 0 /\ StartOf(1) # 0
    BY <1>5, FileFacts, PlaceFacts
  <1>8. CASE Chunked
    <2>1. SizesAreTrue(t) /\ StartsAreTrue(t)
      BY <1>1, <1>8 DEF Opened
    <2>2. SizesAreTrue(s) /\ StartsAreTrue(s)
      <3>1. StartsAreTrue(s)
        BY <2>1, <1>4 DEF StartsAreTrue, Others
      <3>2. SizesAreTrue(s)
        BY <2>1, <1>4 DEF SizesAreTrue, Others
      <3>. QED BY <3>1, <3>2
    <2>3. 0 \in 0 .. s.tabled_chunks - 1
      BY <2>2, <1>5 DEF StartsAreTrue
    <2>4. InChunks(s, 0)
      BY <1>4, <1>5, <1>6, <1>7, <2>2, <2>3 DEF InChunks
    <2>. QED BY <1>2, <1>4, <1>a, <1>8, <2>4 DEF i
  <1>9. CASE ~Chunked
    <2>1. /\ s.chunk_totals = Null /\ s.chunk_size = U32MAX
          /\ s.chunk_starts = Null /\ s.tabled_chunks = 0 /\ s.number_chunks = 0
      BY <1>1, <1>4, <1>9 DEF Opened, Others
    <2>2. InStream(s, 0, 0)
      <3>1. 0 \in Nat /\ 0 + 0 <= MaxTaken + MaxPoints + 1
        BY <1>5
      <3>2. StartOf(1) = Base
        BY <1>9, StreamFile
      <3>. QED BY <2>1, <3>1, <3>2, <1>4, <1>6 DEF InStream
    <2>. QED BY <1>2, <1>4, <1>a, <1>9, <2>2 DEF i
  <1>. QED BY <1>8, <1>9

\* Wherever the reader is, seek() lands where it should.
LEMMA SeekLands ==
  ASSUME OnDisk, NEW r, NEW p, At(r, p, 0), CountIsLow(r), NEW index \in 0 .. npoints
  PROVE  Lands(SeekTo(r, p, index), index)
  <1>1. /\ IsReader(r) /\ p \in 0 .. Readable
        /\ npoints \in Nat /\ Readable \in Nat /\ p \in Nat /\ Base \in Nat \ {0} /\ index \in Nat
    BY FileNumbers DEF At
  <1>2. Chunked => Compressed
    BY DEF Chunked, Compressed
  <1>3. CASE ~in_seekable
    <2>1. SeekTo(r, p, index) = Skipping(Failed(r), 0)
      BY <1>3 DEF SeekTo
    <2>. QED BY <1>3, <2>1 DEF Lands, Skipping, Failed
  <1>4. CASE in_seekable /\ ~Compressed
    <2>. DEFINE u == IF p = index THEN r ELSE [r EXCEPT !.here = Base + index]
    <2>1. SeekTo(r, p, index) = Skipping(Succeeds(u), 0)
      BY <1>4 DEF SeekTo, SeekRaw
    <2>2. InRaw(r, p)
      <3>1. r = NewReader /\ p = 0 => InRaw(r, p)
        BY <1>1, <1>4 DEF InRaw, NewReader
      <3>. QED BY <3>1, <1>2, <1>4 DEF At
    <2>3. IsReader(u) /\ InRaw(u, index)
      <3>1. CASE p = index
        BY <3>1, <2>2, <1>1
      <3>2. CASE p # index
        <4>. DEFINE v == [r EXCEPT !.here = Base + index]
        <4>1. IsReader(v) /\ Others(v, r, "here") /\ v.here = Base + index
          BY <1>1, SetHere
        <4>2. u = v
          BY <3>2
        <4>. HIDE DEF u, v
        <4>. QED BY <4>1, <4>2, <2>2 DEF InRaw, Others
      <3>. QED BY <3>1, <3>2
    <2>. HIDE DEF u
    <2>4. Readable = npoints
      <3>1. phase = "closed" /\ ~NotToBeFound
        BY <1>2, <1>4, ReadableFacts DEF NotToBeFound, OnDisk
      <3>. QED BY <3>1, ReadableFacts
    <2>5. index - 0 = index /\ 0 \in 0 .. index /\ index \in 0 .. Readable
      BY <2>4, <1>1
    <2>6. At(u, index, 0)
      BY <2>3, <2>5, <1>4 DEF At
    <2>. QED BY <2>1, <2>5, <2>6 DEF Lands, Skipping, Succeeds
  <1>5. CASE in_seekable /\ Compressed
    <2>1. SeekTo(r, p, index) = SeekCompressed(r, p, index)
      BY <1>5 DEF SeekTo
    <2>2. CASE r = NewReader /\ p = 0
      <3>1. r.point_start = 0
        BY <2>2, <1>5, NewReaderFields
      <3>2. CASE NotToBeFound
        <4>1. ~InitDec(r).ok
          BY <2>2, <3>2, <1>5, Opening
        <4>2. SeekCompressed(r, p, index) = Skipping(InitDec(r), 0)
          BY <3>1, <4>1 DEF SeekCompressed
        <4>3. ~Skipping(InitDec(r), 0).ok
          BY <4>1 DEF Skipping
        <4>. QED BY <2>1, <3>2, <4>2, <4>3, <1>5 DEF Lands, NotToBeFound
      <3>3. CASE ~NotToBeFound
        <4>1. PICK i, s : /\ InitDec(NewReader) = i /\ i.ok /\ s = [i.r EXCEPT !.chunk_count = 0]
                          /\ IsReader(s) /\ s.chunk_count = 0
                          /\ IF Chunked THEN InChunks(s, 0) ELSE InStream(s, 0, 0)
          BY <3>3, <1>5, SeekOpens
        <4>2. SeekCompressed(r, p, index) =
                IF s.chunk_starts # Null THEN SeekInTable(s, 0, index)
                ELSE SeekWithoutTable(s, 0, index)
          <5>1. InitDec(r) = i
            BY <4>1, <2>2
          <5>. QED BY <5>1, <2>2, <3>1, <4>1 DEF SeekCompressed
        <4>3. 0 \in 0 .. Readable /\ 0 <= MaxTaken
          BY <1>1, Bounds DEF OnDisk
        <4>4. CASE Chunked
          <5>1. InChunks(s, 0)
            BY <4>1, <4>4
          <5>2. s.chunk_starts # Null
            <6>1. 0 \in DOMAIN s.chunk_starts /\ DOMAIN Null = {}
              <7>1. /\ DOMAIN s.chunk_starts = 0 .. s.tabled_chunks - 1
                    /\ s.tabled_chunks \in 1 .. Len(chunks) + 1 /\ Len(chunks) \in Nat
                BY <5>1, FileNumbers DEF InChunks, StartsAreTrue
              <7>. QED BY <7>1 DEF Null
            <6>. QED BY <6>1
          <5>3. Lands(SeekInTable(s, 0, index), index)
            BY <4>1, <4>3, <4>4, <5>1, SeekInVariable, SeekInFixed
          <5>. QED BY <2>1, <4>2, <5>2, <5>3
        <4>5. CASE ~Chunked
          <5>1. InStream(s, 0, 0) /\ s.chunk_count <= MaxTaken
            BY <4>1, <4>3, <4>5
          <5>2. Lands(IF s.chunk_starts # Null THEN SeekInTable(s, 0, index)
                      ELSE SeekWithoutTable(s, 0, index), index)
            BY <4>1, <4>3, <4>5, <5>1, <1>5, SeekInStream
          <5>. QED BY <2>1, <4>2, <5>2
        <4>. QED BY <4>4, <4>5
      <3>. QED BY <3>2, <3>3
    <2>3. CASE Chunked /\ InChunks(r, p)
      <3>1. r.point_start # 0
        BY <2>3 DEF InChunks
      <3>2. r.chunk_starts # Null
        <4>1. 0 \in DOMAIN r.chunk_starts /\ DOMAIN Null = {}
          <5>1. /\ DOMAIN r.chunk_starts = 0 .. r.tabled_chunks - 1
                /\ r.tabled_chunks \in 1 .. Len(chunks) + 1 /\ Len(chunks) \in Nat
            BY <2>3, FileNumbers DEF InChunks, StartsAreTrue
          <5>. QED BY <5>1 DEF Null
        <4>. QED BY <4>1
      <3>3. SeekCompressed(r, p, index) = SeekInTable(r, p, index)
        BY <3>1, <3>2 DEF SeekCompressed, Succeeds
      <3>4. Lands(SeekInTable(r, p, index), index)
        BY <2>3, <1>1, SeekInVariable, SeekInFixed
      <3>. QED BY <2>1, <3>3, <3>4
    <2>4. CASE ~Chunked /\ InStream(r, p, 0)
      <3>1. r.point_start # 0 /\ r.chunk_size = U32MAX
        BY <2>4, <1>1 DEF InStream
      <3>2. SeekCompressed(r, p, index) =
              IF r.chunk_starts # Null THEN SeekInTable(r, p, index)
              ELSE SeekWithoutTable(r, p, index)
        BY <3>1 DEF SeekCompressed, Succeeds
      <3>3. r.chunk_count <= MaxTaken
        BY <3>1 DEF CountIsLow
      <3>4. Lands(IF r.chunk_starts # Null THEN SeekInTable(r, p, index)
                  ELSE SeekWithoutTable(r, p, index), index)
        BY <2>4, <3>3, <1>1, <1>5, SeekInStream
      <3>. QED BY <2>1, <3>2, <3>4
    <2>. QED BY <2>2, <2>3, <2>4, <1>5 DEF At
  <1>. QED BY <1>3, <1>4, <1>5 DEF OnDisk

------------------------------------------------------------------------------
(* The steps of writer and reader *)

\* While the file is read, what the place of the reader is told by does not change ...
LEMMA AtStays ==
  ASSUME UNCHANGED <<wvars, in_seekable, session>>
  PROVE  /\ \A r, n, left : At(r, n, left)' <=> At(r, n, left)
         /\ Readable' = Readable
         /\ npoints' = npoints /\ phase' = phase
         /\ in_seekable' = in_seekable /\ session' = session
  <1>1. /\ UNCHANGED <<phase, writers, enc, put, chunk_size, chunk_count, number_chunks,
                       alloced_chunks, chunk_sizes, chunk_bytes, chunk_start_position,
                       chunk_table_start_position, seekable, end>>
        /\ UNCHANGED <<laszip, fields, chunks, table, npoints, in_seekable, session>>
    BY DEF wvars, writer, file
  <1>2. Readable' = Readable
    BY <1>1 DEF Readable, Variable, Chunked
  <1>3. NewReader' = NewReader /\ (Chunked' <=> Chunked) /\ (Compressed' <=> Compressed)
    BY <1>1 DEF NewReader, SetupChunkSize, Compressed, Chunked
  <1>4. \A c : StartOf(c)' = StartOf(c) /\ FirstOf(c)' = FirstOf(c)
    BY <1>1 DEF StartOf, FirstOf, ChunksEnd, DataStart, Chunked, PointsOnStream
  <1>5. \A r, c, k : Standing(r, c, k)' <=> Standing(r, c, k)
    BY <1>1, <1>4 DEF Standing, HereAfter
  <1>a. AllAreFull' <=> AllAreFull
    BY <1>1 DEF AllAreFull
  <1>6. \A r : StartsAreTrue(r)' <=> StartsAreTrue(r)
    BY <1>1, <1>2, <1>4, <1>a DEF StartsAreTrue
  <1>7. \A r : SizesAreTrue(r)' <=> SizesAreTrue(r)
    BY <1>1, <1>4 DEF SizesAreTrue, Variable
  <1>8. \A r, n : InChunks(r, n)' <=> InChunks(r, n)
    BY <1>4, <1>5, <1>6, <1>7 DEF InChunks
  <1>9. \A r, n, left : InStream(r, n, left)' <=> InStream(r, n, left)
    BY <1>5 DEF InStream
  <1>10. \A r, n, left : At(r, n, left)' <=> At(r, n, left)
    BY <1>2, <1>3, <1>8, <1>9 DEF At, InRaw
  <1>. QED BY <1>1, <1>2, <1>10

\* ... and what is known of the file stays true.
LEMMA FileStays ==
  ASSUME NothingOverflows, WriterInv, FileInv, UNCHANGED wvars
  PROVE  WriterInv' /\ FileInv'
BY StepKeeps, FileStep DEF NothingOverflows

\* A new file, and a reader that will read it.
LEMMA RoundTripBegins ==
  ASSUME NothingOverflows, RoundTripInit
  PROVE  IInv /\ Store!Init
  <1>1. WriterInit /\ ReaderInit /\ session = "writing"
    BY DEF RoundTripInit
  <1>2. WriterInv /\ FileInv
    BY <1>1, InitEstablishes, FileInit
  <1>3. Fresh
    BY <1>1 DEF Fresh, ReaderInit
  <1>4. Readable = 0
    BY <1>1 DEF Readable, WriterInit
  <1>5. Store!Init
    BY <1>1, <1>4 DEF Store!Init, Store!Answer, ReaderInit, Garbage
  <1>. QED BY <1>1, <1>2, <1>3, <1>5 DEF IInv

\* Writing adds points to the store, one at a time.
LEMMA WritingStores ==
  ASSUME NothingOverflows, IInv, Writing
  PROVE  IInv' /\ [Store!Next]_(Store!svars)
  <1>1. /\ session = "writing" /\ session' = "writing" /\ WriterNext
        /\ UNCHANGED <<reader, in_seekable, p_count, target, delta, result, failed>>
    BY DEF Writing, rvars
  <1>2. WriterInv' /\ FileInv'
    BY <1>1, StepKeeps, FileStep DEF IInv, NothingOverflows
  <1>3. laszip' = laszip /\ npoints' \in {npoints, npoints + 1}
    <2>1. ASSUME NEW b \in ChunkBytes,
                 \/ WriteStartsChunk(b) \/ WriteFails(b) \/ Chunk(b) \/ ChunkFails(b)
                 \/ DoneWithOpenChunk(b) \/ DoneFails(b) \/ DoneUnchunked(b)
          PROVE  laszip' = laszip /\ npoints' \in {npoints, npoints + 1}
      BY <2>1 DEF WriteStartsChunk, WriteFails, Chunk, ChunkFails, DoneWithOpenChunk,
                  DoneFails, DoneUnchunked, PutPoint
    <2>2. ASSUME NEW kept, NEW ok, Crash(kept, ok) \/ CrashInTable(kept)
          PROVE  laszip' = laszip /\ npoints' \in {npoints, npoints + 1}
      BY <2>2 DEF Crash, CrashInTable
    <2>3. ASSUME \/ WriteInChunk \/ WriteCountWraps \/ DoneBetweenChunks
                 \/ PutTablePosition \/ PutTable
          PROVE  laszip' = laszip /\ npoints' \in {npoints, npoints + 1}
      BY <2>3 DEF WriteInChunk, WriteCountWraps, DoneBetweenChunks, PutTablePosition, PutTable,
                  PutPoint, file
    <2>. QED BY <1>1, <2>1, <2>2, <2>3 DEF WriterNext
  <1>4. NewReader' = NewReader
    BY <1>3 DEF NewReader, SetupChunkSize, Compressed, Chunked
  <1>5. Fresh'
    BY <1>1, <1>4 DEF IInv, Fresh
  <1>6. Readable = npoints /\ Readable' = npoints'
    BY <1>1 DEF Readable
  <1>7. [Store!Next]_(Store!svars)
    BY <1>1, <1>3, <1>6 DEF Store!Next, Store!Append, Store!svars
  <1>. QED BY <1>1, <1>2, <1>5, <1>7 DEF IInv

\* Opening the file keeps of the points those that can be read back.
LEMMA OpeningKeepsSome ==
  ASSUME NothingOverflows, IInv, OpenReader
  PROVE  IInv' /\ [Store!Next]_(Store!svars)
  <1>1. /\ session = "writing" /\ session' = "reading" /\ phase \in {"closed", "crashed"}
        /\ phase' = phase /\ npoints' = npoints /\ laszip' = laszip /\ UNCHANGED wvars
        /\ UNCHANGED <<reader, in_seekable, p_count, target, delta, result, failed>>
    BY DEF OpenReader, wvars, writer, file, rvars
  <1>2. WriterInv' /\ FileInv'
    BY <1>1, StepKeeps, FileStep DEF IInv, NothingOverflows
  <1>3. Fresh /\ Readable = npoints
    BY <1>1 DEF IInv, Readable
  <1>4. OnDisk'
    BY <1>1, <1>2, <1>3 DEF OnDisk, Fresh, NothingOverflows
  <1>5. Readable' \in 0 .. npoints
    <2>1. OnDisk' => (Readable \in 0 .. npoints)'
      BY FileNumbers, PTL
    <2>. QED BY <1>1, <1>4, <2>1
  <1>6. NewReader' = NewReader
    BY <1>1 DEF NewReader, SetupChunkSize, Compressed, Chunked
  <1>7. At(reader, p_count, 0)'
    <2>1. reader' = NewReader' /\ p_count' = 0
      BY <1>1, <1>3, <1>6 DEF Fresh
    <2>2. IsReader(NewReader)
      BY DEF IsReader, NewReader
    <2>3. IsReader(reader)'
      BY <2>2, <1>1, <1>3 DEF Fresh, IsReader
    <2>. QED BY <1>5, <2>1, <2>3 DEF At
  <1>8. ReadInv' /\ NeverRefused'
    <2>1. /\ in_seekable' \in BOOLEAN /\ p_count' = 0 /\ delta' = 0 /\ failed' = FALSE
      BY <1>1, <1>3 DEF Fresh
    <2>2. npoints' \in Nat
      BY <1>2 DEF WriterInv, WriterTypeOK
    <2>3. Arrived'
      BY <2>1, <1>7 DEF Arrived
    <2>4. ~failed' /\ failed' \in BOOLEAN /\ p_count' \in 0 .. Readable' /\ delta' \in Nat
      <3>1. ~failed' /\ failed' \in BOOLEAN
        BY <2>1
      <3>2. p_count' \in 0 .. Readable'
        BY <1>5, <2>1, <2>2
      <3>3. delta' \in Nat
        BY <2>1
      <3>. QED BY <3>1, <3>2, <3>3
    <2>5. ReadInv'
      BY <2>1, <2>3, <2>4 DEF ReadInv
    <2>6. NeverRefused'
      BY <2>4 DEF NeverRefused
    <2>. QED BY <2>5, <2>6
  <1>9. Store!Finish(Readable')
    BY <1>1, <1>3, <1>5 DEF Store!Finish, FileInv, IInv
  <1>10. [Store!Next]_(Store!svars)
    BY <1>3, <1>5, <1>9 DEF Store!Next
  <1>. QED BY <1>1, <1>2, <1>8, <1>10 DEF IInv

\* When the caller makes a call, none has failed.
LEMMA CallsAreMade ==
  ASSUME NothingOverflows, IInv, session = "reading", NEW op, MayCall(op)
  PROVE  /\ OnDisk /\ failed = FALSE /\ delta = 0
         /\ At(reader, p_count, 0) /\ CountIsLow(reader)
  <1>1. delta = 0 /\ (failed => op \in AfterFailure) /\ AfterFailure = {}
    BY DEF MayCall, NothingOverflows
  <1>2. ReadInv /\ OnDisk
    BY DEF IInv, OnDisk, ReadInv
  <1>3. failed = FALSE
    BY <1>1, <1>2 DEF ReadInv
  <1>4. At(reader, p_count, 0)
    BY <1>1, <1>2, <1>3 DEF ReadInv, Arrived
  <1>. QED BY <1>1, <1>2, <1>3, <1>4 DEF MayCall, CountIsLow

\* In front of a point it may also be taken.
LEMMA OneMoreMayBeTaken ==
  ASSUME OnDisk, NEW r, NEW n, At(r, n, 0), CountIsLow(r)
  PROVE  At(r, n, 1)
  <1>1. ASSUME InStream(r, n, 0)
        PROVE  InStream(r, n, 1)
    <2>1. r.point_start = Base /\ r.chunk_size = U32MAX /\ Base # 0
      BY <1>1, FileNumbers DEF InStream
    <2>2. r.chunk_count \in Nat /\ r.chunk_count <= MaxTaken
      BY <1>1, <2>1 DEF InStream, CountIsLow
    <2>3. MaxTaken \in Nat /\ MaxPoints \in Nat
      BY Bounds DEF OnDisk
    <2>4. r.chunk_count + 1 <= MaxTaken + MaxPoints + 1
      BY <2>2, <2>3
    <2>. QED BY <1>1, <2>4 DEF InStream
  <1>. QED BY <1>1 DEF At

\* The three ways for a call to leave the reader: in front of a point, in the
\* loop of seek() with points left to skip, or refused.
LEMMA CallKeeps ==
  ASSUME NothingOverflows, IInv, session = "reading", UNCHANGED <<wvars, in_seekable, session>>,
         p_count' \in 0 .. Readable, delta' \in Nat,
         \/ failed' = FALSE /\ delta' = 0 /\ At(reader', p_count', 0)
         \/ /\ failed' = FALSE /\ delta' # 0 /\ target' \in delta' .. npoints
            /\ At(reader', target' - delta', delta')
         \/ /\ failed' = TRUE /\ delta' = 0
            /\ ~(phase = "closed" /\ in_seekable /\ npoints > 0)
  PROVE  IInv'
  <1>1. /\ \A r, n, left : At(r, n, left)' <=> At(r, n, left)
        /\ Readable' = Readable /\ phase' = phase /\ session' = "reading"
        /\ npoints' = npoints /\ in_seekable' = in_seekable
    BY AtStays
  <1>2. WriterInv' /\ FileInv'
    BY FileStays DEF IInv
  <1>3. phase \in {"closed", "crashed"} /\ in_seekable \in BOOLEAN
    BY DEF IInv, ReadInv
  <1>4. CASE failed' = FALSE /\ delta' = 0 /\ At(reader', p_count', 0)
    <2>1. At(reader, p_count, 0)'
      BY <1>1, <1>4
    <2>2. Arrived'
      BY <1>4, <2>1 DEF Arrived
    <2>3. ~failed' /\ failed' \in BOOLEAN
      BY <1>4
    <2>4. ReadInv' /\ NeverRefused'
      BY <1>1, <1>3, <2>2, <2>3 DEF ReadInv, NeverRefused
    <2>. QED BY <1>1, <1>2, <1>3, <2>4 DEF IInv
  <1>5. CASE /\ failed' = FALSE /\ delta' # 0 /\ target' \in delta' .. npoints
             /\ At(reader', target' - delta', delta')
    <2>1. At(reader, target - delta, delta)'
      BY <1>1, <1>5
    <2>2. Arrived'
      BY <1>1, <1>5, <2>1 DEF Arrived
    <2>3. ~failed' /\ failed' \in BOOLEAN
      BY <1>5
    <2>4. ReadInv' /\ NeverRefused'
      BY <1>1, <1>3, <2>2, <2>3 DEF ReadInv, NeverRefused
    <2>. QED BY <1>1, <1>2, <1>3, <2>4 DEF IInv
  <1>6. CASE /\ failed' = TRUE /\ delta' = 0
             /\ ~(phase = "closed" /\ in_seekable /\ npoints > 0)
    <2>1. failed' /\ failed' \in BOOLEAN
      BY <1>6
    <2>2. ReadInv' /\ NeverRefused'
      BY <1>1, <1>3, <1>6, <2>1 DEF ReadInv, NeverRefused
    <2>. QED BY <1>1, <1>2, <1>3, <2>2 DEF IInv
  <1>. QED BY <1>4, <1>5, <1>6

\* A call of read() reads the point that is due in the store.
LEMMA ReadingReads ==
  ASSUME NothingOverflows, IInv, Reading, Read
  PROVE  IInv' /\ [Store!Next]_(Store!svars)
  <1>1. /\ session = "reading" /\ UNCHANGED <<wvars, in_seekable, session>>
        /\ MayCall("read") /\ p_count < npoints /\ delta' = delta
    BY DEF Reading, Read
  <1>2. /\ OnDisk /\ failed = FALSE /\ delta = 0
        /\ At(reader, p_count, 0) /\ CountIsLow(reader)
    BY <1>1, CallsAreMade
  <1>3. At(reader, p_count, 0 + 1) /\ 0 \in 0 .. MaxPoints
    BY <1>2, OneMoreMayBeTaken, Bounds DEF OnDisk
  <1>4. PICK luck \in Luck :
          /\ reader' = ReadPoint(reader, luck).r
          /\ p_count' = IF ReadPoint(reader, luck).ok THEN p_count + 1 ELSE p_count
          /\ result' = [op |-> "read", ok |-> ReadPoint(reader, luck).ok,
                        point |-> ReadPoint(reader, luck).point]
          /\ failed' = (failed \/ ~ReadPoint(reader, luck).ok)
    BY DEF Read
  <1>5. Answers(ReadPoint(reader, luck), p_count, 0)
    BY <1>1, <1>2, <1>3, ReadAnswers
  <1>6. Readable' = Readable /\ Readable \in Nat /\ p_count \in 0 .. Readable
    BY <1>1, <1>2, AtStays, FileNumbers DEF At
  <1>7. CASE ReadPoint(reader, luck).ok
    <2>1. /\ ReadPoint(reader, luck).point = p_count /\ p_count < Readable
          /\ At(reader', p_count', 0) /\ p_count' = p_count + 1
      BY <1>4, <1>5, <1>7 DEF Answers
    <2>2. failed' = FALSE /\ result' = [op |-> "read", ok |-> TRUE, point |-> p_count]
      BY <1>2, <1>4, <1>7, <2>1
    <2>3. p_count' \in 0 .. Readable /\ delta' = 0 /\ delta' \in Nat
      BY <1>1, <1>2, <1>6, <2>1
    <2>4. IInv'
      BY <1>1, <2>1, <2>2, <2>3, CallKeeps
    <2>5. Store!Read
      BY <1>1, <1>6, <2>1, <2>2 DEF Store!Read, Store!Answer
    <2>. QED BY <2>4, <2>5 DEF Store!Next
  <1>8. CASE ~ReadPoint(reader, luck).ok
    <2>1. /\ ReadPoint(reader, luck).ok = FALSE /\ ReadPoint(reader, luck).point = Garbage
          /\ p_count >= Readable /\ ~(phase = "closed" /\ in_seekable /\ npoints > 0)
      BY <1>5, <1>8 DEF Answers
    <2>2. /\ failed' = TRUE /\ p_count' = p_count
          /\ result' = [op |-> "read", ok |-> FALSE, point |-> Garbage]
      BY <1>4, <2>1
    <2>3. IInv'
      BY <1>1, <1>2, <1>6, <2>1, <2>2, CallKeeps
    <2>4. Store!Refuse("read")
      BY <1>1, <1>6, <2>1, <2>2 DEF Store!Refuse, Store!Answer, Garbage
    <2>. QED BY <2>3, <2>4 DEF Store!Next
  <1>. QED BY <1>7, <1>8

\* A call of seek() goes to the point, or into the loop, and is refused only
\* where nothing can be sought.
LEMMA SeekingSeeks ==
  ASSUME NothingOverflows, IInv, Reading, NEW index \in 0 .. npoints, Seek(index)
  PROVE  IInv' /\ [Store!Next]_(Store!svars)
  <1>1. /\ session = "reading" /\ UNCHANGED <<wvars, in_seekable, session>>
        /\ MayCall("seek") /\ target' = index
    BY DEF Reading, Seek
  <1>2. /\ OnDisk /\ failed = FALSE /\ delta = 0
        /\ At(reader, p_count, 0) /\ CountIsLow(reader)
    BY <1>1, CallsAreMade
  <1>3. PICK out \in {SeekTo(reader, p_count, index)} :
          /\ reader' = out.r
          /\ delta' = IF out.ok THEN out.skip ELSE 0
          /\ p_count' = IF out.ok /\ out.skip = 0 THEN index ELSE p_count
          /\ result' = IF out.ok /\ out.skip > 0 THEN result ELSE Sought(out.ok)
          /\ failed' = (failed \/ ~out.ok)
    BY DEF Seek
  <1>4. Lands(out, index)
    BY <1>2, SeekLands
  <1>5. /\ Readable' = Readable /\ Readable \in Nat /\ p_count \in 0 .. Readable
        /\ index \in Nat /\ npoints \in Nat
    BY <1>1, <1>2, AtStays, FileNumbers DEF At
  <1>6. CASE out.ok
    <2>1. out.skip \in 0 .. index /\ At(reader', index - out.skip, out.skip) /\ delta' = out.skip
      BY <1>3, <1>4, <1>6 DEF Lands
    <2>2. failed' = FALSE
      BY <1>2, <1>3, <1>6
    <2>3. CASE out.skip = 0
      <3>1. index - out.skip = index
        BY <1>5, <2>3
      <3>2. At(reader', index, 0)
        BY <2>1, <2>3, <3>1
      <3>3. p_count' = index /\ delta' = 0 /\ result' = Sought(out.ok)
        BY <1>3, <1>6, <2>3
      <3>4. index \in 0 .. Readable
        BY <3>2 DEF At
      <3>5. IInv'
        BY <1>1, <2>2, <3>2, <3>3, <3>4, CallKeeps
      <3>6. Sought(out.ok) = [op |-> "seek", ok |-> TRUE, point |-> -1]
        BY <1>6 DEF Sought, Garbage
      <3>7. Store!Seek(index)
        BY <1>1, <1>5, <3>3, <3>4, <3>6 DEF Store!Seek, Store!Answer
      <3>. QED BY <3>4, <3>5, <3>7 DEF Store!Next
    <2>4. CASE out.skip # 0
      <3>1. /\ delta' \in Nat /\ delta' # 0 /\ target' \in delta' .. npoints
            /\ At(reader', target' - delta', delta') /\ out.skip > 0
        BY <1>1, <1>5, <2>1, <2>4
      <3>2. p_count' = p_count /\ result' = result
        BY <1>3, <1>6, <2>4, <3>1
      <3>3. IInv'
        BY <1>1, <1>5, <2>2, <3>1, <3>2, CallKeeps
      <3>. QED BY <1>1, <1>5, <3>2, <3>3 DEF Store!svars
    <2>. QED BY <2>3, <2>4
  <1>7. CASE ~out.ok
    <2>1. out.ok = FALSE /\ ~(phase = "closed" /\ in_seekable /\ npoints > 0)
      BY <1>4, <1>7 DEF Lands
    <2>2. failed' = TRUE /\ delta' = 0 /\ p_count' = p_count /\ result' = Sought(FALSE)
      BY <1>3, <2>1
    <2>3. IInv'
      BY <1>1, <1>5, <2>1, <2>2, CallKeeps
    <2>4. Store!Refuse("seek")
      BY <1>1, <1>5, <2>2 DEF Store!Refuse, Store!Answer, Sought, Garbage
    <2>. QED BY <2>3, <2>4 DEF Store!Next
  <1>. QED BY <1>6, <1>7

\* A turn of the loop in seek() reads one of the points to be skipped, and the
\* last one ends the call at its target.
LEMMA SkippingSeeks ==
  ASSUME NothingOverflows, IInv, Reading, SkipPoint
  PROVE  IInv' /\ [Store!Next]_(Store!svars)
  <1>. DEFINE n == target - delta
              left == delta - 1
  <1>1. /\ session = "reading" /\ UNCHANGED <<wvars, in_seekable, session>>
        /\ delta > 0 /\ target' = target
    BY DEF Reading, SkipPoint
  <1>2. ReadInv /\ OnDisk /\ delta \in Nat /\ delta # 0
    BY <1>1 DEF IInv, OnDisk, ReadInv
  <1>3. failed = FALSE /\ target \in delta .. npoints /\ At(reader, n, delta)
    BY <1>2 DEF ReadInv, Arrived
  <1>4. /\ Readable' = Readable /\ Readable \in Nat /\ npoints \in Nat /\ npoints <= MaxPoints
        /\ p_count \in 0 .. Readable /\ MaxPoints \in Nat
    BY <1>1, <1>2, AtStays, FileNumbers, Bounds DEF ReadInv, OnDisk, FileInv
  <1>5. /\ left \in 0 .. MaxPoints /\ left + 1 = delta /\ n < npoints /\ n + 1 = target - left
        /\ n \in Nat
    BY <1>2, <1>3, <1>4
  <1>6. PICK luck \in Luck :
          /\ reader' = ReadPoint(reader, luck).r
          /\ delta' = IF ReadPoint(reader, luck).ok THEN delta - 1 ELSE 0
          /\ p_count' = IF ReadPoint(reader, luck).ok /\ delta = 1 THEN target ELSE p_count
          /\ result' = IF ReadPoint(reader, luck).ok /\ delta > 1 THEN result
                       ELSE Sought(ReadPoint(reader, luck).ok)
          /\ failed' = (failed \/ ~ReadPoint(reader, luck).ok)
    BY DEF SkipPoint
  <1>. HIDE DEF n, left
  <1>7. Answers(ReadPoint(reader, luck), n, left)
    <2>1. At(reader, n, left + 1)
      BY <1>3, <1>5
    <2>. QED BY <1>2, <1>5, <2>1, ReadAnswers
  <1>8. CASE ReadPoint(reader, luck).ok
    <2>1. n < Readable /\ At(reader', n + 1, left) /\ delta' = delta - 1
      BY <1>6, <1>7, <1>8 DEF Answers
    <2>2. failed' = FALSE
      BY <1>3, <1>6, <1>8
    <2>3. At(reader', target - left, left)
      BY <1>5, <2>1
    <2>4. delta' = left
      BY <2>1 DEF left
    <2>5. CASE delta = 1
      <3>1. left = 0 /\ target - left = target
        BY <1>3, <1>4, <1>5, <2>5
      <3>2. At(reader', target, 0)
        BY <2>3, <3>1
      <3>3. p_count' = target /\ result' = Sought(ReadPoint(reader, luck).ok)
        BY <1>6, <1>8, <2>5
      <3>4. target \in 0 .. Readable
        BY <3>2 DEF At
      <3>5. IInv'
        BY <1>1, <2>2, <2>4, <3>1, <3>2, <3>3, <3>4, CallKeeps
      <3>6. Sought(ReadPoint(reader, luck).ok) = [op |-> "seek", ok |-> TRUE, point |-> -1]
        BY <1>8 DEF Sought, Garbage
      <3>7. Store!Seek(target)
        BY <1>1, <1>4, <3>3, <3>4, <3>6 DEF Store!Seek, Store!Answer
      <3>. QED BY <3>4, <3>5, <3>7 DEF Store!Next
    <2>6. CASE delta # 1
      <3>1. delta > 1 /\ left # 0 /\ target \in left .. npoints
        BY <1>2, <1>3, <1>4, <1>5, <2>6
      <3>2. p_count' = p_count /\ result' = result
        BY <1>6, <1>8, <2>6, <3>1
      <3>3. /\ At(reader', target' - delta', delta') /\ delta' \in Nat /\ delta' # 0
            /\ target' \in delta' .. npoints /\ p_count' \in 0 .. Readable
        BY <1>1, <1>4, <1>5, <2>3, <2>4, <3>1, <3>2
      <3>4. IInv'
        BY <1>1, <2>2, <3>3, CallKeeps
      <3>. QED BY <1>1, <1>4, <3>2, <3>4 DEF Store!svars
    <2>. QED BY <2>5, <2>6
  <1>9. CASE ~ReadPoint(reader, luck).ok
    <2>1. /\ ReadPoint(reader, luck).ok = FALSE
          /\ ~(phase = "closed" /\ in_seekable /\ npoints > 0)
      BY <1>7, <1>9 DEF Answers
    <2>2. failed' = TRUE /\ delta' = 0 /\ p_count' = p_count /\ result' = Sought(FALSE)
      BY <1>6, <2>1
    <2>3. IInv'
      BY <1>1, <1>4, <2>1, <2>2, CallKeeps
    <2>4. Store!Refuse("seek")
      BY <1>1, <1>4, <2>2 DEF Store!Refuse, Store!Answer, Sought, Garbage
    <2>. QED BY <2>3, <2>4 DEF Store!Next
  <1>. QED BY <1>8, <1>9

\* Every step of writer and reader is one of the store, or none.
LEMMA RoundTripStep ==
  ASSUME NothingOverflows, IInv, [RoundTripNext]_vars
  PROVE  IInv' /\ [Store!Next]_(Store!svars)
  <1>1. CASE UNCHANGED vars
    <2>1. /\ UNCHANGED <<wvars, in_seekable, session>>
          /\ UNCHANGED <<reader, p_count, target, delta, result, failed>>
      BY <1>1 DEF vars, rvars
    <2>2. /\ \A r, n, left : At(r, n, left)' <=> At(r, n, left)
          /\ Readable' = Readable /\ npoints' = npoints /\ phase' = phase
          /\ session' = session /\ in_seekable' = in_seekable
      BY <2>1, AtStays
    <2>3. WriterInv' /\ FileInv'
      BY <2>1, FileStays DEF IInv
    <2>4. NewReader' = NewReader
      BY <2>1 DEF NewReader, SetupChunkSize, Compressed, Chunked, wvars, file
    <2>5. Fresh' <=> Fresh
      BY <2>1, <2>4 DEF Fresh
    <2>6. Arrived' <=> Arrived
      BY <2>1, <2>2 DEF Arrived
    <2>7. (ReadInv' <=> ReadInv) /\ (NeverRefused' <=> NeverRefused)
      BY <2>1, <2>2, <2>6 DEF ReadInv, NeverRefused
    <2>8. IInv'
      BY <2>2, <2>3, <2>5, <2>7 DEF IInv
    <2>. QED BY <2>1, <2>2, <2>8 DEF Store!svars
  <1>2. CASE Writing
    BY <1>2, WritingStores
  <1>3. CASE OpenReader
    BY <1>3, OpeningKeepsSome
  <1>4. CASE Reading
    <2>1. ASSUME NEW index \in 0 .. npoints, Seek(index)
          PROVE  IInv' /\ [Store!Next]_(Store!svars)
      BY <1>4, <2>1, SeekingSeeks
    <2>. QED BY <1>4, <2>1, ReadingReads, SkippingSeeks DEF Reading, ReaderNext
  <1>. QED BY <1>1, <1>2, <1>3, <1>4 DEF RoundTripNext

------------------------------------------------------------------------------
(* The theorems *)

\* Writer, file and reader agree on where the points are, whatever is written,
\* however the writer ends, and whatever is read and sought in between.
THEOREM RoundTripInvariant ==
  ASSUME NothingOverflows
  PROVE  RoundTripSpec => []IInv
  <1>1. RoundTripInit => IInv
    BY RoundTripBegins
  <1>2. IInv /\ [RoundTripNext]_vars => IInv'
    BY RoundTripStep
  <1>. QED BY <1>1, <1>2, PTL DEF RoundTripSpec

\* LASreadPoint gives back the points that LASwritePoint has put, in their
\* order and from wherever they are sought, and nothing else: of a finished
\* file all, of an interrupted one those that reached the disk.
THEOREM ReadsWhatWasWritten ==
  ASSUME NothingOverflows
  PROVE  RoundTripSpec => ReadsBackWhatWasWritten
  <1>1. RoundTripInit => Store!Init
    BY RoundTripBegins
  <1>2. IInv /\ [RoundTripNext]_vars => [Store!Next]_(Store!svars)
    BY RoundTripStep
  <1>3. RoundTripSpec => []IInv
    BY RoundTripInvariant
  <1>. QED BY <1>1, <1>2, <1>3, PTL DEF RoundTripSpec, ReadsBackWhatWasWritten, Store!Spec

\* read() and seek() never fail on a finished file that can be sought in.
THEOREM FinishedFileAnswers ==
  ASSUME NothingOverflows
  PROVE  RoundTripSpec => []FinishedFileIsNeverRefused
  <1>1. IInv => FinishedFileIsNeverRefused
    BY DEF IInv, NeverRefused, FinishedFileIsNeverRefused
  <1>. QED BY <1>1, RoundTripInvariant, PTL
==============================================================================
