-------------------------- MODULE LasWritePointProofs --------------------------
(***************************************************************************)
(* What LASwritePoint keeps for every chunk size, every size the coder     *)
(* gives a chunk and any number of points: proofs of the invariants of     *)
(* LasWritePoint.  Two things must not happen: U32MAX chunks, after which  *)
(* init() takes the object for a new one, and U32MAX points in a stream    *)
(* without chunks, which would then begin one.                             *)
(***************************************************************************)
EXTENDS LasWritePoint, SequenceTheorems, TLAPS

CountsStayNarrow ==
  /\ MaxChunks < U32MAX
  /\ MaxPoints <= U32MAX \/ \A c \in Configs : c.compressor # "POINTWISE"

------------------------------------------------------------------------------
(* The inductive invariant *)

\* Points in front of the open chunk.
Before == npoints - OpenCount

\* Where the room of chunk i on the stream ends, and that of its points.
Bound(i) == IF i < Len(chunks) THEN chunks[i + 1].start ELSE chunk_start_position
FirstBound(i) == IF i < Len(chunks) THEN chunks[i + 1].first ELSE Before

\* What the arrays for the chunk table say of chunk i.  It fills its room,
\* unless layers were put twice or points were lost.
Tabled(i) ==
  /\ chunks[i].ok = chunks[i].count /\ chunks[i].fault = "none"
  /\ chunks[i].start + chunks[i].bytes <= Bound(i)
  /\ chunks[i].first + chunks[i].count <= FirstBound(i)
  /\ chunk_bytes[i] = (Bound(i) - chunks[i].start) % (U32MAX + 1)
  /\ Variable => chunk_sizes[i] = FirstBound(i) - chunks[i].first
  /\ ~Overdo => /\ chunks[i].start + chunks[i].bytes = Bound(i)
                /\ chunks[i].first + chunks[i].count = FirstBound(i)

ChunksTabled ==
  /\ number_chunks = Len(chunks)
  /\ Len(chunk_bytes) = Len(chunks)
  /\ Variable => Len(chunk_sizes) = Len(chunks)
  /\ Before \in Nat /\ chunk_start_position >= DataStart
  /\ IF Len(chunks) = 0 THEN chunk_start_position = DataStart /\ Before = 0
     ELSE chunks[1].start = DataStart /\ chunks[1].first = 0
  /\ \A i \in 1 .. Len(chunks) : Tabled(i)

\* The open chunk on the stream, put or not.
OpenPart ==
  /\ chunk_start_position <= end
  /\ put = <<>> => end = chunk_start_position
  /\ put # <<>> =>
       /\ phase = "open" /\ chunk_count # 0 /\ enc # "active"
       /\ put[1].ok = put[1].count /\ put[1].fault = "none"
       /\ put[1].start = chunk_start_position /\ put[1].first = Before
       /\ put[1].start + put[1].bytes <= end
       /\ put[1].count <= chunk_count
       /\ ~Overdo => put = <<Intact(chunk_start_position, Before, chunk_count,
                                    end - chunk_start_position)>>

\* A stream without chunks becomes one when it is done.
NoChunks ==
  /\ phase \in {"open", "closed"} /\ put = <<>>
  /\ chunk_start_position = 0 /\ number_chunks = 0
  /\ phase = "open" => /\ chunks = <<>> /\ end = DataStart
                       /\ Compressed => npoints = chunk_count
  /\ phase = "closed" /\ Compressed =>
       IF writers = "compressed"
       THEN chunks = <<Intact(DataStart, 0, npoints, end - DataStart)>>
       ELSE chunks = <<>> /\ npoints = 0
  /\ ~Compressed => chunks = <<>>

\* The object is set up for the file, and knows whether a chunk is open.
Modes ==
  /\ chunk_size = SetupChunkSize
  /\ IF Compressed THEN writers \in {"none", "compressed"} ELSE writers = "raw"
  /\ Compressed => (writers = "none" <=> chunk_count = 0)
  /\ npoints <= MaxPoints

\* The 8 bytes and the table, as far as done() has come with them.
Signs ==
  /\ DOMAIN fields = {Base}
  /\ chunk_table_start_position = IF seekable THEN Base ELSE -1
  /\ fields[Base] = IF phase \in {"tabling", "closed"} /\ seekable
                    THEN end ELSE chunk_table_start_position
  /\ table = IF phase = "closed" THEN Table ELSE NoTable

WriterInv ==
  /\ WriterTypeOK
  /\ IF phase = "crashed" THEN InterruptionIsVisible
     ELSE /\ Modes
          /\ IF Chunked THEN ChunksTabled /\ OpenPart /\ Signs ELSE NoChunks
          /\ ~Overdo => FixedChunksAreFull

------------------------------------------------------------------------------
(* Lemmas about the stream *)

\* Appending keeps what is there and puts the new element behind it.
LEMMA AppendFacts ==
  ASSUME NEW S, NEW s \in Seq(S), NEW e \in S
  PROVE  /\ Append(s, e) \in Seq(S)
         /\ Len(s) \in Nat
         /\ Len(Append(s, e)) = Len(s) + 1
         /\ DOMAIN s = 1 .. Len(s)
         /\ DOMAIN Append(s, e) = 1 .. Len(s) + 1
         /\ Append(s, e)[Len(s) + 1] = e
         /\ \A i \in 1 .. Len(s) : Append(s, e)[i] = s[i]
         /\ Append(s, e) # <<>>
BY AppendProperties, LenProperties

\* A sequence of no more than one element.
LEMMA Singleton ==
  ASSUME NEW S, NEW s \in Seq(S), Len(s) <= 1, s # <<>>
  PROVE  s[1] \in S /\ s = <<s[1]>>
  <1>1. Len(s) = 1 /\ s[1] \in S
    <2>1. Len(s) \in Nat \ {0}
      BY EmptySeq
    <2>. DEFINE n == Len(s)
    <2>2. n \in Nat \ {0} /\ n <= 1
      BY <2>1
    <2>. HIDE DEF n
    <2>3. n = 1 /\ 1 \in 1 .. n
      BY <2>2
    <2>4. s[1] \in S
      BY <2>3, ElementOfSeq DEF n
    <2>. QED BY <2>3, <2>4 DEF n
  <1>2. <<s[1]>> \in Seq(S) /\ Len(<<s[1]>>) = 1
    BY <1>1
  <1>. QED BY <1>1, <1>2, SeqEqual

\* Joining one more element is appending it.
LEMMA JoinOne ==
  ASSUME NEW S, NEW s \in Seq(S), NEW e \in S
  PROVE  s \o <<e>> = Append(s, e)
  <1>1. <<e>> \in Seq(S) /\ Len(<<e>>) = 1 /\ <<e>>[1] = e
    OBVIOUS
  <1>. DEFINE t == s \o <<e>>
              u == Append(s, e)
  <1>2. /\ t \in Seq(S) /\ Len(t) = Len(s) + 1
        /\ \A i \in 1 .. Len(s) + 1 : t[i] = IF i <= Len(s) THEN s[i] ELSE <<e>>[i - Len(s)]
    BY <1>1, ConcatProperties
  <1>3. /\ u \in Seq(S) /\ Len(u) = Len(s) + 1 /\ Len(s) \in Nat
        /\ u[Len(s) + 1] = e
        /\ \A i \in 1 .. Len(s) : u[i] = s[i]
    BY AppendFacts
  <1>. HIDE DEF t, u
  <1>4. ASSUME NEW i \in 1 .. Len(t) PROVE t[i] = u[i]
    <2>1. CASE i = Len(s) + 1
      <3>1. i - Len(s) = 1 /\ ~(i <= Len(s))
        BY <2>1, <1>3
      <3>. QED BY <3>1, <2>1, <1>1, <1>2, <1>3
    <2>2. CASE i # Len(s) + 1
      <3>1. i \in 1 .. Len(s) /\ i <= Len(s)
        BY <2>2, <1>2, <1>3
      <3>. QED BY <3>1, <1>2, <1>3
    <2>. QED BY <2>1, <2>2
  <1>5. t = u
    BY <1>2, <1>3, <1>4, SeqEqual
  <1>. QED BY <1>5 DEF t, u

\* The numbers of the writer.
LEMMA Numbers ==
  ASSUME WriterTypeOK
  PROVE  /\ chunk_size \in 1 .. U32MAX /\ chunk_count \in 0 .. chunk_size
         /\ end \in Nat /\ npoints \in Nat
         /\ chunk_start_position \in Nat
         /\ number_chunks \in 0 .. U32MAX
         /\ OpenCount \in Nat /\ OpenCount <= chunk_count
BY U32MAXAssumption DEF WriterTypeOK, OpenCount

\* Positions and counts on the stream are numbers, and chunks lie behind the
\* 8 bytes for the position of the table (init()).
LEMMA StreamFacts ==
  ASSUME WriterTypeOK
  PROVE  /\ DataStart \in Nat
         /\ Chunked => DataStart = Base + 8
         /\ ChunksEnd \in Nat
         /\ PointsOnStream \in Nat
         /\ chunks \in Seq(ChunkRec)
         /\ Len(chunks) \in Nat
         /\ DOMAIN chunks = 1 .. Len(chunks)
         /\ \A i \in 1 .. Len(chunks) : chunks[i] \in ChunkRec
         /\ Len(chunks) = 0 <=> chunks = <<>>
  <1>1. /\ DataStart \in Nat
        /\ Chunked => DataStart = Base + 8
    BY BaseAssumption DEF DataStart, FieldBytes
  <1>2. /\ Len(chunks) \in Nat
        /\ DOMAIN chunks = 1 .. Len(chunks)
        /\ \A i \in 1 .. Len(chunks) : chunks[i] \in ChunkRec
        /\ chunks # <<>> => Len(chunks) \in 1 .. Len(chunks)
        /\ Len(chunks) = 0 <=> chunks = <<>>
    BY LenProperties, ElementOfSeq, EmptySeq DEF WriterTypeOK
  <1>3. ChunksEnd \in Nat /\ PointsOnStream \in Nat
    <2>1. CASE chunks = <<>>
      BY <1>1, <2>1 DEF ChunksEnd, PointsOnStream
    <2>2. CASE chunks # <<>>
      <3>1. chunks[Len(chunks)] \in ChunkRec
        BY <1>2, <2>2
      <3>2. /\ chunks[Len(chunks)].start \in Nat /\ chunks[Len(chunks)].bytes \in Nat
            /\ chunks[Len(chunks)].first \in Nat /\ chunks[Len(chunks)].count \in Nat
        BY <3>1 DEF ChunkRec
      <3>. QED BY <2>2, <3>2 DEF ChunksEnd, PointsOnStream
    <2>. QED BY <2>1, <2>2
  <1>. QED BY <1>1, <1>2, <1>3 DEF WriterTypeOK

\* What a chunk record holds.
LEMMA ChunkFields ==
  ASSUME NEW chunk \in ChunkRec
  PROVE  /\ chunk.start \in Nat /\ chunk.first \in Nat /\ chunk.count \in Nat
         /\ chunk.bytes \in Nat /\ chunk.ok \in Nat /\ chunk.fault \in Faults
BY DEF ChunkRec

\* A chunk that was put has the fields it was put with.
LEMMA IntactFacts ==
  ASSUME NEW start \in Nat, NEW first \in Nat, NEW count \in Nat, NEW bytes \in Nat
  PROVE  LET chunk == Intact(start, first, count, bytes) IN
         /\ chunk \in ChunkRec
         /\ chunk.start = start /\ chunk.first = first /\ chunk.count = count
         /\ chunk.bytes = bytes /\ chunk.ok = count /\ chunk.fault = "none"
BY DEF Intact, ChunkRec, Faults

\* Closing a chunk never moves the stream back.
LEMMA ClosingGoesOn ==
  ASSUME WriterTypeOK, NEW b \in ChunkBytes
  PROVE  EndOfChunk(b) \in Nat /\ EndOfChunk(b) >= end
  <1>1. b \in Nat
    BY WriterAssumption
  <1>. QED BY <1>1, Numbers DEF EndOfChunk

\* A number of bytes as a U32 holds it.
LEMMA U32Range ==
  ASSUME NEW n \in Nat
  PROVE  n % (U32MAX + 1) \in 0 .. U32MAX
BY U32MAXAssumption

\* Where nothing is put on the stream, what is said of it stays true.
LEMMA StreamUnchanged ==
  ASSUME UNCHANGED <<chunks, laszip>>
  PROVE  /\ DataStart' = DataStart
         /\ ChunksEnd' = ChunksEnd
         /\ PointsOnStream' = PointsOnStream
         /\ Chunked' <=> Chunked
         /\ Compressed' <=> Compressed
         /\ Layered' <=> Layered
         /\ SetupChunkSize' = SetupChunkSize
BY DEF DataStart, ChunksEnd, PointsOnStream, Chunked, Compressed, Layered, SetupChunkSize

\* A file in chunks that has not crashed.
InOrder ==
  /\ WriterTypeOK /\ Chunked /\ phase # "crashed"
  /\ Modes /\ ChunksTabled /\ OpenPart /\ Signs
  /\ ~Overdo => FixedChunksAreFull

\* The invariant of a writer in chunks.
LEMMA InOrderIsInv ==
  /\ WriterInv /\ Chunked /\ phase # "crashed" => InOrder
  /\ InOrder => WriterInv
BY DEF InOrder, WriterInv

------------------------------------------------------------------------------
(* Chunks that are put *)

\* The chunk that is on the stream when the open one is closed.
LEMMA ChunkPut ==
  ASSUME InOrder, phase = "open", NEW b \in ChunkBytes, MayPut
  PROVE  LET chunk == PutChunk(b)[1] IN
         /\ chunk \in ChunkRec
         /\ PutChunk(b) = <<chunk>>
         /\ chunk.ok = chunk.count /\ chunk.fault = "none"
         /\ chunk.start = chunk_start_position /\ chunk.first = Before
         /\ chunk.start + chunk.bytes <= EndOfChunk(b)
         /\ chunk.count <= chunk_count
         /\ ~Overdo => /\ chunk.start + chunk.bytes = EndOfChunk(b)
                       /\ chunk.count = chunk_count
                       /\ PutChunk(b) = <<Intact(chunk_start_position, Before, chunk_count,
                                            EndOfChunk(b) - chunk_start_position)>>
  <1>. DEFINE at == EndOfChunk(b)
  <1>1. /\ WriterTypeOK /\ OpenPart /\ Before \in Nat /\ OpenCount = chunk_count
        /\ chunk_count \in Nat /\ chunk_start_position \in Nat /\ end \in Nat
    BY Numbers DEF InOrder, ChunksTabled, OpenCount
  <1>2. at \in Nat /\ at >= end
    BY <1>1, ClosingGoesOn
  <1>3. CASE put = <<>>
    <2>. DEFINE new == Intact(end, npoints - chunk_count, chunk_count, at - end)
    <2>1. PutChunk(b) = <<new>> /\ PutChunk(b)[1] = new
      BY <1>3 DEF PutChunk
    <2>2. end = chunk_start_position /\ npoints - chunk_count = Before
      BY <1>1, <1>3 DEF OpenPart, Before
    <2>3. at - end \in Nat /\ at - chunk_start_position = at - end
      BY <1>1, <1>2, <2>2
    <2>. HIDE DEF at
    <2>5. new = Intact(chunk_start_position, Before, chunk_count, at - chunk_start_position)
      BY <2>2
    <2>. HIDE DEF new
    <2>4. /\ new \in ChunkRec
          /\ new.start = end /\ new.first = Before /\ new.count = chunk_count
          /\ new.bytes = at - end /\ new.ok = chunk_count /\ new.fault = "none"
      <3>. DEFINE n == at - chunk_start_position
                  it == Intact(chunk_start_position, Before, chunk_count, n)
      <3>1. n \in Nat /\ n = at - end
        BY <2>3
      <3>. HIDE DEF n
      <3>2. /\ it \in ChunkRec
            /\ it.start = chunk_start_position /\ it.first = Before /\ it.count = chunk_count
            /\ it.bytes = n /\ it.ok = chunk_count /\ it.fault = "none"
        <4>1. Before \in Nat /\ chunk_count \in Nat /\ chunk_start_position \in Nat
          BY <1>1
        <4>. QED BY <4>1, <3>1 DEF Intact, ChunkRec, Faults
      <3>3. new = it
        BY <2>5 DEF n
      <3>. HIDE DEF it
      <3>. QED BY <3>1, <3>2, <3>3, <2>2
    <2>6. new.start + new.bytes = at
      BY <2>4, <1>1, <1>2
    <2>. QED BY <2>1, <2>2, <2>4, <2>5, <2>6, <1>1, <1>2 DEF at
  <1>4. CASE put # <<>>
    <2>1. PutChunk(b) = put /\ put[1] \in ChunkRec /\ put = <<put[1]>>
      BY <1>1, <1>4, Singleton DEF PutChunk, WriterTypeOK
    <2>2. put[1].start \in Nat /\ put[1].bytes \in Nat
      BY <2>1, ChunkFields
    <2>3. put[1].start + put[1].bytes <= at
      BY <2>2, <1>1, <1>2, <1>4 DEF OpenPart
    <2>4. ASSUME ~Overdo
          PROVE  /\ at = end
                 /\ put = <<Intact(chunk_start_position, Before, chunk_count,
                                   at - chunk_start_position)>>
                 /\ put[1].start + put[1].bytes = at
                 /\ put[1].count = chunk_count
      <3>1. put = <<Intact(chunk_start_position, Before, chunk_count,
                           end - chunk_start_position)>>
            /\ chunk_start_position <= end
        BY <1>1, <1>4, <2>4 DEF OpenPart
      <3>2. at = end
        \* Layers are not put twice, and an encoder that is done puts nothing.
        BY <1>1, <1>4, <2>4 DEF EndOfChunk, MayPut, OpenPart
      <3>3. end - chunk_start_position \in Nat
        BY <3>1, <1>1
      <3>. DEFINE it == Intact(chunk_start_position, Before, chunk_count,
                               end - chunk_start_position)
      <3>4. /\ it.start = chunk_start_position /\ it.count = chunk_count
            /\ it.bytes = end - chunk_start_position
        BY <3>3, <1>1, IntactFacts
      <3>. HIDE DEF it, at
      <3>5. put[1] = it
        BY <3>1 DEF it
      <3>. QED BY <3>1, <3>2, <3>4, <3>5, <1>1 DEF it
    <2>. QED BY <2>1, <2>3, <2>4, <1>1, <1>4 DEF OpenPart
  <1>. QED BY <1>3, <1>4

\* add_chunk_to_table() closes the chunk on the stream and in the arrays alike.
LEMMA ChunkClosed ==
  ASSUME InOrder, phase = "open", NEW b \in ChunkBytes, AddChunkToTable(b),
         UNCHANGED <<laszip, chunk_size>>,
         number_chunks' = number_chunks + 1, chunk_start_position' = EndOfChunk(b),
         Before' = npoints
  PROVE  /\ chunks' \in Seq(ChunkRec)
         /\ Len(chunks') = Len(chunks) + 1
         /\ chunks' = Append(chunks, PutChunk(b)[1])
         /\ \A i \in 1 .. Len(chunks) : chunks'[i] = chunks[i]
         /\ ~Overdo => chunks'[Len(chunks) + 1].count = chunk_count
         /\ alloced_chunks' \in 0 .. U32MAX
         /\ chunk_sizes' \in Seq(0 .. U32MAX)
         /\ chunk_bytes' \in Seq(0 .. U32MAX)
         /\ ChunksTabled'
  <1>. DEFINE at == EndOfChunk(b)
              n == Len(chunks)
              new == PutChunk(b)[1]
              size == (at - chunk_start_position) % (U32MAX + 1)
  <1>1. /\ WriterTypeOK /\ ChunksTabled /\ OpenPart /\ MayPut
        /\ n \in Nat /\ chunks \in Seq(ChunkRec) /\ DataStart \in Nat
        /\ \A i \in 1 .. n : chunks[i] \in ChunkRec
        /\ chunk_start_position \in Nat /\ end \in Nat /\ Before \in Nat
        /\ chunk_count \in 0 .. U32MAX /\ npoints = Before + chunk_count
    <2>1. /\ WriterTypeOK /\ ChunksTabled /\ OpenPart /\ MayPut
      BY DEF InOrder, AddChunkToTable
    <2>2. chunk_count \in 0 .. chunk_size /\ chunk_size \in 1 .. U32MAX /\ npoints \in Nat
      BY <2>1, Numbers
    <2>3. npoints = Before + chunk_count /\ chunk_count \in 0 .. U32MAX
      BY <2>2, U32MAXAssumption DEF Before, OpenCount
    <2>. QED BY <2>1, <2>3, StreamFacts, Numbers DEF ChunksTabled
  <1>2. /\ new \in ChunkRec /\ PutChunk(b) = <<new>>
        /\ new.ok = new.count /\ new.fault = "none"
        /\ new.start = chunk_start_position /\ new.first = Before
        /\ new.start + new.bytes <= at
        /\ new.count <= chunk_count
        /\ ~Overdo => new.start + new.bytes = at /\ new.count = chunk_count
        /\ new.count \in Nat
    BY <1>1, ChunkPut, ChunkFields
  <1>3. at \in Nat /\ at >= chunk_start_position
    <2>1. at \in Nat /\ at >= end /\ chunk_start_position <= end
      BY <1>1, ClosingGoesOn DEF OpenPart
    <2>. QED BY <2>1, <1>1
  <1>. HIDE DEF new
  <1>4. chunks' = Append(chunks, new)
    BY <1>1, <1>2, JoinOne DEF AddChunkToTable
  <1>5. /\ chunks' \in Seq(ChunkRec)
        /\ Len(chunks') = n + 1
        /\ \A i \in 1 .. n : chunks'[i] = chunks[i]
        /\ chunks'[n + 1] = new
    BY <1>1, <1>2, <1>4, AppendFacts
  <1>6. alloced_chunks' \in 0 .. U32MAX
    <2>1. alloced_chunks \in 0 .. U32MAX /\ InitialAlloc \in 1 .. U32MAX
      BY <1>1, WriterAssumption DEF WriterTypeOK
    <2>2. GrownAlloc \in 0 .. U32MAX
      BY <2>1, U32MAXAssumption DEF GrownAlloc
    <2>. QED BY <2>1, <2>2 DEF AddChunkToTable
  <1>7. size \in 0 .. U32MAX
    <2>1. at - chunk_start_position \in Nat
      BY <1>1, <1>3
    <2>. QED BY <2>1, U32Range
  <1>. HIDE DEF at
  <1>8. /\ chunk_bytes' = Append(chunk_bytes, size)
        /\ chunk_sizes' = IF Variable THEN Append(chunk_sizes, chunk_count) ELSE chunk_sizes
        /\ chunk_bytes \in Seq(0 .. U32MAX) /\ chunk_sizes \in Seq(0 .. U32MAX)
    BY <1>1 DEF AddChunkToTable, at, WriterTypeOK
  <1>9. Variable' <=> Variable
    BY DEF Variable
  <1>. HIDE DEF size
  <1>10. /\ chunk_bytes' \in Seq(0 .. U32MAX)
         /\ Len(chunk_bytes') = n + 1
         /\ chunk_bytes'[n + 1] = size
         /\ \A i \in 1 .. n : chunk_bytes'[i] = chunk_bytes[i]
    <2>1. Len(chunk_bytes) = n
      BY <1>1 DEF ChunksTabled
    <2>. QED BY <2>1, <1>7, <1>8, AppendFacts
  <1>11. /\ chunk_sizes' \in Seq(0 .. U32MAX)
         /\ Variable => /\ Len(chunk_sizes') = n + 1
                        /\ chunk_sizes'[n + 1] = chunk_count
                        /\ \A i \in 1 .. n : chunk_sizes'[i] = chunk_sizes[i]
    <2>1. CASE Variable
      <3>1. chunk_sizes' = Append(chunk_sizes, chunk_count) /\ Len(chunk_sizes) = n
        BY <1>1, <1>8, <2>1 DEF ChunksTabled
      <3>2. chunk_count \in 0 .. U32MAX /\ chunk_sizes \in Seq(0 .. U32MAX)
        BY <1>1, <1>8
      <3>. QED BY <3>1, <3>2, AppendFacts
    <2>2. CASE ~Variable
      BY <1>8, <2>2
    <2>. QED BY <2>1, <2>2
  <1>12. ASSUME NEW i \in 1 .. n + 1
         PROVE  Tabled(i)'
    <2>1. Len(chunks') = n + 1 /\ chunk_start_position' = at /\ Before' = Before + chunk_count
      BY <1>1, <1>5 DEF at
    <2>2. CASE i = n + 1
      <3>1. Bound(i)' = at /\ FirstBound(i)' = Before + chunk_count /\ chunks'[i] = new
        BY <2>1, <2>2, <1>1, <1>5 DEF Bound, FirstBound
      <3>2. chunk_bytes'[i] = (Bound(i)' - new.start) % (U32MAX + 1)
        BY <3>1, <2>2, <1>2, <1>10 DEF size
      <3>3. Variable => chunk_sizes'[i] = FirstBound(i)' - new.first
        BY <3>1, <2>2, <1>1, <1>2, <1>11
      <3>4. /\ new.start + new.bytes <= Bound(i)'
            /\ new.first + new.count <= FirstBound(i)'
        BY <3>1, <1>1, <1>2
      <3>5. ~Overdo => /\ new.start + new.bytes = Bound(i)'
                       /\ new.first + new.count = FirstBound(i)'
        BY <3>1, <1>1, <1>2
      <3>. QED BY <3>1, <3>2, <3>3, <3>4, <3>5, <1>2, <1>9 DEF Tabled
    <2>3. CASE i # n + 1
      <3>1. i \in 1 .. n /\ chunks'[i] = chunks[i] /\ Tabled(i)
        BY <2>3, <1>1, <1>5 DEF ChunksTabled
      <3>2. Bound(i)' = Bound(i) /\ FirstBound(i)' = FirstBound(i)
        <4>1. CASE i = n
          <5>1. i + 1 = n + 1 /\ i < Len(chunks') /\ ~(i < n) /\ chunks'[i + 1] = new
            BY <4>1, <2>1, <1>1, <1>5
          <5>. QED BY <5>1, <1>2 DEF Bound, FirstBound
        <4>2. CASE i # n
          <5>1. i < n /\ i < Len(chunks') /\ i + 1 \in 1 .. n
            BY <4>2, <3>1, <2>1, <1>1
          <5>2. chunks'[i + 1] = chunks[i + 1]
            BY <5>1, <1>5
          <5>. QED BY <5>1, <5>2 DEF Bound, FirstBound
        <4>. QED BY <4>1, <4>2
      <3>3. chunk_bytes'[i] = chunk_bytes[i] /\ (Variable => chunk_sizes'[i] = chunk_sizes[i])
        BY <3>1, <1>10, <1>11
      <3>. QED BY <3>1, <3>2, <3>3, <1>9 DEF Tabled
    <2>. QED BY <2>2, <2>3
  <1>13. ChunksTabled'
    <2>1. /\ number_chunks' = Len(chunks') /\ Len(chunk_bytes') = Len(chunks')
          /\ Variable' => Len(chunk_sizes') = Len(chunks')
      BY <1>1, <1>5, <1>9, <1>10, <1>11 DEF ChunksTabled
    <2>2. DataStart' = DataStart
      BY DEF DataStart, Chunked
    <2>3. Before' \in Nat /\ chunk_start_position' >= DataStart'
      <3>1. chunk_start_position >= DataStart /\ chunk_start_position' = at
        BY <1>1 DEF ChunksTabled, at
      <3>. QED BY <3>1, <2>2, <1>1, <1>3 DEF at
    <2>4. Len(chunks') # 0 /\ chunks'[1].start = DataStart' /\ chunks'[1].first = 0
      <3>1. CASE n = 0
        BY <3>1, <2>2, <1>1, <1>2, <1>5 DEF ChunksTabled
      <3>2. CASE n # 0
        <4>1. 1 \in 1 .. n /\ n + 1 # 0
          BY <3>2, <1>1
        <4>. QED BY <4>1, <3>2, <2>2, <1>1, <1>5 DEF ChunksTabled
      <3>. QED BY <3>1, <3>2
    <2>. QED BY <2>1, <2>3, <2>4, <1>5, <1>12 DEF ChunksTabled
  <1>14. ~Overdo => chunks'[n + 1].count = chunk_count
    BY <1>2, <1>5
  <1>. QED BY <1>4, <1>5, <1>6, <1>10, <1>11, <1>13, <1>14 DEF new

------------------------------------------------------------------------------
(* The initial states and the steps *)

\* setup() and init() establish the invariant.
LEMMA InitEstablishes ==
  ASSUME WriterInit
  PROVE  WriterInv
  <1>. USE U32MAXAssumption, BaseAssumption, WriterAssumption
  <1>1. laszip \in Configs /\ laszip \in [compressor : Compressors, chunk_size : 0 .. U32MAX]
    BY DEF WriterInit
  <1>2. chunk_size = SetupChunkSize /\ chunk_size \in 1 .. U32MAX
    BY <1>1 DEF WriterInit, SetupChunkSize, Chunked
  <1>3. DataStart \in Nat /\ (Chunked => DataStart = Base + 8)
    BY DEF DataStart, FieldBytes
  <1>4. /\ chunks = <<>> /\ chunk_sizes = <<>> /\ chunk_bytes = <<>> /\ put = <<>>
        /\ Len(chunks) = 0 /\ Len(chunk_bytes) = 0 /\ Len(chunk_sizes) = 0 /\ Len(put) = 0
        /\ DOMAIN chunks = {}
        /\ chunks \in Seq(ChunkRec) /\ put \in Seq(ChunkRec)
        /\ chunk_sizes \in Seq(0 .. U32MAX) /\ chunk_bytes \in Seq(0 .. U32MAX)
    BY EmptySeq DEF WriterInit
  <1>5. WriterTypeOK
    BY <1>1, <1>2, <1>3, <1>4 DEF WriterInit, WriterTypeOK
  <1>6. Modes
    BY <1>2 DEF WriterInit, Modes
  <1>7. ASSUME Chunked PROVE ChunksTabled /\ OpenPart /\ Signs
    <2>1. Before = 0
      BY DEF WriterInit, Before, OpenCount
    <2>2. ChunksTabled
      BY <1>3, <1>4, <1>7, <2>1 DEF WriterInit, ChunksTabled
    <2>3. OpenPart
      BY <1>3, <1>4, <1>7 DEF WriterInit, OpenPart
    <2>4. Signs
      BY <1>7 DEF WriterInit, Signs
    <2>. QED BY <2>2, <2>3, <2>4
  <1>8. ASSUME ~Chunked PROVE NoChunks
    BY <1>3, <1>4, <1>8 DEF WriterInit, NoChunks
  <1>9. FixedChunksAreFull /\ phase = "open"
    BY <1>4 DEF WriterInit, FixedChunksAreFull
  <1>. QED BY <1>5, <1>6, <1>7, <1>8, <1>9 DEF WriterInv

\* What is tabled does not change while none of it is touched.
LEMMA TabledUnchanged ==
  ASSUME UNCHANGED <<laszip, chunk_size, number_chunks, chunk_sizes, chunk_bytes,
                     chunk_start_position, chunks>>,
         Before' = Before, ChunksTabled
  PROVE  ChunksTabled'
  <1>1. /\ DataStart' = DataStart /\ (Variable' <=> Variable)
    BY DEF DataStart, Chunked, Variable
  <1>2. ASSUME NEW i \in 1 .. Len(chunks) PROVE Tabled(i)'
    <2>1. Tabled(i) /\ Bound(i)' = Bound(i) /\ FirstBound(i)' = FirstBound(i)
      BY DEF ChunksTabled, Bound, FirstBound
    <2>. QED BY <2>1, <1>1 DEF Tabled
  <1>. QED BY <1>1, <1>2 DEF ChunksTabled

\* write() within a chunk.
LEMMA WriteInChunkKeeps ==
  ASSUME WriterInv, WriteInChunk
  PROVE  WriterInv'
  <1>. USE U32MAXAssumption, WriterAssumption
  <1>0. phase = "open" /\ WriterTypeOK /\ Modes /\ (~Overdo => FixedChunksAreFull)
    BY DEF WriterInv, WriteInChunk
  <1>1. /\ UNCHANGED <<phase, put, chunk_size, number_chunks, alloced_chunks, chunk_sizes,
                       chunk_bytes, chunk_start_position, chunk_table_start_position,
                       seekable, end, laszip, fields, chunks, table>>
        /\ chunk_count' = chunk_count + 1 /\ npoints' = npoints + 1
        /\ writers' = IF Compressed THEN "compressed" ELSE writers
        /\ enc' = IF writers = "none" THEN "active" ELSE enc
        /\ npoints < MaxPoints /\ chunk_count # chunk_size
        /\ put = <<>> \/ Overdo
    BY DEF WriteInChunk, PutPoint
  <1>2. /\ chunk_count \in 0 .. chunk_size /\ chunk_size \in 1 .. U32MAX /\ npoints \in Nat
        /\ chunk_count' \in 1 .. chunk_size /\ npoints' \in Nat
    <2>1. chunk_count \in 0 .. chunk_size /\ chunk_size \in 1 .. U32MAX /\ npoints \in Nat
      BY <1>0, Numbers
    <2>. QED BY <2>1, <1>1
  <1>3. WriterTypeOK'
    <2>1. enc' \in {"none", "idle", "active"} /\ writers' \in {"none", "raw", "compressed"}
      BY <1>0, <1>1 DEF WriterTypeOK
    <2>2. UNCHANGED <<phase, put, chunk_size, number_chunks, alloced_chunks, chunk_sizes,
                      chunk_bytes, chunk_start_position, chunk_table_start_position,
                      seekable, end, laszip, fields, chunks, table>>
      BY <1>1
    <2>3. chunk_count' \in 0 .. chunk_size
      BY <1>2
    <2>. QED BY <2>1, <2>2, <2>3, <1>0, <1>2 DEF WriterTypeOK
  <1>4. Modes'
    <2>1. chunk_count' # 0 /\ npoints' <= MaxPoints
      BY <1>1, <1>2
    <2>2. /\ Compressed' => writers' = "compressed"
          /\ ~Compressed' => writers' = "raw"
      BY <1>0, <1>1, StreamUnchanged DEF Modes
    <2>3. chunk_size' = SetupChunkSize'
      BY <1>0, <1>1, StreamUnchanged DEF Modes
    <2>. QED BY <2>1, <2>2, <2>3 DEF Modes
  <1>5. ASSUME Chunked PROVE ChunksTabled' /\ OpenPart' /\ Signs'
    <2>1. ChunksTabled /\ OpenPart /\ Signs
      BY <1>0, <1>5 DEF WriterInv
    <2>2. Before' = Before
      BY <1>0, <1>1, <1>2 DEF Before, OpenCount
    <2>3. ChunksTabled'
      BY <2>1, <2>2, <1>1, TabledUnchanged
    <2>4. OpenPart'
      <3>1. CASE put = <<>>
        BY <3>1, <2>1, <1>1 DEF OpenPart
      <3>2. CASE put # <<>>
        <4>1. enc' # "active" /\ chunk_count' # 0 /\ Overdo
          <5>1. writers # "none"
            BY <3>2, <2>1, <1>0, <1>5 DEF OpenPart, Modes, Chunked, Compressed
          <5>. QED BY <5>1, <3>2, <2>1, <1>1, <1>2 DEF OpenPart
        <4>2. put[1].count \in Nat
          <5>1. put[1] \in ChunkRec
            BY <3>2, <1>0, Singleton DEF WriterTypeOK
          <5>. QED BY <5>1, ChunkFields
        <4>. QED BY <4>1, <4>2, <3>2, <2>1, <2>2, <1>0, <1>1, <1>2 DEF OpenPart
      <3>. QED BY <3>1, <3>2
    <2>5. Signs'
      BY <2>1, <1>0, <1>1 DEF Signs
    <2>. QED BY <2>3, <2>4, <2>5
  <1>6. ASSUME ~Chunked PROVE NoChunks'
    BY <1>6, <1>0, <1>1, <1>2, StreamUnchanged DEF WriterInv, NoChunks
  <1>7. ~Overdo => FixedChunksAreFull'
    BY <1>0, <1>1, StreamUnchanged DEF FixedChunksAreFull, Variable
  <1>. QED BY <1>0, <1>1, <1>3, <1>4, <1>5, <1>6, <1>7, StreamUnchanged DEF WriterInv

\* A count that wraps around belongs to points that are not compressed.
LEMMA WriteCountWrapsKeeps ==
  ASSUME WriterInv, WriteCountWraps
  PROVE  WriterInv'
  <1>. USE U32MAXAssumption, WriterAssumption
  <1>0. /\ phase = "open" /\ WriterTypeOK /\ Modes /\ ~Compressed /\ ~Chunked
        /\ NoChunks /\ (~Overdo => FixedChunksAreFull)
    BY DEF WriterInv, WriteCountWraps, Compressed, Chunked
  <1>1. /\ UNCHANGED <<phase, enc, put, chunk_size, number_chunks, alloced_chunks, chunk_sizes,
                       chunk_bytes, chunk_start_position, chunk_table_start_position,
                       seekable, end, laszip, fields, chunks, table, writers>>
        /\ chunk_count' = 1 /\ npoints' = npoints + 1
        /\ npoints < MaxPoints
    BY <1>0 DEF WriteCountWraps, PutPoint
  <1>2. chunk_count' \in 0 .. chunk_size /\ npoints' \in Nat /\ npoints' <= MaxPoints
    BY <1>0, <1>1, Numbers
  <1>3. WriterTypeOK'
    BY <1>0, <1>1, <1>2 DEF WriterTypeOK
  <1>4. Modes'
    BY <1>0, <1>1, <1>2, StreamUnchanged DEF Modes
  <1>5. NoChunks'
    BY <1>0, <1>1, StreamUnchanged DEF NoChunks
  <1>6. FixedChunksAreFull'
    BY <1>0, <1>1, StreamUnchanged DEF FixedChunksAreFull
  <1>. QED BY <1>0, <1>1, <1>3, <1>4, <1>5, <1>6, StreamUnchanged DEF WriterInv

\* add_chunk_to_table() without room for another chunk leaves the open chunk on
\* the stream, and all but the stream and the encoder as they were.
LEMMA FailureKeeps ==
  ASSUME WriterInv, phase = "open", Chunked, NEW b \in ChunkBytes, AddChunkFails(b),
         chunk_count # 0, UNCHANGED <<phase, seekable, laszip, npoints>>
  PROVE  WriterInv'
  <1>0. InOrder
    BY InOrderIsInv
  <1>1. /\ UNCHANGED <<writers, chunk_size, chunk_count, number_chunks, alloced_chunks,
                       chunk_sizes, chunk_bytes, chunk_start_position,
                       chunk_table_start_position, fields, chunks, table,
                       seekable, laszip, npoints, phase>>
        /\ end' = EndOfChunk(b) /\ enc' = "idle" /\ put' = PutChunk(b)
    BY DEF AddChunkFails
  <1>2. /\ WriterTypeOK /\ Modes /\ ChunksTabled /\ OpenPart /\ Signs
        /\ ~Overdo => FixedChunksAreFull
    BY <1>0 DEF InOrder
  <1>3. /\ end' \in Nat /\ chunk_start_position <= end'
    <2>1. EndOfChunk(b) \in Nat /\ EndOfChunk(b) >= end /\ end \in Nat
          /\ chunk_start_position \in Nat /\ chunk_start_position <= end
      BY <1>2, ClosingGoesOn, Numbers DEF OpenPart
    <2>. QED BY <2>1, <1>1
  <1>. DEFINE chunk == PutChunk(b)[1]
  <1>4. /\ chunk \in ChunkRec /\ put' = <<chunk>>
        /\ chunk.ok = chunk.count /\ chunk.fault = "none"
        /\ chunk.start = chunk_start_position /\ chunk.first = Before
        /\ chunk.start + chunk.bytes <= end'
        /\ chunk.count <= chunk_count
        /\ ~Overdo => put' = <<Intact(chunk_start_position, Before, chunk_count,
                                 end' - chunk_start_position)>>
    <2>1. MayPut
      BY DEF AddChunkFails
    <2>. QED BY <2>1, <1>0, <1>1, ChunkPut
  <1>. HIDE DEF chunk
  <1>5. put' \in Seq(ChunkRec) /\ Len(put') <= 1 /\ put' # <<>> /\ put'[1] = chunk
    BY <1>4
  <1>6. WriterTypeOK'
    BY <1>1, <1>2, <1>3, <1>5 DEF WriterTypeOK
  <1>7. Before' = Before
    BY <1>1 DEF Before, OpenCount
  <1>8. ChunksTabled' /\ Signs' /\ Modes'
    <2>1. ChunksTabled'
      BY <1>1, <1>2, <1>7, TabledUnchanged
    <2>2. Signs' /\ Modes'
      BY <1>1, <1>2, StreamUnchanged DEF Signs, Modes
    <2>. QED BY <2>1, <2>2
  <1>9. OpenPart'
    BY <1>1, <1>3, <1>4, <1>5, <1>7 DEF OpenPart
  <1>10. ~Overdo => FixedChunksAreFull'
    BY <1>1, <1>2, StreamUnchanged DEF FixedChunksAreFull, Variable
  <1>. QED BY <1>1, <1>6, <1>8, <1>9, <1>10, StreamUnchanged DEF WriterInv

\* The full count of a compressed chunk is met only where there are chunks.
LEMMA FullMeansChunked ==
  ASSUME WriterInv, CountsStayNarrow, phase = "open", Compressed,
         chunk_count = chunk_size, npoints < MaxPoints
  PROVE  Chunked
  <1>. SUFFICES ASSUME ~Chunked PROVE FALSE
    OBVIOUS
  <1>1. laszip \in Configs /\ laszip.compressor = "POINTWISE"
    BY WriterAssumption DEF WriterInv, WriterTypeOK, Chunked, Compressed, Compressors
  <1>2. MaxPoints <= U32MAX
    BY <1>1 DEF CountsStayNarrow
  <1>3. chunk_count = U32MAX
    BY DEF WriterInv, Modes, SetupChunkSize
  <1>4. npoints = chunk_count
    BY DEF WriterInv, NoChunks
  <1>. QED BY <1>2, <1>3, <1>4, U32MAXAssumption, WriterAssumption

\* A chunk closed by write() or chunk(), and init() for the next one.
LEMMA ChunkFollowed ==
  ASSUME WriterInv, CountsStayNarrow, phase = "open", Chunked, NEW b \in ChunkBytes,
         number_chunks < MaxChunks, Variable \/ chunk_count = chunk_size,
         AddChunkToTable(b), InitAfterChunk(number_chunks + 1, EndOfChunk(b)),
         UNCHANGED <<phase, chunk_size, seekable, laszip, table>>,
         NEW count \in {0, 1}, chunk_count' = count, npoints' = npoints + count,
         npoints' <= MaxPoints, enc' \in {"idle", "active"},
         writers' = IF count = 0 THEN "none" ELSE "compressed"
  PROVE  WriterInv'
  <1>. DEFINE at == EndOfChunk(b)
  <1>0. InOrder /\ Compressed
    BY InOrderIsInv DEF Chunked, Compressed
  <1>1. /\ WriterTypeOK /\ Modes /\ ChunksTabled /\ OpenPart /\ Signs
        /\ ~Overdo => FixedChunksAreFull
        /\ Len(chunks) \in Nat /\ DOMAIN chunks = 1 .. Len(chunks)
        /\ at \in Nat /\ npoints \in Nat /\ chunk_count' \in 0 .. chunk_size /\ npoints' \in Nat
    <2>1. WriterTypeOK
      BY <1>0 DEF InOrder
    <2>2. npoints \in Nat /\ chunk_size \in Nat \ {0}
      BY <2>1, Numbers, U32MAXAssumption
    <2>3. chunk_count' \in 0 .. chunk_size /\ npoints' \in Nat
      BY <2>2
    <2>. QED BY <1>0, <2>1, <2>2, <2>3, ClosingGoesOn, StreamFacts DEF InOrder
  <1>2. number_chunks \in Nat /\ number_chunks + 1 \in 0 .. U32MAX /\ number_chunks + 1 # U32MAX
    <2>1. number_chunks \in Nat /\ U32MAX \in Nat /\ MaxChunks \in Nat
      BY <1>1, Numbers, U32MAXAssumption, WriterAssumption
    <2>2. MaxChunks < U32MAX
      BY DEF CountsStayNarrow
    <2>. QED BY <2>1, <2>2
  <1>3. /\ number_chunks' = number_chunks + 1
        /\ chunk_start_position' = at /\ end' = at
        /\ put' = <<>>
        /\ UNCHANGED <<chunk_table_start_position, fields>>
    BY <1>2 DEF InitAfterChunk, AddChunkToTable
  <1>4. Before' = npoints
    BY <1>1, WriterAssumption DEF Before, OpenCount
  <1>5. /\ chunks' \in Seq(ChunkRec)
        /\ Len(chunks') = Len(chunks) + 1
        /\ \A i \in 1 .. Len(chunks) : chunks'[i] = chunks[i]
        /\ ~Overdo => chunks'[Len(chunks) + 1].count = chunk_count
        /\ alloced_chunks' \in 0 .. U32MAX
        /\ chunk_sizes' \in Seq(0 .. U32MAX)
        /\ chunk_bytes' \in Seq(0 .. U32MAX)
        /\ ChunksTabled'
    BY <1>0, <1>3, <1>4, ChunkClosed
  <1>6. Chunked' /\ Compressed' /\ SetupChunkSize' = SetupChunkSize
    BY <1>0 DEF Chunked, Compressed, SetupChunkSize
  <1>. HIDE DEF at
  <1>7. WriterTypeOK'
    <2>1. put' \in Seq(ChunkRec) /\ Len(put') <= 1
      BY <1>3, EmptySeq
    <2>2. /\ enc' \in {"none", "idle", "active"} /\ writers' \in {"none", "raw", "compressed"}
          /\ number_chunks' \in 0 .. U32MAX
      BY <1>2, <1>3
    <2>. QED BY <2>1, <2>2, <1>1, <1>3, <1>5 DEF WriterTypeOK
  <1>8. Signs'
    BY <1>1, <1>3 DEF Signs
  <1>9. Modes'
    BY <1>1, <1>6 DEF Modes
  <1>10. OpenPart'
    BY <1>1, <1>3 DEF OpenPart
  <1>11. ~Overdo => FixedChunksAreFull'
    <2>1. ASSUME ~Overdo, ~Variable, NEW i \in 1 .. Len(chunks) + 1
          PROVE  chunks'[i].count = chunk_size
      <3>1. CASE i = Len(chunks) + 1
        BY <2>1, <3>1, <1>5
      <3>2. CASE i # Len(chunks) + 1
        <4>1. i \in 1 .. Len(chunks)
          BY <3>2, <1>1
        <4>. QED BY <4>1, <2>1, <1>1, <1>5 DEF FixedChunksAreFull
      <3>. QED BY <3>1, <3>2
    <2>2. DOMAIN chunks' = 1 .. Len(chunks) + 1
      BY <1>5, LenProperties
    <2>. QED BY <2>1, <2>2 DEF FixedChunksAreFull, Variable
  <1>. QED BY <1>5, <1>6, <1>7, <1>8, <1>9, <1>10, <1>11 DEF WriterInv

\* done() tables the open chunk.
LEMMA DoneWithOpenChunkKeeps ==
  ASSUME WriterInv, NEW b \in ChunkBytes, DoneWithOpenChunk(b)
  PROVE  WriterInv'
  <1>. USE U32MAXAssumption, BaseAssumption
  <1>. DEFINE at == EndOfChunk(b)
  <1>0. phase = "open" /\ Chunked /\ InOrder /\ Compressed
    <2>1. Chunked
      BY DEF DoneWithOpenChunk, WriterInv, NoChunks
    <2>. QED BY <2>1, InOrderIsInv DEF DoneWithOpenChunk, Chunked, Compressed
  <1>1. /\ WriterTypeOK /\ Modes /\ ChunksTabled /\ OpenPart /\ Signs
        /\ ~Overdo => FixedChunksAreFull
        /\ Len(chunks) \in Nat /\ DOMAIN chunks = 1 .. Len(chunks)
        /\ at \in Nat /\ npoints \in Nat
        /\ chunk_size \in Nat /\ chunk_count \in 0 .. chunk_size /\ number_chunks \in Nat
    <2>1. WriterTypeOK
      BY <1>0 DEF InOrder
    <2>. QED BY <1>0, <2>1, ClosingGoesOn, StreamFacts, Numbers DEF InOrder
  <1>2. /\ AddChunkToTable(b) /\ number_chunks < MaxChunks
        /\ number_chunks' = number_chunks + 1
        /\ chunk_start_position' = at /\ end' = at /\ put' = <<>>
        /\ phase' = "done" /\ enc' = "idle" /\ writers = "compressed"
        /\ UNCHANGED <<writers, chunk_size, chunk_count, chunk_table_start_position,
                       seekable, laszip, fields, table, npoints>>
    BY DEF DoneWithOpenChunk, AddChunkToTable
  <1>3. Before' = npoints
    BY <1>1, <1>2 DEF Before, OpenCount
  <1>4. /\ chunks' \in Seq(ChunkRec)
        /\ Len(chunks') = Len(chunks) + 1
        /\ \A i \in 1 .. Len(chunks) : chunks'[i] = chunks[i]
        /\ ~Overdo => chunks'[Len(chunks) + 1].count = chunk_count
        /\ alloced_chunks' \in 0 .. U32MAX
        /\ chunk_sizes' \in Seq(0 .. U32MAX)
        /\ chunk_bytes' \in Seq(0 .. U32MAX)
        /\ ChunksTabled'
    BY <1>0, <1>2, <1>3, ChunkClosed
  <1>5. Chunked' /\ Compressed' /\ SetupChunkSize' = SetupChunkSize
    BY <1>0, <1>2 DEF Chunked, Compressed, SetupChunkSize
  <1>. HIDE DEF at
  <1>6. WriterTypeOK'
    <2>1. put' \in Seq(ChunkRec) /\ Len(put') <= 1
      BY <1>2, EmptySeq
    <2>2. number_chunks' \in 0 .. U32MAX
      BY <1>1, <1>2, WriterAssumption
    <2>. QED BY <2>1, <2>2, <1>1, <1>2, <1>4 DEF WriterTypeOK
  <1>7. Signs'
    BY <1>0, <1>1, <1>2 DEF Signs
  <1>8. Modes'
    BY <1>1, <1>2, <1>5 DEF Modes
  <1>9. OpenPart'
    BY <1>1, <1>2 DEF OpenPart
  <1>10. ~Overdo => FixedChunksAreFull'
    <2>0. chunk_count # 0
      BY <1>0, <1>1, <1>2 DEF Modes
    <2>1. ASSUME ~Overdo, ~Variable, NEW i \in 1 .. Len(chunks) + 1
          PROVE  IF i = Len(chunks) + 1 THEN chunks'[i].count \in 1 .. chunk_size
                 ELSE chunks'[i].count = chunk_size
      <3>1. CASE i = Len(chunks) + 1
        BY <2>0, <2>1, <3>1, <1>1, <1>4
      <3>2. CASE i # Len(chunks) + 1
        <4>1. i \in 1 .. Len(chunks)
          BY <3>2, <1>1
        <4>2. chunks[i].count = chunk_size
          BY <4>1, <2>1, <1>0, <1>1 DEF FixedChunksAreFull
        <4>. QED BY <4>1, <4>2, <3>2, <1>4
      <3>. QED BY <3>1, <3>2
    <2>2. DOMAIN chunks' = 1 .. Len(chunks) + 1
      BY <1>4, LenProperties
    <2>. QED BY <2>1, <2>2, <1>2, <1>4 DEF FixedChunksAreFull, Variable
  <1>11. phase' # "crashed"
    BY <1>2
  <1>. QED BY <1>4, <1>5, <1>6, <1>7, <1>8, <1>9, <1>10, <1>11 DEF WriterInv

\* What changes nothing but the phase, in the order of done(), and what is at the
\* end of the file, keeps the rest.
LEMMA DoneGoesOn ==
  ASSUME InOrder, phase' \in {"done", "tabling", "closed"}, OpenCount = 0, put = <<>>,
         UNCHANGED <<writers, enc, put, chunk_size, chunk_count, number_chunks, alloced_chunks,
                     chunk_sizes, chunk_bytes, chunk_start_position,
                     chunk_table_start_position, seekable, end, laszip, chunks, npoints>>,
         fields' \in [DOMAIN fields' -> Nat \cup {-1}], DOMAIN fields' \subseteq Nat,
         table' \in TableRec \cup {NoTable}, Signs'
  PROVE  WriterInv'
  <1>1. /\ WriterTypeOK /\ Modes /\ ChunksTabled /\ OpenPart /\ Chunked
        /\ ~Overdo => FixedChunksAreFull
    BY DEF InOrder
  <1>2. WriterTypeOK'
    BY <1>1 DEF WriterTypeOK
  <1>3. Modes' /\ Chunked'
    BY <1>1, StreamUnchanged DEF Modes
  <1>4. Before' = Before
    BY DEF Before, OpenCount
  <1>5. ChunksTabled' /\ OpenPart'
    BY <1>1, <1>4, TabledUnchanged DEF OpenPart
  <1>6. ~Overdo => FixedChunksAreFull'
    <2>0. chunk_size \in 1 .. chunk_size
      BY <1>1, Numbers
    <2>1. ASSUME ~Overdo, ~Variable, NEW i \in DOMAIN chunks
          PROVE  chunks[i].count \in 1 .. chunk_size /\ (i # Len(chunks) => chunks[i].count = chunk_size)
      BY <2>0, <2>1, <1>1 DEF FixedChunksAreFull, InOrder
    <2>. QED BY <2>1 DEF FixedChunksAreFull, Variable
  <1>. QED BY <1>2, <1>3, <1>5, <1>6 DEF WriterInv

\* done() after chunk(), or with no point written.
LEMMA DoneBetweenChunksKeeps ==
  ASSUME WriterInv, DoneBetweenChunks
  PROVE  WriterInv'
  <1>1. phase = "open" /\ Chunked /\ InOrder /\ writers = "none" /\ Compressed
    <2>1. Chunked
      BY DEF DoneBetweenChunks, WriterInv, NoChunks
    <2>. QED BY <2>1, InOrderIsInv DEF DoneBetweenChunks, Chunked, Compressed
  <1>2. chunk_count = 0 /\ put = <<>> /\ OpenCount = 0
    BY <1>1 DEF InOrder, Modes, OpenPart, OpenCount
  <1>3. /\ phase' = "done"
        /\ UNCHANGED <<writers, enc, put, chunk_size, chunk_count, number_chunks, alloced_chunks,
                       chunk_sizes, chunk_bytes, chunk_start_position,
                       chunk_table_start_position, seekable, end, laszip, fields, chunks, table,
                       npoints>>
    BY DEF DoneBetweenChunks, file
  <1>4. Signs'
    BY <1>1, <1>3 DEF InOrder, Signs
  <1>. QED BY <1>1, <1>2, <1>3, <1>4, DoneGoesOn DEF InOrder, WriterTypeOK

\* The 8 bytes in front of the chunks (write_chunk_table()).
LEMMA PutTablePositionKeeps ==
  ASSUME WriterInv, PutTablePosition
  PROVE  WriterInv'
  <1>. USE BaseAssumption
  <1>1. phase = "done" /\ Chunked /\ InOrder
    <2>1. Chunked
      BY DEF PutTablePosition, WriterInv, NoChunks
    <2>. QED BY <2>1, InOrderIsInv DEF PutTablePosition
  <1>2. put = <<>> /\ OpenCount = 0 /\ end \in Nat
    BY <1>1, Numbers DEF InOrder, OpenPart, OpenCount
  <1>3. /\ phase' = "tabling"
        /\ fields' = IF chunk_table_start_position # -1
                     THEN PutField(chunk_table_start_position, end) ELSE fields
        /\ UNCHANGED <<writers, enc, put, chunk_size, chunk_count, number_chunks, alloced_chunks,
                       chunk_sizes, chunk_bytes, chunk_start_position,
                       chunk_table_start_position, seekable, end, laszip, chunks, table, npoints>>
    BY DEF PutTablePosition
  <1>4. /\ DOMAIN fields = {Base} /\ fields \in [{Base} -> Nat \cup {-1}]
        /\ chunk_table_start_position = IF seekable THEN Base ELSE -1
        /\ fields[Base] = chunk_table_start_position /\ table = NoTable
    BY <1>1 DEF InOrder, Signs, WriterTypeOK
  <1>5. /\ DOMAIN fields' = {Base} /\ fields' \in [{Base} -> Nat \cup {-1}]
        /\ fields'[Base] = IF seekable THEN end ELSE chunk_table_start_position
    <2>1. CASE seekable
      BY <1>2, <1>3, <1>4, <2>1 DEF PutField
    <2>2. CASE ~seekable
      BY <1>3, <1>4, <2>2
    <2>. QED BY <2>1, <2>2
  <1>6. Signs'
    BY <1>3, <1>4, <1>5 DEF Signs
  <1>7. table' \in TableRec \cup {NoTable}
    BY <1>3, <1>4
  <1>. QED BY <1>1, <1>2, <1>3, <1>5, <1>6, <1>7, DoneGoesOn

\* The table, as a record.
LEMMA TableFacts ==
  ASSUME InOrder
  PROVE  /\ Table \in TableRec
         /\ Table.pos = end /\ Table.pos # -1
         /\ Table.trailer <=> chunk_table_start_position = -1
         /\ Len(Table.entries) = Len(chunks) /\ Table.readable = Len(chunks)
         /\ Table.entries \in Seq([count : Nat, bytes : Nat])
         /\ \A i \in 1 .. Len(chunks) :
              /\ Table.entries[i].bytes = chunk_bytes[i]
              /\ Variable => Table.entries[i].count = chunk_sizes[i]
  <1>. DEFINE entry(i) == [count |-> IF Variable THEN chunk_sizes[i] ELSE 0,
                           bytes |-> chunk_bytes[i]]
              n == Len(chunk_bytes)
              entries == [i \in 1 .. n |-> entry(i)]
  <1>1. /\ n \in Nat /\ n = Len(chunks) /\ end \in Nat
        /\ \A i \in 1 .. n : chunk_bytes[i] \in Nat
        /\ Variable => \A i \in 1 .. n : chunk_sizes[i] \in Nat
    <2>1. /\ WriterTypeOK /\ chunk_bytes \in Seq(0 .. U32MAX) /\ chunk_sizes \in Seq(0 .. U32MAX)
          /\ n = Len(chunks) /\ (Variable => Len(chunk_sizes) = n)
      BY DEF InOrder, ChunksTabled, WriterTypeOK
    <2>2. n \in Nat /\ end \in Nat
      BY <2>1, Numbers, LenProperties
    <2>3. \A i \in 1 .. n : chunk_bytes[i] \in Nat
      BY <2>1, <2>2, ElementOfSeq, U32MAXAssumption
    <2>4. Variable => \A i \in 1 .. n : chunk_sizes[i] \in Nat
      BY <2>1, <2>2, ElementOfSeq, U32MAXAssumption
    <2>. QED BY <2>1, <2>2, <2>3, <2>4
  <1>2. Table = [pos |-> end, entries |-> entries, readable |-> n,
                 trailer |-> chunk_table_start_position = -1]
    BY DEF Table
  <1>3. /\ entries \in Seq([count : Nat, bytes : Nat]) /\ Len(entries) = n
        /\ \A i \in 1 .. n : entries[i] = entry(i)
    BY <1>1
  <1>. HIDE DEF entries, n
  <1>4. Table \in TableRec
    BY <1>1, <1>2, <1>3 DEF TableRec
  <1>5. ASSUME NEW i \in 1 .. n
        PROVE  /\ entries[i].bytes = chunk_bytes[i]
               /\ Variable => entries[i].count = chunk_sizes[i]
    BY <1>3
  <1>6. end # -1
    BY <1>1
  <1>. QED BY <1>1, <1>2, <1>3, <1>4, <1>5, <1>6

\* ... which done() puts behind the chunks.
LEMMA PutTableKeeps ==
  ASSUME WriterInv, PutTable
  PROVE  WriterInv'
  <1>1. phase = "tabling" /\ Chunked /\ InOrder
    <2>1. Chunked
      BY DEF PutTable, WriterInv, NoChunks
    <2>. QED BY <2>1, InOrderIsInv DEF PutTable
  <1>2. put = <<>> /\ OpenCount = 0
    BY <1>1 DEF InOrder, OpenPart, OpenCount
  <1>3. /\ phase' = "closed" /\ table' = Table
        /\ UNCHANGED <<writers, enc, put, chunk_size, chunk_count, number_chunks, alloced_chunks,
                       chunk_sizes, chunk_bytes, chunk_start_position,
                       chunk_table_start_position, seekable, end, laszip, fields, chunks, npoints>>
    BY DEF PutTable
  <1>4. table' \in TableRec \cup {NoTable}
    BY <1>1, <1>3, TableFacts
  <1>5. Table' = Table
    BY <1>3 DEF Table, Variable
  <1>6. Signs'
    BY <1>1, <1>3, <1>5 DEF InOrder, Signs
  <1>7. fields' \in [DOMAIN fields' -> Nat \cup {-1}] /\ DOMAIN fields' \subseteq Nat
    BY <1>1, <1>3 DEF InOrder, WriterTypeOK
  <1>. QED BY <1>1, <1>2, <1>3, <1>4, <1>6, <1>7, DoneGoesOn

\* done() without chunks.
LEMMA DoneUnchunkedKeeps ==
  ASSUME WriterInv, NEW b \in ChunkBytes, DoneUnchunked(b)
  PROVE  WriterInv'
  <1>. USE U32MAXAssumption, BaseAssumption, WriterAssumption
  <1>0. /\ phase = "open" /\ WriterTypeOK /\ Modes /\ ~Chunked /\ NoChunks
        /\ chunks = <<>> /\ end = DataStart /\ ChunksEnd = DataStart /\ DataStart \in Nat
        /\ Compressed => npoints = chunk_count
        /\ npoints \in Nat /\ b \in Nat
    <2>1. phase = "open" /\ WriterTypeOK /\ Modes /\ chunk_start_position = 0
      BY DEF WriterInv, DoneUnchunked
    <2>2. ~Chunked
      <3>1. Chunked => chunk_start_position >= Base + 8
        BY <2>1, StreamFacts DEF WriterInv, ChunksTabled
      <3>. QED BY <3>1, <2>1
    <2>3. NoChunks
      BY <2>1, <2>2 DEF WriterInv
    <2>4. chunks = <<>> /\ end = DataStart /\ (Compressed => npoints = chunk_count)
      BY <2>1, <2>3 DEF NoChunks
    <2>. QED BY <2>1, <2>2, <2>3, <2>4, StreamFacts, Numbers DEF ChunksEnd
  <1>1. /\ phase' = "closed"
        /\ IF writers = "compressed"
           THEN /\ chunks' = Append(chunks, Intact(ChunksEnd, 0, chunk_count, b))
                /\ enc' = "idle"
                /\ end' = end + b
           ELSE UNCHANGED <<chunks, enc, end>>
        /\ UNCHANGED <<writers, put, chunk_size, chunk_count, number_chunks, alloced_chunks,
                       chunk_sizes, chunk_bytes, chunk_start_position,
                       chunk_table_start_position, seekable, laszip, fields,
                       table, npoints>>
    BY DEF DoneUnchunked
  <1>2. /\ ~Chunked' /\ (Compressed' <=> Compressed)
        /\ SetupChunkSize' = SetupChunkSize /\ DataStart' = DataStart
    BY <1>0, <1>1 DEF Chunked, Compressed, SetupChunkSize, DataStart
  <1>3. writers = "compressed" => Compressed
    BY <1>0 DEF Modes
  <1>4. /\ chunks' \in Seq(ChunkRec) /\ end' \in Nat
        /\ Compressed => IF writers = "compressed"
                         THEN chunks' = <<Intact(DataStart, 0, npoints, end' - DataStart)>>
                         ELSE chunks' = <<>> /\ npoints = 0
        /\ ~Compressed => chunks' = <<>>
    <2>1. CASE writers = "compressed"
      <3>. DEFINE new == Intact(DataStart, 0, npoints, b)
      <3>1. end' \in Nat /\ end' - DataStart = b
        BY <2>1, <1>0, <1>1
      <3>2. chunks' = Append(<<>>, new)
        BY <2>1, <1>0, <1>1, <1>3
      <3>3. new \in ChunkRec
        BY <1>0 DEF Intact, ChunkRec, Faults
      <3>4. chunks' = <<new>>
        <4>. HIDE DEF new
        <4>. QED BY <3>2, <3>3, EmptySeq, JoinOne, ConcatEmptySeq
      <3>5. <<new>> \in Seq(ChunkRec)
        BY <3>3
      <3>. QED BY <3>1, <3>4, <3>5, <2>1, <1>3
    <2>2. CASE writers # "compressed"
      <3>1. UNCHANGED <<chunks, end>> /\ chunks' \in Seq(ChunkRec) /\ end' \in Nat
        BY <2>2, <1>0, <1>1, EmptySeq
      <3>2. Compressed => npoints = 0
        BY <2>2, <1>0 DEF Modes
      <3>. QED BY <3>1, <3>2, <2>2, <1>0
    <2>. QED BY <2>1, <2>2
  <1>5. WriterTypeOK'
    BY <1>0, <1>1, <1>4 DEF WriterTypeOK
  <1>6. Modes'
    BY <1>0, <1>1, <1>2 DEF Modes
  <1>7. NoChunks'
    BY <1>0, <1>1, <1>2, <1>4 DEF NoChunks
  <1>8. FixedChunksAreFull'
    BY <1>2 DEF FixedChunksAreFull
  <1>. QED BY <1>1, <1>2, <1>5, <1>6, <1>7, <1>8 DEF WriterInv

\* Until done() has put the table, and from then on, a file in chunks shows it.
LEMMA OrderShowsInterruption ==
  ASSUME InOrder
  PROVE  InterruptionIsVisible
  <1>1. WriterTypeOK /\ ChunksTabled /\ Signs /\ phase # "crashed"
    BY DEF InOrder
  <1>2. /\ Len(chunks) = number_chunks /\ DOMAIN chunks = 1 .. Len(chunks)
        /\ \A i \in 1 .. Len(chunks) : chunks[i].ok = chunks[i].count
    BY <1>1, StreamFacts DEF ChunksTabled, Tabled
  <1>3. CASE phase = "closed"
    <2>1. /\ table = Table /\ Table.pos = end /\ Table.pos # -1
          /\ Table.trailer <=> chunk_table_start_position = -1
          /\ Len(Table.entries) = Len(chunks) /\ Table.readable = Len(chunks)
      BY <1>1, <1>3, TableFacts DEF Signs
    <2>2. table # NoTable
      BY <2>1 DEF NoTable
    <2>3. /\ chunk_table_start_position = IF seekable THEN Base ELSE -1
          /\ fields[Base] = IF seekable THEN end ELSE -1
      BY <1>1, <1>3 DEF Signs
    <2>4. chunk_table_start_position = -1 <=> ~seekable
      BY <2>3, BaseAssumption
    <2>5. TableIsFound
      BY <2>1, <2>3, <2>4 DEF TableIsFound
    <2>6. table.readable = Len(table.entries)
      BY <2>1
    <2>. QED BY <2>2, <2>5, <2>6, <1>2, <1>3 DEF InterruptionIsVisible
  <1>4. CASE phase # "closed"
    <2>1. table = NoTable
      BY <1>1, <1>4 DEF Signs
    <2>. QED BY <2>1, <1>2, <1>4 DEF InterruptionIsVisible
  <1>. QED BY <1>3, <1>4

\* What a crash leaves on disk are records of chunks, and the 8 bytes are not
\* changed by it.
LEMMA CrashKeeps ==
  ASSUME WriterInv, NEW kept \in 0 .. Len(chunks), NEW ok \in 0 .. MaxPoints, Crash(kept, ok)
  PROVE  WriterInv'
  <1>. USE U32MAXAssumption, BaseAssumption, WriterAssumption
  <1>. DEFINE torn == NextChunk(kept)
  <1>0. /\ WriterTypeOK /\ phase \in {"open", "done", "tabling"} /\ Compressed
        /\ phase = "tabling" => ~seekable
    BY DEF WriterInv, Crash
  <1>1. /\ phase' = "crashed" /\ chunks' = SubSeq(chunks, 1, kept) \o Cut(torn, ok)
        /\ UNCHANGED <<writers, enc, put, chunk_size, chunk_count, number_chunks, alloced_chunks,
                       chunk_sizes, chunk_bytes, chunk_start_position,
                       chunk_table_start_position, seekable, end, laszip, fields,
                       table, npoints>>
    BY DEF Crash
  <1>2. npoints - OpenCount \in Nat
    <2>1. CASE Chunked
      BY <2>1, <1>0 DEF WriterInv, ChunksTabled, Before
    <2>2. CASE ~Chunked
      <3>1. NoChunks
        BY <2>2, <1>0 DEF WriterInv
      <3>2. phase = "open" /\ npoints = chunk_count
        BY <3>1, <1>0 DEF NoChunks
      <3>3. npoints \in Nat
        BY <1>0 DEF WriterTypeOK
      <3>. QED BY <3>2, <3>3 DEF OpenCount
    <2>. QED BY <2>1, <2>2
  <1>3. torn \in ChunkRec
    <2>1. CASE kept < Len(chunks)
      BY <2>1, <1>0, StreamFacts DEF NextChunk
    <2>2. CASE ~(kept < Len(chunks)) /\ put # <<>>
      BY <2>2, <1>0, Singleton DEF NextChunk, WriterTypeOK
    <2>3. CASE ~(kept < Len(chunks)) /\ put = <<>>
      <3>1. end \in Nat /\ OpenCount \in Nat
        BY <1>0, Numbers
      <3>2. torn = Intact(end, npoints - OpenCount, OpenCount, OpenCount + 1)
        BY <2>3 DEF NextChunk
      <3>. HIDE DEF torn
      <3>. QED BY <3>1, <3>2, <1>2 DEF Intact, ChunkRec, Faults
    <2>. QED BY <2>1, <2>2, <2>3
  <1>. HIDE DEF torn
  <1>4. Cut(torn, ok) \in Seq(ChunkRec)
    <2>1. [torn EXCEPT !.ok = ok, !.fault = "eof"] \in ChunkRec
      <3>1. ok \in Nat /\ "eof" \in Faults
        BY DEF Faults
      <3>. QED BY <3>1, <1>3 DEF ChunkRec
    <2>. QED BY <2>1, <1>3 DEF Cut
  <1>5. SubSeq(chunks, 1, kept) \in Seq(ChunkRec)
    <2>1. \A i \in 1 .. kept : chunks[i] \in ChunkRec
      BY <1>0, StreamFacts
    <2>2. kept \in Int
      BY <1>0, StreamFacts
    <2>. QED BY <2>1, <2>2, SubSeqProperties
  <1>6. chunks' \in Seq(ChunkRec)
    BY <1>1, <1>4, <1>5, ConcatProperties
  <1>7. WriterTypeOK'
    BY <1>0, <1>1, <1>6 DEF WriterTypeOK
  <1>8. InterruptionIsVisible'
    <2>. SUFFICES ASSUME Chunked PROVE InterruptionIsVisible'
      BY <1>1 DEF InterruptionIsVisible, Chunked
    <2>1. Signs
      BY <1>0 DEF WriterInv
    <2>2. table = NoTable /\ (seekable => fields[Base] = Base)
      BY <2>1, <1>0 DEF Signs
    <2>. QED BY <2>2, <1>1 DEF InterruptionIsVisible
  <1>. QED BY <1>1, <1>7, <1>8 DEF WriterInv

\* A crash that leaves a part of the table, or none of it.
LEMMA CrashInTableKeeps ==
  ASSUME WriterInv, NEW readable \in 0 .. Len(chunk_bytes), CrashInTable(readable)
  PROVE  WriterInv'
  <1>1. phase = "tabling" /\ Chunked /\ InOrder
    <2>1. Chunked
      BY DEF CrashInTable, WriterInv, NoChunks
    <2>. QED BY <2>1, InOrderIsInv DEF CrashInTable
  <1>2. /\ phase' = "crashed"
        /\ \/ table' = table
           \/ /\ seekable => readable < Len(chunk_bytes)
              /\ table' = [Table EXCEPT !.readable = readable, !.trailer = FALSE]
        /\ UNCHANGED <<writers, enc, put, chunk_size, chunk_count, number_chunks, alloced_chunks,
                       chunk_sizes, chunk_bytes, chunk_start_position,
                       chunk_table_start_position, seekable, end, laszip, fields,
                       chunks, npoints>>
    BY DEF CrashInTable
  <1>3. /\ WriterTypeOK /\ ChunksTabled /\ Signs
        /\ DOMAIN chunks = 1 .. Len(chunks) /\ Len(chunks) \in Nat
        /\ Len(chunk_bytes) = Len(chunks)
    BY <1>1, StreamFacts DEF InOrder, ChunksTabled
  <1>4. table = NoTable /\ (~seekable => fields[Base] = -1)
    BY <1>1, <1>3 DEF Signs
  <1>. DEFINE torn == [Table EXCEPT !.readable = readable, !.trailer = FALSE]
  <1>5. /\ torn \in TableRec /\ torn.trailer = FALSE /\ torn.readable = readable
        /\ Len(torn.entries) = Len(chunks)
    <2>1. Table \in TableRec /\ Len(Table.entries) = Len(chunks)
      BY <1>1, TableFacts
    <2>2. readable \in Nat
      BY <1>3
    <2>. QED BY <2>1, <2>2 DEF TableRec
  <1>. HIDE DEF torn
  <1>6. table' \in {NoTable, torn}
    BY <1>2, <1>4 DEF torn
  <1>7. WriterTypeOK'
    <2>1. table' \in TableRec \cup {NoTable}
      BY <1>5, <1>6
    <2>. QED BY <2>1, <1>2, <1>3 DEF WriterTypeOK
  <1>8. InterruptionIsVisible'
    <2>1. /\ Len(chunks') = number_chunks'
          /\ \A i \in DOMAIN chunks' : chunks'[i].ok = chunks'[i].count
      BY <1>2, <1>3 DEF ChunksTabled, Tabled
    <2>2. ASSUME table' # NoTable
          PROVE  ~(TableIsFound' /\ table'.readable = Len(table'.entries))
      <3>1. table' = torn /\ (seekable => readable < Len(chunks))
        <4>1. table' # table
          BY <2>2, <1>4
        <4>. QED BY <4>1, <1>2, <1>3 DEF torn
      <3>2. CASE seekable
        <4>1. readable # Len(chunks)
          <5>1. readable \in Nat /\ Len(chunks) \in Nat /\ readable < Len(chunks)
            BY <3>1, <3>2, <1>3
          <5>. QED BY <5>1
        <4>. QED BY <4>1, <3>1, <1>5
      <3>3. CASE ~seekable
        <4>1. fields'[Base] = -1 /\ ~table'.trailer
          BY <3>1, <3>3, <1>2, <1>4, <1>5
        <4>. QED BY <4>1 DEF TableIsFound
      <3>. QED BY <3>2, <3>3
    <2>. QED BY <2>1, <2>2, <1>2 DEF InterruptionIsVisible
  <1>. QED BY <1>2, <1>7, <1>8 DEF WriterInv

\* Every call, and the crash, keeps the invariant.
LEMMA StepKeeps ==
  ASSUME WriterInv, CountsStayNarrow, [WriterNext]_wvars
  PROVE  WriterInv'
  <1>. USE U32MAXAssumption, WriterAssumption
  <1>1. ASSUME NEW b \in ChunkBytes, WriteStartsChunk(b)
        PROVE  WriterInv'
    <2>1. phase = "open" /\ chunk_count = chunk_size /\ Chunked
      BY <1>1, FullMeansChunked DEF WriteStartsChunk
    <2>2. chunk_count' = 1 /\ npoints' = npoints + 1 /\ writers' = "compressed"
      BY <1>1 DEF WriteStartsChunk, PutPoint
    <2>3. npoints' <= MaxPoints
      BY <1>1, <2>2, Numbers DEF WriteStartsChunk, WriterInv
    <2>. QED BY <1>1, <2>1, <2>2, <2>3, ChunkFollowed DEF WriteStartsChunk
  <1>2. ASSUME NEW b \in ChunkBytes, Chunk(b)
        PROVE  WriterInv'
    <2>1. Chunked
      BY <1>2 DEF Chunk, WriterInv, NoChunks
    <2>2. chunk_count' = 0 /\ npoints' = npoints /\ npoints \in Nat /\ npoints <= MaxPoints
      BY <1>2, Numbers DEF Chunk, WriterInv, Modes
    <2>3. npoints' = npoints + 0 /\ npoints' <= MaxPoints
      BY <2>2
    <2>. QED BY <1>2, <2>1, <2>2, <2>3, ChunkFollowed DEF Chunk
  <1>3. ASSUME NEW b \in ChunkBytes, WriteFails(b) \/ ChunkFails(b) \/ DoneFails(b)
        PROVE  WriterInv'
    <2>1. /\ phase = "open" /\ AddChunkFails(b) /\ UNCHANGED <<phase, seekable, laszip, npoints>>
      BY <1>3 DEF WriteFails, ChunkFails, DoneFails
    <2>2. Chunked
      <3>1. WriteFails(b) => Chunked
        BY FullMeansChunked DEF WriteFails
      <3>2. ChunkFails(b) \/ DoneFails(b) => Chunked
        BY DEF ChunkFails, DoneFails, WriterInv, NoChunks
      <3>. QED BY <1>3, <3>1, <3>2
    <2>3. chunk_count # 0
      <3>1. WriteFails(b) => chunk_count = chunk_size /\ chunk_size \in 1 .. U32MAX
        BY Numbers DEF WriteFails, WriterInv
      <3>2. ChunkFails(b) => chunk_count > 0 /\ chunk_count \in 0 .. chunk_size
        BY Numbers DEF ChunkFails, WriterInv
      <3>3. DoneFails(b) => chunk_count # 0
        BY <2>2 DEF DoneFails, WriterInv, Modes, Chunked, Compressed
      <3>. QED BY <1>3, <3>1, <3>2, <3>3
    <2>. QED BY <2>1, <2>2, <2>3, FailureKeeps
  <1>4. CASE UNCHANGED wvars
    <2>1. UNCHANGED <<phase, writers, enc, put, chunk_size, chunk_count, number_chunks,
                      alloced_chunks, chunk_sizes, chunk_bytes, chunk_start_position,
                      chunk_table_start_position, seekable, end, laszip, fields, chunks,
                      table, npoints>>
      BY <1>4 DEF wvars, writer, file
    <2>2. WriterTypeOK'
      BY <2>1 DEF WriterInv, WriterTypeOK
    <2>3. CASE phase = "crashed"
      <3>1. InterruptionIsVisible'
        BY <2>1, <2>3, StreamUnchanged DEF WriterInv, InterruptionIsVisible, TableIsFound
      <3>. QED BY <3>1, <2>1, <2>2, <2>3 DEF WriterInv
    <2>4. CASE phase # "crashed"
      <3>1. Before' = Before /\ Table' = Table
        BY <2>1 DEF Before, OpenCount, Table, Variable
      <3>2. Modes' /\ (~Overdo => FixedChunksAreFull')
        BY <2>1, <2>4, StreamUnchanged DEF WriterInv, Modes, FixedChunksAreFull, Variable
      <3>3. Chunked => ChunksTabled'
        BY <2>1, <2>4, <3>1, TabledUnchanged DEF WriterInv
      <3>4. Chunked => OpenPart' /\ Signs'
        BY <2>1, <2>4, <3>1 DEF WriterInv, OpenPart, Signs
      <3>5. ~Chunked => NoChunks'
        BY <2>1, <2>4, StreamUnchanged DEF WriterInv, NoChunks
      <3>. QED BY <2>1, <2>2, <2>4, <3>2, <3>3, <3>4, <3>5, StreamUnchanged DEF WriterInv
    <2>. QED BY <2>3, <2>4
  <1>. QED
    BY <1>1, <1>2, <1>3, <1>4, WriteInChunkKeeps, WriteCountWrapsKeeps, DoneWithOpenChunkKeeps,
       DoneBetweenChunksKeeps, PutTablePositionKeeps, PutTableKeeps, DoneUnchunkedKeeps,
       CrashKeeps, CrashInTableKeeps
    DEF WriterNext

------------------------------------------------------------------------------
(* What the invariant says of the stream *)

\* If no encoder that is done was given more to do, chunks lie back to back.
BackToBack ==
  \A i \in DOMAIN chunks :
    /\ chunks[i].start = IF i = 1 THEN DataStart ELSE chunks[i-1].start + chunks[i-1].bytes
    /\ chunks[i].first = IF i = 1 THEN 0 ELSE chunks[i-1].first + chunks[i-1].count

\* Then the chunks end where the object takes them to end.
LEMMA ChunksBackToBack ==
  ASSUME InOrder, ~Overdo
  PROVE  /\ BackToBack
         /\ ChunksEnd = chunk_start_position
         /\ PointsOnStream = Before
         /\ npoints = PointsOnStream + OpenCount
  <1>1. /\ WriterTypeOK /\ ChunksTabled
        /\ Len(chunks) \in Nat /\ DOMAIN chunks = 1 .. Len(chunks)
        /\ Len(chunks) = 0 <=> chunks = <<>>
        /\ npoints \in Nat /\ OpenCount \in Nat /\ DataStart \in Nat
    BY StreamFacts, Numbers DEF InOrder
  <1>2. ASSUME NEW i \in 1 .. Len(chunks)
        PROVE  /\ chunks[i].start + chunks[i].bytes = Bound(i)
               /\ chunks[i].first + chunks[i].count = FirstBound(i)
    BY <1>1, <1>2 DEF ChunksTabled, Tabled
  <1>3. ASSUME NEW i \in 1 .. Len(chunks)
        PROVE  /\ chunks[i].start = IF i = 1 THEN DataStart
                                    ELSE chunks[i-1].start + chunks[i-1].bytes
               /\ chunks[i].first = IF i = 1 THEN 0 ELSE chunks[i-1].first + chunks[i-1].count
    <2>1. CASE i = 1
      BY <2>1, <1>1 DEF ChunksTabled
    <2>2. CASE i # 1
      <3>1. i - 1 \in 1 .. Len(chunks) /\ i - 1 < Len(chunks) /\ (i - 1) + 1 = i
        BY <2>2, <1>1
      <3>2. Bound(i - 1) = chunks[i].start /\ FirstBound(i - 1) = chunks[i].first
        BY <3>1 DEF Bound, FirstBound
      <3>. QED BY <2>2, <3>1, <3>2, <1>2
    <2>. QED BY <2>1, <2>2
  <1>4. BackToBack
    BY <1>1, <1>3 DEF BackToBack
  <1>5. ChunksEnd = chunk_start_position /\ PointsOnStream = Before
    <2>1. CASE Len(chunks) = 0
      BY <2>1, <1>1 DEF ChunksTabled, ChunksEnd, PointsOnStream
    <2>2. CASE Len(chunks) # 0
      <3>1. Len(chunks) \in 1 .. Len(chunks) /\ ~(Len(chunks) < Len(chunks))
        BY <2>2, <1>1
      <3>2. /\ chunks[Len(chunks)].start + chunks[Len(chunks)].bytes = chunk_start_position
            /\ chunks[Len(chunks)].first + chunks[Len(chunks)].count = Before
        BY <3>1, <1>2 DEF Bound, FirstBound
      <3>. QED BY <2>2, <3>2, <1>1 DEF ChunksEnd, PointsOnStream
    <2>. QED BY <2>1, <2>2
  <1>6. npoints = PointsOnStream + OpenCount
    BY <1>1, <1>5 DEF Before
  <1>. QED BY <1>4, <1>5, <1>6

\* A single stream of points is one chunk once it is done.
LEMMA StreamBackToBack ==
  ASSUME WriterInv, ~Chunked, phase # "crashed"
  PROVE  /\ BackToBack
         /\ Compressed => npoints = PointsOnStream + OpenCount
         /\ phase = "open" => chunks = <<>>
         /\ Len(chunks) <= 1
         /\ \A i \in 1 .. Len(chunks) : chunks[i].ok = chunks[i].count /\ chunks[i].fault = "none"
         /\ put = <<>>
  <1>1. WriterTypeOK /\ NoChunks
    BY DEF WriterInv
  <1>2. npoints \in Nat /\ DataStart \in Nat
    BY <1>1, Numbers, StreamFacts
  <1>3. CASE chunks = <<>>
    <2>1. Len(chunks) = 0 /\ DOMAIN chunks = {} /\ PointsOnStream = 0
      BY <1>3 DEF PointsOnStream
    <2>2. Compressed => npoints = OpenCount
      BY <1>1, <1>3, StreamFacts, Numbers DEF NoChunks, OpenCount
    <2>. QED BY <2>1, <2>2, <1>1, <1>2, <1>3 DEF BackToBack, NoChunks
  <1>4. CASE chunks # <<>>
    <2>. DEFINE it == Intact(DataStart, 0, npoints, end - DataStart)
    <2>1. chunks = <<it>> /\ phase = "closed"
      BY <1>1, <1>4 DEF NoChunks
    <2>2. it.start = DataStart /\ it.first = 0 /\ it.count = npoints /\ it.ok = npoints
          /\ it.fault = "none"
      BY DEF Intact
    <2>. HIDE DEF it
    <2>3. Len(chunks) = 1 /\ DOMAIN chunks = {1} /\ chunks[1] = it
      BY <2>1
    <2>4. PointsOnStream = npoints /\ OpenCount = 0
      BY <2>1, <2>2, <2>3, <1>2, <1>4 DEF PointsOnStream, OpenCount
    <2>5. BackToBack
      BY <2>2, <2>3 DEF BackToBack
    <2>. QED BY <2>1, <2>2, <2>3, <2>4, <2>5, <1>1, <1>2 DEF NoChunks
  <1>. QED BY <1>3, <1>4

------------------------------------------------------------------------------
(* The theorems *)

\* The inductive invariant is one.
THEOREM WriterInvariant ==
  ASSUME CountsStayNarrow
  PROVE  WriterSpec => []WriterInv
  <1>1. WriterInit => WriterInv
    BY InitEstablishes
  <1>2. WriterInv /\ [WriterNext]_wvars => WriterInv'
    BY StepKeeps
  <1>. QED BY <1>1, <1>2, PTL DEF WriterSpec

\* Every variable of the writer keeps its type, and its width.
THEOREM WriterTypes ==
  ASSUME CountsStayNarrow
  PROVE  WriterSpec => []WriterTypeOK
  <1>1. WriterInv => WriterTypeOK
    BY DEF WriterInv
  <1>. QED BY <1>1, WriterInvariant, PTL

\* The chunks on the stream, with the open one, are the points accepted so far,
\* each once and in order, unless an encoder that is done is given more to do
\* (write(), chunk(), done(), add_chunk_to_table()).
THEOREM WriterPartitionsPoints ==
  ASSUME CountsStayNarrow, ~Overdo
  PROVE  WriterSpec => []ChunksPartitionPoints
  <1>1. ASSUME WriterInv PROVE ChunksPartitionPoints
    <2>. SUFFICES ASSUME Compressed, phase # "crashed"
                  PROVE  /\ BackToBack
                         /\ npoints = PointsOnStream + OpenCount
                         /\ put # <<>> => put = <<Intact(ChunksEnd, PointsOnStream, chunk_count,
                                                         end - ChunksEnd)>>
      BY DEF ChunksPartitionPoints, BackToBack
    <2>1. CASE Chunked
      <3>1. InOrder
        BY <1>1, <2>1, InOrderIsInv
      <3>2. /\ BackToBack /\ npoints = PointsOnStream + OpenCount
            /\ ChunksEnd = chunk_start_position /\ PointsOnStream = Before
        BY <3>1, ChunksBackToBack
      <3>3. put # <<>> => put = <<Intact(chunk_start_position, Before, chunk_count,
                                         end - chunk_start_position)>>
        BY <3>1 DEF InOrder, OpenPart
      <3>. QED BY <3>2, <3>3
    <2>2. CASE ~Chunked
      BY <1>1, <2>2, StreamBackToBack
    <2>. QED BY <2>1, <2>2
  <1>. QED BY <1>1, WriterInvariant, PTL

\* The table of a closed file leads from chunk to chunk and is found, also if
\* layers were put twice and points lost (write_chunk_table()).
THEOREM WriterTablesChunks ==
  ASSUME CountsStayNarrow
  PROVE  WriterSpec => []TableDescribesChunks
  <1>1. ASSUME WriterInv PROVE TableDescribesChunks
    <2>. SUFFICES ASSUME Chunked, phase = "closed" PROVE TableDescribesChunks
      BY DEF TableDescribesChunks
    <2>1. InOrder
      BY <1>1, InOrderIsInv
    <2>2. /\ WriterTypeOK /\ ChunksTabled /\ OpenPart /\ Signs
          /\ Len(chunks) \in Nat /\ DOMAIN chunks = 1 .. Len(chunks)
          /\ Len(chunks) = 0 <=> chunks = <<>>
          /\ npoints \in Nat /\ end \in Nat
      BY <2>1, StreamFacts, Numbers DEF InOrder
    <2>3. Before = npoints /\ chunk_start_position = end
      BY <2>2 DEF Before, OpenCount, OpenPart
    <2>4. /\ table.pos = end
          /\ table.trailer <=> chunk_table_start_position = -1
          /\ Len(table.entries) = Len(chunks)
          /\ \A i \in 1 .. Len(chunks) :
               /\ table.entries[i].bytes = chunk_bytes[i]
               /\ Variable => table.entries[i].count = chunk_sizes[i]
      BY <2>1, <2>2, TableFacts DEF Signs
    <2>5. IF table.trailer THEN fields[Base] = -1 ELSE fields[Base] = table.pos
      <3>1. /\ chunk_table_start_position = IF seekable THEN Base ELSE -1
            /\ fields[Base] = IF seekable THEN end ELSE chunk_table_start_position
        BY <2>2 DEF Signs
      <3>. QED BY <3>1, <2>4, BaseAssumption
    <2>6. ASSUME NEW i \in 1 .. Len(chunks)
          PROVE  /\ table.entries[i].bytes = (NextStart(i) - chunks[i].start) % (U32MAX + 1)
                 /\ Variable => table.entries[i].count = NextFirst(i) - chunks[i].first
                 /\ chunks[i].start + chunks[i].bytes <= NextStart(i)
                 /\ chunks[i].first + chunks[i].count <= NextFirst(i)
      <3>1. NextStart(i) = Bound(i) /\ NextFirst(i) = FirstBound(i)
        BY <2>3, <2>4 DEF NextStart, NextFirst, Bound, FirstBound
      <3>2. Tabled(i)
        BY <2>2 DEF ChunksTabled
      <3>. QED BY <3>1, <3>2, <2>4 DEF Tabled
    <2>7. IF chunks = <<>> THEN table.pos = DataStart /\ npoints = 0
          ELSE chunks[1].start = DataStart /\ chunks[1].first = 0
      BY <2>2, <2>3, <2>4 DEF ChunksTabled
    <2>. QED BY <2>2, <2>4, <2>5, <2>6, <2>7 DEF TableDescribesChunks
  <1>. QED BY <1>1, WriterInvariant, PTL

\* Chunks of fixed size are full, and the last of a closed file is not empty, so
\* that seek() can find a chunk by division.
THEOREM WriterFillsChunks ==
  ASSUME CountsStayNarrow, ~Overdo
  PROVE  WriterSpec => []FixedChunksAreFull
  <1>1. WriterInv => FixedChunksAreFull
    BY DEF WriterInv, FixedChunksAreFull
  <1>. QED BY <1>1, WriterInvariant, PTL

\* Wherever the process ends, also between the 8 bytes and the table, a file
\* that done() did not finish can be told from one that it did.
THEOREM WriterShowsInterruption ==
  ASSUME CountsStayNarrow
  PROVE  WriterSpec => []InterruptionIsVisible
  <1>1. ASSUME WriterInv PROVE InterruptionIsVisible
    <2>1. CASE phase = "crashed"
      BY <1>1, <2>1 DEF WriterInv
    <2>2. CASE phase # "crashed" /\ Chunked
      BY <1>1, <2>2, InOrderIsInv, OrderShowsInterruption
    <2>3. CASE ~Chunked
      BY <2>3 DEF InterruptionIsVisible
    <2>. QED BY <2>1, <2>2, <2>3
  <1>. QED BY <1>1, WriterInvariant, PTL
==============================================================================
