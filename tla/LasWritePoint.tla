---------------------------- MODULE LasWritePoint ----------------------------
(***************************************************************************)
(* LASwritePoint: points go to the stream chunk after chunk; done() puts   *)
(* the position of the chunk table into the 8 bytes in front of them, if   *)
(* the stream can seek, and then the table behind them.  One action per    *)
(* call and outcome; done() is three, as it may be interrupted between.    *)
(* The bytes of a chunk are put when it is closed; a crash decides what    *)
(* has reached the disk of the chunks and of the open one.                 *)
(*                                                                         *)
(* A call that closes the chunk and cannot table it returns FALSE with the *)
(* chunk on the stream and its encoder done (its outstream is 0).  The     *)
(* same call may be repeated.  But points written now are encoded into     *)
(* nothing and lost, and layers are put a second time, as bytes that       *)
(* belong to no chunk.  Overdo says whether a caller does any such thing.  *)
(* An operator introduced as "Fault:" is a plausible error in the operator *)
(* it stands next to; it is no part of the model, only a test of it.       *)
(***************************************************************************)
EXTENDS LazFile

CONSTANTS
  Configs,        \* the LASzip records the writer may be set up with
  ChunkBytes,     \* sizes the entropy coder may give a chunk
  InitialAlloc,   \* chunks the tables are first allocated for (1024)
  MaxPoints,      \* bound: points written
  MaxChunks,      \* bound: chunks in the table
  MaxOpenBytes,   \* bound: bytes put for a chunk that cannot be tabled
  EmptyChunks,    \* whether the caller calls chunk() with no point written
  Overdo          \* whether it gives an encoder that is done more to do

ASSUME WriterAssumption ==
  /\ Configs \subseteq [compressor : Compressors, chunk_size : 0 .. U32MAX]
  /\ ChunkBytes \subseteq Nat \ {0}
  /\ InitialAlloc \in 1 .. U32MAX
  /\ MaxPoints \in Nat
  /\ MaxChunks \in 0 .. U32MAX
  /\ MaxOpenBytes \in Nat
  /\ EmptyChunks \in BOOLEAN
  /\ Overdo \in BOOLEAN

VARIABLES
  phase,                       \* of the file: open, done, tabling, closed, crashed
  writers,                     \* none (0), raw or compressed
  enc,                         \* none, idle (outstream = 0) or active
  put,                         \* the open chunk, if it is on the stream already
  chunk_size,
  chunk_count,
  number_chunks,
  alloced_chunks,
  chunk_sizes,                 \* allocated only for chunks of variable size
  chunk_bytes,
  chunk_start_position,
  chunk_table_start_position,
  seekable,                    \* outstream->isSeekable()
  end                          \* outstream->tell()

writer == <<phase, writers, enc, put, chunk_size, chunk_count, number_chunks,
            alloced_chunks, chunk_sizes, chunk_bytes, chunk_start_position,
            chunk_table_start_position, seekable, end>>

wvars == <<writer, file>>

Variable == chunk_size = U32MAX

\* Points in the open chunk.
OpenCount == IF phase = "open" THEN chunk_count ELSE 0

------------------------------------------------------------------------------
(* setup() of a new object, then init(): the 8 bytes that will say where   *)
(* the table is hold their own position until done(), or -1.               *)

WriterInit ==
  /\ laszip \in Configs
  /\ seekable \in BOOLEAN
  /\ phase = "open"
  /\ writers = IF Compressed THEN "none" ELSE "raw"
  /\ enc = IF Compressed THEN "idle" ELSE "none"
  /\ put = <<>>
  /\ chunk_size = SetupChunkSize
  /\ chunk_count = 0
  /\ number_chunks = 0
  /\ alloced_chunks = 0
  /\ chunk_sizes = <<>>
  /\ chunk_bytes = <<>>
  /\ chunk_table_start_position = IF ~Chunked THEN 0 ELSE IF seekable THEN Base ELSE -1
  /\ fields = [p \in IF Chunked THEN {Base} ELSE {} |-> chunk_table_start_position]
  /\ chunk_start_position = IF Chunked THEN DataStart ELSE 0
  /\ end = DataStart
  /\ chunks = <<>>
  /\ table = NoTable
  /\ npoints = 0

\* init() on the same object after a chunk.  number_chunks doubles as the
\* flag "the 8 bytes are still to be put", so that U32MAX chunks put them again;
\* a bound MaxChunks below U32MAX keeps clear of that.
InitAfterChunk(n, at) ==
  IF n = U32MAX
  THEN /\ number_chunks' = 0
       /\ chunk_table_start_position' = IF seekable THEN at ELSE -1
       /\ fields' = PutField(at, IF seekable THEN at ELSE -1)
       /\ chunk_start_position' = at + FieldBytes
       /\ end' = at + FieldBytes
  ELSE /\ number_chunks' = n
       /\ chunk_start_position' = at
       /\ end' = at
       /\ UNCHANGED <<chunk_table_start_position, fields>>

\* The end of the stream once the open chunk is closed and took b bytes.  An
\* encoder that is done already puts nothing, layers are put once more.
EndOfChunk(b) == IF enc = "active" \/ Layered THEN end + b ELSE end

\* The chunk that is on the stream then.
PutChunk(b) ==
  IF put # <<>> THEN put
  ELSE <<Intact(end, npoints - chunk_count, chunk_count, EndOfChunk(b) - end)>>

MayPut == put = <<>> \/ ~Layered \/ Overdo

TableIsFull == number_chunks = alloced_chunks

GrownAlloc ==
  IF chunk_bytes = <<>> /\ alloced_chunks = 0 THEN InitialAlloc
  ELSE IF 2 * alloced_chunks > U32MAX THEN U32MAX ELSE 2 * alloced_chunks

\* The open chunk is put and add_chunk_to_table() succeeds.
AddChunkToTable(b) ==
  /\ MayPut
  /\ TableIsFull => GrownAlloc > alloced_chunks
  /\ alloced_chunks' = IF TableIsFull THEN GrownAlloc ELSE alloced_chunks
  /\ chunk_sizes' = IF Variable THEN Append(chunk_sizes, chunk_count) ELSE chunk_sizes
  /\ chunk_bytes' = Append(chunk_bytes, (EndOfChunk(b) - chunk_start_position) % (U32MAX + 1))
  /\ chunks' = chunks \o PutChunk(b)
  /\ put' = <<>>

\* Fault: the chunk start moves on although the chunk was not tabled.
AddChunkFailsMovedOn(b) ==
  /\ MayPut /\ TableIsFull
  /\ EndOfChunk(b) - chunk_start_position <= MaxOpenBytes
  /\ put' = PutChunk(b)
  /\ end' = EndOfChunk(b)
  /\ enc' = "idle"
  /\ chunk_start_position' = EndOfChunk(b)
  /\ UNCHANGED <<writers, chunk_size, chunk_count, number_chunks, alloced_chunks,
                 chunk_sizes, chunk_bytes, chunk_table_start_position, fields, chunks, table>>

\* ... and it fails: no memory, or no larger table.  The chunk is on the
\* stream and the encoder is done, nothing else has changed.
AddChunkFails(b) ==
  /\ MayPut /\ TableIsFull
  /\ EndOfChunk(b) - chunk_start_position <= MaxOpenBytes
  /\ put' = PutChunk(b)
  /\ end' = EndOfChunk(b)
  /\ enc' = "idle"
  /\ UNCHANGED <<writers, chunk_size, chunk_count, number_chunks, alloced_chunks,
                 chunk_sizes, chunk_bytes, chunk_start_position,
                 chunk_table_start_position, fields, chunks, table>>

------------------------------------------------------------------------------
(* write() *)

\* The point goes into the open chunk; the first of a chunk is written raw,
\* starts the compressed writers and hands the stream to the encoder.
PutPoint(count) ==
  /\ chunk_count' = count + 1
  /\ npoints' = npoints + 1
  /\ IF Compressed
     THEN writers' = "compressed"
     ELSE UNCHANGED writers

\* (The point is lost if the encoder is done: it has no stream to put it on.)
WriteInChunk ==
  /\ phase = "open" /\ npoints < MaxPoints
  /\ chunk_count # chunk_size
  /\ put = <<>> \/ Overdo
  /\ PutPoint(chunk_count)
  /\ enc' = IF writers = "none" THEN "active" ELSE enc
  /\ UNCHANGED <<phase, put, chunk_size, number_chunks, alloced_chunks, chunk_sizes,
                 chunk_bytes, chunk_start_position, chunk_table_start_position,
                 seekable, end, laszip, fields, chunks, table>>

WriteStartsChunk(b) ==
  /\ phase = "open" /\ npoints < MaxPoints /\ number_chunks < MaxChunks
  /\ chunk_count = chunk_size /\ Compressed
  /\ AddChunkToTable(b)
  /\ InitAfterChunk(number_chunks + 1, EndOfChunk(b))
  /\ PutPoint(0)
  /\ enc' = "active"
  /\ UNCHANGED <<phase, chunk_size, seekable, laszip, table>>

\* write() returns FALSE; the point is not written and may be tried again.
WriteFails(b) ==
  /\ phase = "open" /\ npoints < MaxPoints
  /\ chunk_count = chunk_size /\ Compressed
  /\ AddChunkFails(b)
  /\ UNCHANGED <<phase, seekable, laszip, npoints>>

\* Fault: the count goes on where it is full.
WriteCountOverflows ==
  /\ phase = "open" /\ npoints < MaxPoints
  /\ chunk_count = chunk_size /\ ~Compressed
  /\ PutPoint(chunk_count)
  /\ UNCHANGED <<phase, enc, put, chunk_size, number_chunks, alloced_chunks, chunk_sizes,
                 chunk_bytes, chunk_start_position, chunk_table_start_position,
                 seekable, end, laszip, fields, chunks, table>>

\* Uncompressed points are only counted, modulo U32MAX.
WriteCountWraps ==
  /\ phase = "open" /\ npoints < MaxPoints
  /\ chunk_count = chunk_size /\ ~Compressed
  /\ PutPoint(0)
  /\ UNCHANGED <<phase, enc, put, chunk_size, number_chunks, alloced_chunks, chunk_sizes,
                 chunk_bytes, chunk_start_position, chunk_table_start_position,
                 seekable, end, laszip, fields, chunks, table>>

------------------------------------------------------------------------------
(* chunk(): the caller ends a chunk of variable size.  Without an open     *)
(* chunk the encoder has nothing to put and an entry of zero bytes and     *)
(* zero points is tabled (with layers, null writers would be called).      *)

\* Fault: the count of the closed chunk is not reset.
ChunkKeepsCount(b) ==
  /\ phase = "open" /\ number_chunks < MaxChunks
  /\ Compressed /\ chunk_start_position # 0 /\ Variable /\ chunk_count > 0
  /\ AddChunkToTable(b)
  /\ InitAfterChunk(number_chunks + 1, EndOfChunk(b))
  /\ writers' = "none" /\ enc' = "idle"
  /\ UNCHANGED <<phase, chunk_size, chunk_count, seekable, laszip, table, npoints>>

\* Fault: chunks of fixed size may be ended, too.
ChunkOfAnySize(b) ==
  /\ phase = "open" /\ number_chunks < MaxChunks
  /\ Compressed /\ chunk_start_position # 0 /\ chunk_count > 0
  /\ AddChunkToTable(b)
  /\ InitAfterChunk(number_chunks + 1, EndOfChunk(b))
  /\ writers' = "none" /\ enc' = "idle" /\ chunk_count' = 0
  /\ UNCHANGED <<phase, chunk_size, seekable, laszip, table, npoints>>

Chunk(b) ==
  /\ phase = "open" /\ number_chunks < MaxChunks
  /\ Compressed /\ chunk_start_position # 0 /\ Variable
  /\ chunk_count > 0 \/ (EmptyChunks /\ ~Layered)
  /\ AddChunkToTable(b)
  /\ InitAfterChunk(number_chunks + 1, EndOfChunk(b))
  /\ writers' = "none"
  /\ enc' = "idle"
  /\ chunk_count' = 0
  /\ UNCHANGED <<phase, chunk_size, seekable, laszip, table, npoints>>

ChunkFails(b) ==
  /\ phase = "open"
  /\ Compressed /\ chunk_start_position # 0 /\ Variable
  /\ chunk_count > 0
  /\ AddChunkFails(b)
  /\ UNCHANGED <<phase, seekable, laszip, npoints>>

------------------------------------------------------------------------------
(* done() *)

\* The open chunk is closed and tabled.
DoneWithOpenChunk(b) ==
  /\ phase = "open" /\ writers = "compressed" /\ chunk_start_position # 0
  /\ number_chunks < MaxChunks
  /\ AddChunkToTable(b)
  /\ number_chunks' = number_chunks + 1
  /\ chunk_start_position' = EndOfChunk(b)
  /\ end' = EndOfChunk(b)
  /\ phase' = "done"
  /\ enc' = "idle"
  /\ UNCHANGED <<writers, chunk_size, chunk_count, chunk_table_start_position,
                 seekable, laszip, fields, table, npoints>>

\* done() returns FALSE: the file is still open.
DoneFails(b) ==
  /\ phase = "open" /\ writers = "compressed" /\ chunk_start_position # 0
  /\ AddChunkFails(b)
  /\ UNCHANGED <<phase, seekable, laszip, npoints>>

\* No point since the last chunk() call, or none at all.
DoneBetweenChunks ==
  /\ phase = "open" /\ writers = "none" /\ chunk_start_position # 0
  /\ phase' = "done"
  /\ UNCHANGED <<writers, enc, put, chunk_size, chunk_count, number_chunks, alloced_chunks,
                 chunk_sizes, chunk_bytes, chunk_start_position,
                 chunk_table_start_position, seekable, end, file>>

\* Fault: the 8 bytes in front of the chunks are not put.
PutNoTablePosition ==
  /\ phase = "done" /\ phase' = "tabling"
  /\ UNCHANGED <<writers, enc, put, chunk_size, chunk_count, number_chunks, alloced_chunks,
                 chunk_sizes, chunk_bytes, chunk_start_position,
                 chunk_table_start_position, seekable, end, file>>

\* write_chunk_table(), if the stream can seek: back to the 8 bytes in front of
\* the chunks, and to the end again.
PutTablePosition ==
  /\ phase = "done" /\ phase' = "tabling"
  /\ fields' = IF chunk_table_start_position # -1
               THEN PutField(chunk_table_start_position, end) ELSE fields
  /\ UNCHANGED <<writers, enc, put, chunk_size, chunk_count, number_chunks, alloced_chunks,
                 chunk_sizes, chunk_bytes, chunk_start_position,
                 chunk_table_start_position, seekable, end, laszip, chunks, table, npoints>>

\* The table, and behind it its position if the stream cannot seek.
Table ==
  [pos |-> end,
   entries |-> [i \in 1 .. Len(chunk_bytes) |->
     [count |-> IF Variable THEN chunk_sizes[i] ELSE 0, bytes |-> chunk_bytes[i]]],
   readable |-> Len(chunk_bytes),
   trailer |-> chunk_table_start_position = -1]

PutTable ==
  /\ phase = "tabling" /\ phase' = "closed"
  /\ table' = Table
  /\ UNCHANGED <<writers, enc, put, chunk_size, chunk_count, number_chunks, alloced_chunks,
                 chunk_sizes, chunk_bytes, chunk_start_position,
                 chunk_table_start_position, seekable, end, laszip, fields, chunks, npoints>>

\* Without chunking the encoder, if it was started, is flushed and that is all.
DoneUnchunked(b) ==
  /\ phase = "open" /\ chunk_start_position = 0
  /\ phase' = "closed"
  /\ IF writers = "compressed"
     THEN /\ chunks' = Append(chunks, Intact(ChunksEnd, 0, chunk_count, b))
          /\ enc' = "idle"
          /\ end' = end + b
     ELSE UNCHANGED <<chunks, enc, end>>
  /\ UNCHANGED <<writers, put, chunk_size, chunk_count, number_chunks, alloced_chunks,
                 chunk_sizes, chunk_bytes, chunk_start_position,
                 chunk_table_start_position, seekable, laszip, fields,
                 table, npoints>>

------------------------------------------------------------------------------
(* The process ends before done() does: of the chunks on the stream the    *)
(* first "kept" are on disk, and of the next one as much as lets "ok"      *)
(* points be read.  Layers are put only when a chunk is closed, and the    *)
(* first point can be read only with them.                                 *)

NextChunk(kept) ==
  IF kept < Len(chunks) THEN chunks[kept + 1]
  ELSE IF put # <<>> THEN put[1]
  ELSE Intact(end, npoints - OpenCount, OpenCount, OpenCount + 1)

\* A chunk of which no more than ok points can be read, or none of it.
Cut(chunk, ok) ==
  IF chunk.count = 0 THEN <<>>
  ELSE IF ok = chunk.count THEN <<chunk>>
  ELSE <<[chunk EXCEPT !.ok = ok, !.fault = "eof"]>>

Crash(kept, ok) ==
  LET torn == NextChunk(kept) IN
  /\ phase \in {"open", "done"} \/ (phase = "tabling" /\ ~seekable)
  /\ Compressed
  /\ kept <= Len(chunks)
  /\ \/ ok < torn.count /\ (Layered => ok = 0)
     \/ ok = torn.count /\ (torn.count = 0 \/ (kept = Len(chunks) /\ put # <<>>))
  /\ phase' = "crashed"
  /\ chunks' = SubSeq(chunks, 1, kept) \o Cut(torn, ok)
  /\ UNCHANGED <<writers, enc, put, chunk_size, chunk_count, number_chunks, alloced_chunks,
                 chunk_sizes, chunk_bytes, chunk_start_position,
                 chunk_table_start_position, seekable, end, laszip, fields,
                 table, npoints>>

\* Before the 8 bytes are put, and again before the table is, outstream->seek()
\* has flushed all that came before.  Of the table nothing is left, or a part.
CrashInTable(readable) ==
  /\ phase = "tabling"
  /\ phase' = "crashed"
  /\ \/ UNCHANGED table
     \/ /\ seekable => readable < Len(chunk_bytes)
        /\ table' = [Table EXCEPT !.readable = readable, !.trailer = FALSE]
  /\ UNCHANGED <<writers, enc, put, chunk_size, chunk_count, number_chunks, alloced_chunks,
                 chunk_sizes, chunk_bytes, chunk_start_position,
                 chunk_table_start_position, seekable, end, laszip, fields,
                 chunks, npoints>>

------------------------------------------------------------------------------
WriterNext ==
  \/ WriteInChunk
  \/ WriteCountWraps
  \/ DoneBetweenChunks
  \/ PutTablePosition
  \/ PutTable
  \/ \E b \in ChunkBytes :
       \/ WriteStartsChunk(b)
       \/ WriteFails(b)
       \/ Chunk(b)
       \/ ChunkFails(b)
       \/ DoneWithOpenChunk(b)
       \/ DoneFails(b)
       \/ DoneUnchunked(b)
  \/ \E kept \in 0 .. Len(chunks), ok \in 0 .. MaxPoints : Crash(kept, ok)
  \/ \E readable \in 0 .. Len(chunk_bytes) : CrashInTable(readable)

WriterSpec == WriterInit /\ [][WriterNext]_wvars

------------------------------------------------------------------------------
WriterTypeOK ==
  /\ phase \in {"open", "done", "tabling", "closed", "crashed"}
  /\ writers \in {"none", "raw", "compressed"}
  /\ enc \in {"none", "idle", "active"}
  /\ put \in Seq(ChunkRec) /\ Len(put) <= 1
  /\ chunk_size \in 1 .. U32MAX
  /\ chunk_count \in 0 .. chunk_size
  /\ number_chunks \in 0 .. U32MAX
  /\ alloced_chunks \in 0 .. U32MAX
  /\ chunk_sizes \in Seq(0 .. U32MAX)
  /\ chunk_bytes \in Seq(0 .. U32MAX)
  /\ chunk_start_position \in Nat
  /\ chunk_table_start_position \in Nat \cup {-1}
  /\ seekable \in BOOLEAN
  /\ end \in Nat
  /\ laszip \in Configs
  /\ fields \in [DOMAIN fields -> Nat \cup {-1}] /\ DOMAIN fields \subseteq Nat
  /\ chunks \in Seq(ChunkRec)
  /\ table \in TableRec \cup {NoTable}
  /\ npoints \in Nat

\* Chunks lie on the stream back to back, and so do the points in them: with
\* the open chunk they are the points accepted so far, each exactly once,
\* whatever mixture of full chunks, chunk() calls, failed allocations and
\* calls that are repeated closed them (write(), chunk(), done(),
\* add_chunk_to_table()), unless an encoder that is done is overdone.
ChunksPartitionPoints ==
  Compressed /\ phase # "crashed" =>
    /\ \A i \in DOMAIN chunks :
         /\ chunks[i].start = IF i = 1 THEN DataStart ELSE chunks[i-1].start + chunks[i-1].bytes
         /\ chunks[i].first = IF i = 1 THEN 0 ELSE chunks[i-1].first + chunks[i-1].count
    /\ npoints = PointsOnStream + OpenCount
    /\ put # <<>> => put = <<Intact(ChunksEnd, PointsOnStream, chunk_count, end - ChunksEnd)>>

\* Where a chunk, or the table behind the last one, begins, and with which point.
NextStart(i) == IF i < Len(chunks) THEN chunks[i + 1].start ELSE table.pos
NextFirst(i) == IF i < Len(chunks) THEN chunks[i + 1].first ELSE npoints

\* After done() the table has one entry for every chunk, and the entries lead
\* from the start of each chunk to that of the next (modulo 2^32) and, for
\* chunks of variable size, from its first point to that of the next, also
\* past layers that were put twice and points that were lost: what there is
\* of a chunk lies in between.  The table is found through the 8 bytes in
\* front of the chunks or, on a stream that cannot seek, through those behind
\* the table (write_chunk_table()).
TableDescribesChunks ==
  Chunked /\ phase = "closed" =>
    /\ Len(table.entries) = Len(chunks)
    /\ IF chunks = <<>> THEN table.pos = DataStart /\ npoints = 0
       ELSE chunks[1].start = DataStart /\ chunks[1].first = 0
    /\ \A i \in DOMAIN chunks :
         /\ table.entries[i].bytes = (NextStart(i) - chunks[i].start) % (U32MAX + 1)
         /\ Variable => table.entries[i].count = NextFirst(i) - chunks[i].first
         /\ chunks[i].start + chunks[i].bytes <= NextStart(i)
         /\ chunks[i].first + chunks[i].count <= NextFirst(i)
    /\ IF table.trailer THEN fields[Base] = -1 ELSE fields[Base] = table.pos

\* A chunk of fixed size is full unless it is the last one of a closed file,
\* which is not empty: seek() divides by the size and relies on it.
FixedChunksAreFull ==
  Chunked /\ ~Variable /\ phase # "crashed" =>
    \A i \in DOMAIN chunks :
      IF phase # "open" /\ i = Len(chunks)
      THEN chunks[i].count \in 1 .. chunk_size
      ELSE chunks[i].count = chunk_size

TableIsFound == IF fields[Base] = -1 THEN table.trailer ELSE fields[Base] = table.pos

\* A reader can tell an interrupted file: only when done() has returned is a
\* table found of which nothing is missing, wherever the process ended, also
\* between the 8 bytes and the table.  And unless the 8 bytes still hold their
\* own position, all the chunks are there to be read without the table.
InterruptionIsVisible ==
  Chunked =>
    /\ phase = "closed" <=>
         table # NoTable /\ TableIsFound /\ table.readable = Len(table.entries)
    /\ seekable /\ fields[Base] # Base =>
         /\ Len(chunks) = number_chunks
         /\ \A i \in DOMAIN chunks : chunks[i].ok = chunks[i].count
==============================================================================
