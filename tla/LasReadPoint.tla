----------------------------- MODULE LasReadPoint -----------------------------
(***************************************************************************)
(* LASreadPoint over a file as LazFile describes it: sequential reads, the *)
(* lazily read chunk table, seeks, and what it does when the table or a    *)
(* chunk is missing, torn or corrupt.  The object is the record "reader",  *)
(* and its methods are operators from one such record to the next.  The    *)
(* caller is the DLL, whose p_count is the index of the next point.        *)
(* ("Fault:" as in LasWritePoint.)                                         *)
(***************************************************************************)
EXTENDS LazFile

CONSTANTS
  GrowBy,            \* chunk starts allocated at a time (256)
  MaxTaken,          \* bound: points taken from a stream without chunks
  AfterFailure       \* the calls, read or seek, still made after one has failed

ASSUME ReaderAssumption ==
  /\ GrowBy \in 1 .. U32MAX
  /\ MaxTaken \in Nat
  /\ AfterFailure \subseteq {"read", "seek"}

VARIABLES
  reader,        \* the LASreadPoint object and the stream it reads
  in_seekable,   \* instream->isSeekable()
  p_count,       \* the caller's count of points
  target,        \* where seek() is going
  delta,         \* points seek() still has to read; 0 outside of seek()
  result,        \* what the last finished call returned
  failed         \* whether a call has failed since the file was opened

rvars == <<reader, in_seekable, p_count, target, delta, result, failed>>

Garbage == -1    \* the point decoded from what is not a chunk
Nowhere == -2    \* tell() somewhere inside of what is not a chunk
AtEOF   == -3    \* tell() behind the last byte

Null == [i \in {} |-> 0]

------------------------------------------------------------------------------
(* setup() and init() *)

NewReader ==
  [readers |-> IF Compressed THEN "none" ELSE "raw",
   chunk_size |-> SetupChunkSize,
   chunk_count |-> IF Compressed THEN SetupChunkSize ELSE 0,
   current_chunk |-> 0,
   number_chunks |-> IF Chunked THEN U32MAX ELSE 0,
   tabled_chunks |-> 0,
   chunk_starts |-> Null,
   chunk_totals |-> Null,
   point_start |-> IF Compressed THEN 0 ELSE Base,
   here |-> Base,                  \* instream->tell()
   chunk |-> 0, decoded |-> 0]     \* chunk being decoded, points taken from it

Failed(r) == [ok |-> FALSE, r |-> r, point |-> Garbage]
Succeeds(r) == [ok |-> TRUE, r |-> r, point |-> Garbage]

\* The next step of a method, unless the one before has failed.
Then(out, Step(_)) == IF out.ok THEN Step(out.r) ELSE out

------------------------------------------------------------------------------
(* read_chunk_table() *)

\* decompress() returns an I32, which the I64 and U64 tables extend with its sign.
AsI32(n) == IF n > U32MAX \div 2 THEN n - (U32MAX + 1) ELSE n

\* Fault: the first entry is left out of the sums.
SumFromOne(f, m) ==
  LET s[i \in DOMAIN f] == IF i <= 1 \/ i > m THEN f[i] ELSE s[i-1] + f[i]
  IN s

\* The running sums over entries 0 .. m of f, the rest as it is.
SumUpTo(f, m) ==
  LET s[i \in DOMAIN f] == IF i = 0 \/ i > m THEN f[i] ELSE s[i-1] + f[i]
  IN s

\* No usable table: the chunks are tabled as they are read, from the first.
TableWhileReading(r, chunks_start) ==
  Succeeds([r EXCEPT !.number_chunks = GrowBy, !.tabled_chunks = 1,
                     !.chunk_starts = [i \in {0} |-> chunks_start],
                     !.here = chunks_start])

DecodeTable(r, chunks_start) ==
  LET variable == r.chunk_size = U32MAX
      entries  == table.entries
      decoded  == table.readable
      starts   == [i \in 0 .. decoded |->
                     IF i = 0 THEN chunks_start ELSE AsI32(entries[i].bytes)]
      totals   == [i \in 0 .. decoded |-> IF i = 0 THEN 0 ELSE AsI32(entries[i].count)]
      complete == decoded = Len(entries)
      bad      == IF complete THEN {i \in 1 .. decoded : starts[i] <= 0} ELSE {}
      \* the sums are taken up to the first entry that does not ascend ...
      summed   == IF bad # {} THEN CHOOSE i \in bad : \A j \in bad : i <= j
                  ELSE IF complete THEN decoded ELSE 0
      tabled   == [r EXCEPT !.number_chunks = Len(entries), !.tabled_chunks = decoded + 1,
                            !.chunk_starts = SumUpTo(starts, summed),
                            !.here = chunks_start]
  IN IF complete /\ bad = {}
     THEN Succeeds([tabled EXCEPT !.chunk_totals =
                      IF variable THEN SumUpTo(totals, decoded) ELSE Null])
     ELSE IF variable THEN Failed([tabled EXCEPT !.here = Nowhere])
     \* ... and the handler of the exception takes the sums over all of them.
     ELSE Succeeds([tabled EXCEPT !.chunk_starts = SumUpTo(@, decoded)])

ReadChunkTable(r) ==
  LET variable     == r.chunk_size = U32MAX
      position     == fields[r.here]
      chunks_start == r.here + FieldBytes
      interrupted  == position + FieldBytes = chunks_start
      found        == /\ table # NoTable
                      /\ IF position = -1 THEN table.trailer ELSE position = table.pos
      lost         == [r EXCEPT !.here = Nowhere]
  IN IF r.here \notin DOMAIN fields THEN Failed(lost)
     ELSE IF interrupted
     THEN IF variable THEN Failed([r EXCEPT !.here = chunks_start])
          ELSE TableWhileReading(r, chunks_start)
     ELSE IF ~in_seekable
     THEN IF variable THEN Failed([r EXCEPT !.here = chunks_start])
          ELSE Succeeds([r EXCEPT !.number_chunks = 0, !.tabled_chunks = 0,
                                  !.here = chunks_start])
     ELSE IF found THEN DecodeTable(r, chunks_start)
     ELSE IF variable THEN Failed(lost)
     ELSE TableWhileReading(r, chunks_start)

InitDec(r) ==
  LET Located(s) == Succeeds([s EXCEPT !.point_start = s.here, !.readers = "none"])
      First(s) == Located([s EXCEPT !.current_chunk = 0,
                             !.chunk_size = IF s.chunk_totals = Null THEN @
                                            ELSE IF s.number_chunks = 0 THEN 0
                                            ELSE s.chunk_totals[1]])
  IN IF r.number_chunks # U32MAX THEN Located(r) ELSE Then(ReadChunkTable(r), First)

------------------------------------------------------------------------------
(* read() *)

\* The chunk the decoder works on and how many points it took of it: the
\* first point of a chunk is read raw where the stream stands.
ChunkHere(r) ==
  IF r.readers = "none"
  THEN IF \E c \in DOMAIN chunks : chunks[c].start = r.here
       THEN CHOOSE c \in DOMAIN chunks : chunks[c].start = r.here
       ELSE 0
  ELSE r.chunk

DecodedHere(r) == IF r.readers = "none" THEN 0 ELSE r.decoded

\* What the item readers meet at the point the caller asks for.  Bytes that
\* are no chunk may decode to anything or be refused, as "luck" has it.
Meets(r, luck) ==
  LET c == ChunkHere(r)
      k == DecodedHere(r)
  IN IF c # 0 /\ k < chunks[c].ok THEN "point"
     ELSE IF c # 0 /\ k < chunks[c].count THEN chunks[c].fault
     ELSE IF r.here = AtEOF \/ (table = NoTable /\ r.here # Nowhere) THEN "eof"
     ELSE luck

\* Where decoding one more point leaves the stream: where the chunk ends if
\* that was its last point, otherwise somewhere inside of it.
HereAfter(c, k) ==
  IF k < chunks[c].count THEN chunks[c].start + 1
  ELSE IF chunks[c].fault = "slip" THEN Nowhere
  ELSE chunks[c].start + chunks[c].bytes

DecodePoint(r) ==
  LET c == ChunkHere(r)
      k == DecodedHere(r)
  IN [ok |-> TRUE, point |-> chunks[c].first + k,
      r |-> [r EXCEPT !.readers = "compressed", !.chunk = c, !.decoded = k + 1,
                      !.here = HereAfter(c, k + 1)]]

DecodeGarbage(r) ==
  Succeeds([r EXCEPT !.readers = "compressed", !.chunk = 0, !.here = Nowhere])

\* Faults: the handler needs the start of one chunk more, or goes back.
CorruptNeedsMore(r) ==
  Failed(IF r.current_chunk + 2 < r.tabled_chunks
         THEN [r EXCEPT !.here = r.chunk_starts[r.current_chunk + 1],
                        !.chunk_count = r.chunk_size]
         ELSE [r EXCEPT !.here = Nowhere, !.chunk = 0])

CorruptGoesBack(r) ==
  Failed(IF r.current_chunk + 1 < r.tabled_chunks
         THEN [r EXCEPT !.here = r.chunk_starts[r.current_chunk], !.readers = "none"]
         ELSE [r EXCEPT !.here = Nowhere, !.chunk = 0])

\* The handler of a decoding error: on to the next chunk, if its start is tabled.
Corrupt(r) ==
  Failed(IF r.current_chunk + 1 < r.tabled_chunks
         THEN [r EXCEPT !.here = r.chunk_starts[r.current_chunk + 1],
                        !.chunk_count = r.chunk_size]
         ELSE [r EXCEPT !.here = Nowhere, !.chunk = 0])

\* The item readers take one point; chunk_count has been incremented.
TakePoint(r, luck) ==
  LET meets == Meets(r, luck)
  IN IF meets = "point"      THEN DecodePoint(r)
     ELSE IF meets = "eof"   THEN Failed([r EXCEPT !.here = AtEOF])
     ELSE IF meets = "throw" THEN Corrupt(r)
     ELSE IF meets = "memory" THEN Failed([r EXCEPT !.here = Nowhere])
     ELSE DecodeGarbage(r)

\* Fault: more starts are tabled than there is room for.
GrowNever(r) == Succeeds(r)

\* Room for another chunk start.
Grow(r) ==
  IF r.current_chunk < r.number_chunks THEN Succeeds(r)
  ELSE LET more == IF r.number_chunks + GrowBy > U32MAX THEN U32MAX
                   ELSE r.number_chunks + GrowBy
       IN IF more = r.number_chunks THEN Failed(r)
          ELSE Succeeds([r EXCEPT !.number_chunks = more])

\* A chunk is entered in which no point has been read: its start is tabled if
\* the table did not have it, or its size looked up if sizes vary.
TableStart(r) ==
  Succeeds([r EXCEPT !.tabled_chunks = @ + 1, !.chunk_count = 0,
                     !.chunk_starts = [c \in DOMAIN @ \cup {r.tabled_chunks} |->
                        IF c = r.tabled_chunks THEN r.point_start ELSE @[c]]])

\* Fault: the size of the chunk before is kept.
OpenChunkKeepsSize(r) ==
  IF r.current_chunk = r.tabled_chunks
  THEN Then(Grow(r), TableStart)
  ELSE Succeeds([r EXCEPT !.chunk_count = 0])

OpenChunk(r) ==
  LET at   == r.current_chunk
      size == IF at < r.number_chunks
              THEN r.chunk_totals[at + 1] - r.chunk_totals[at] ELSE 0
  IN IF at = r.tabled_chunks
     THEN Then(Grow(r), TableStart)
     ELSE Succeeds([r EXCEPT !.chunk_size = IF r.chunk_totals = Null THEN @ ELSE size,
                             !.chunk_count = 0])

\* Fault: where the chunk before ended is not compared with the table.
ReadCompressedUnchecked(r, luck) ==
  LET boundary == r.chunk_count = r.chunk_size
      next     == IF boundary /\ r.point_start # 0 THEN [r EXCEPT !.current_chunk = @ + 1] ELSE r
      Take(s)  == TakePoint([s EXCEPT !.chunk_count = @ + 1], luck)
      Enter(s) == Then(OpenChunk(s), Take)
  IN IF boundary THEN Then(InitDec(next), Enter) ELSE Take(r)

\* read() of compressed points.
ReadCompressed(r, luck) ==
  LET boundary  == r.chunk_count = r.chunk_size
      turned    == boundary /\ r.point_start # 0
      next      == IF turned THEN [r EXCEPT !.current_chunk = @ + 1] ELSE r
      misplaced == /\ turned
                   /\ next.current_chunk < r.tabled_chunks
                   /\ r.chunk_starts[next.current_chunk] # r.here
      Take(s)   == TakePoint([s EXCEPT !.chunk_count = @ + 1], luck)
      Enter(s)  == Then(OpenChunk(s), Take)
  IN IF misplaced THEN Corrupt(r)
     ELSE IF boundary THEN Then(InitDec(next), Enter)
     ELSE Take(r)

\* Uncompressed points lie one behind the other, each of one unit of bytes.
ReadRaw(r) ==
  IF r.here < Base + npoints
  THEN [ok |-> TRUE, point |-> r.here - Base, r |-> [r EXCEPT !.here = @ + 1]]
  ELSE Failed(r)

ReadPoint(r, luck) == IF Compressed THEN ReadCompressed(r, luck) ELSE ReadRaw(r)

------------------------------------------------------------------------------
(* seek(): brings the stream to a chunk and leaves points to skip.         *)

Skipping(outcome, n) == [ok |-> outcome.ok, r |-> outcome.r, skip |-> n]

\* search_chunk_table(): the last chunk that does not start behind the index.
SearchChunkTable(totals, index, number) ==
  CHOOSE c \in 0 .. number - 1 :
    /\ totals[c] <= index \/ c = 0
    /\ index < totals[c + 1] \/ c = number - 1

\* Fault: the count of points is that of the chunk left behind.
RestartKeepsCount(r, c) == InitDec([r EXCEPT !.current_chunk = c, !.here = r.chunk_starts[c]])

Restart(r, c) ==
  LET i == InitDec([r EXCEPT !.current_chunk = c, !.here = r.chunk_starts[c]])
  IN [i EXCEPT !.r.chunk_count = 0]

SeekInTable(r, current, index) ==
  LET totals == r.chunk_totals
      goal   == IF totals # Null THEN SearchChunkTable(totals, index, r.number_chunks)
                ELSE index \div r.chunk_size
      inside == IF totals # Null THEN index - totals[goal] ELSE index % r.chunk_size
      sized  == IF totals # Null
                THEN [r EXCEPT !.chunk_size = totals[goal + 1] - totals[goal]] ELSE r
      last   == r.tabled_chunks - 1
      onLast == IF r.current_chunk < last THEN Restart(sized, last) ELSE Succeeds(sized)
  IN IF totals # Null /\ r.number_chunks = 0 THEN Skipping(Failed(r), 0)
     ELSE IF goal >= r.tabled_chunks
     THEN Skipping(onLast, inside
            + sized.chunk_size * (goal - onLast.r.current_chunk) - onLast.r.chunk_count)
     ELSE IF r.current_chunk # goal \/ current > index
     THEN Skipping(Restart(sized, goal), inside)
     ELSE Skipping(Succeeds(sized), index - current)

SeekWithoutTable(r, current, index) ==
  IF current > index
  THEN Skipping(InitDec([r EXCEPT !.here = r.point_start]), index)
  ELSE Skipping(Succeeds(r), index - current)

SeekCompressed(r, current, index) ==
  LET i == IF r.point_start = 0 THEN InitDec(r) ELSE Succeeds(r)
      s == IF r.point_start = 0 THEN [i.r EXCEPT !.chunk_count = 0] ELSE r
  IN IF ~i.ok THEN Skipping(i, 0)
     ELSE IF s.chunk_starts # Null THEN SeekInTable(s, current, index)
     ELSE SeekWithoutTable(s, current, index)

SeekRaw(r, current, index) ==
  Skipping(Succeeds(IF current = index THEN r ELSE [r EXCEPT !.here = Base + index]), 0)

SeekTo(r, current, index) ==
  IF ~in_seekable THEN Skipping(Failed(r), 0)
  ELSE IF Compressed THEN SeekCompressed(r, current, index)
  ELSE SeekRaw(r, current, index)

------------------------------------------------------------------------------
(* The caller: laszip_read_point() and laszip_seek_point().                *)

Luck == {"garbage", "throw", "eof"}

\* The caller makes another call.  (A stream without chunks is not rewound
\* between points, and its count not reset: it must not reach U32MAX.)
MayCall(op) ==
  /\ delta = 0
  /\ failed => op \in AfterFailure
  /\ reader.point_start # 0 /\ reader.chunk_size = U32MAX => reader.chunk_count <= MaxTaken

Sought(ok) == [op |-> "seek", ok |-> ok, point |-> Garbage]

ReaderInit ==
  /\ reader = NewReader
  /\ in_seekable \in BOOLEAN
  /\ p_count = 0
  /\ target = 0
  /\ delta = 0
  /\ result = [op |-> "open", ok |-> TRUE, point |-> Garbage]
  /\ failed = FALSE

Read ==
  /\ MayCall("read") /\ p_count < npoints
  /\ \E out \in {ReadPoint(reader, luck) : luck \in Luck} :
       /\ reader' = out.r
       /\ p_count' = IF out.ok THEN p_count + 1 ELSE p_count
       /\ result' = [op |-> "read", ok |-> out.ok, point |-> out.point]
       /\ failed' = (failed \/ ~out.ok)
  /\ UNCHANGED <<in_seekable, target, delta>>

Seek(index) ==
  /\ MayCall("seek")
  /\ \E out \in {SeekTo(reader, p_count, index)} :
       /\ reader' = out.r
       /\ delta' = IF out.ok THEN out.skip ELSE 0
       /\ p_count' = IF out.ok /\ out.skip = 0 THEN index ELSE p_count
       /\ result' = IF out.ok /\ out.skip > 0 THEN result ELSE Sought(out.ok)
       /\ failed' = (failed \/ ~out.ok)
  /\ target' = index
  /\ UNCHANGED in_seekable

\* Fault: the caller's count stays where it was.
SkipPointUncounted ==
  /\ delta > 0
  /\ \E out \in {ReadPoint(reader, luck) : luck \in Luck} :
       /\ reader' = out.r
       /\ delta' = IF out.ok THEN delta - 1 ELSE 0
       /\ result' = IF out.ok /\ delta > 1 THEN result ELSE Sought(out.ok)
       /\ failed' = (failed \/ ~out.ok)
  /\ UNCHANGED <<in_seekable, target, p_count>>

\* One turn of the loop in seek(); the caller takes over the index at its end.
SkipPoint ==
  /\ delta > 0
  /\ \E out \in {ReadPoint(reader, luck) : luck \in Luck} :
       /\ reader' = out.r
       /\ delta' = IF out.ok THEN delta - 1 ELSE 0
       /\ p_count' = IF out.ok /\ delta = 1 THEN target ELSE p_count
       /\ result' = IF out.ok /\ delta > 1 THEN result ELSE Sought(out.ok)
       /\ failed' = (failed \/ ~out.ok)
  /\ UNCHANGED <<in_seekable, target>>

ReaderNext ==
  \/ Read
  \/ \E index \in 0 .. npoints : Seek(index)
  \/ SkipPoint
==============================================================================
