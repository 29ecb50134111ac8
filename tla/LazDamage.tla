------------------------------- MODULE LazDamage -------------------------------
(***************************************************************************)
(* LASreadPoint on damaged files: chunks that cannot be decoded or decode  *)
(* to something else, chunk tables torn, lost or never written, streams    *)
(* that cannot seek.  The caller goes on reading after a failed call.      *)
(***************************************************************************)
EXTENDS LasReadPoint, FiniteSets

CONSTANTS
  Shapes,       \* the files: laszip record, points and bytes per chunk, chunks damaged
  Extra         \* calls a caller makes beyond one for every point

VARIABLES
  origin,       \* point from which the caller reads on without seeking
  seen,         \* points returned since
  calls         \* read() calls since

dvars == <<file, rvars, origin, seen, calls>>

------------------------------------------------------------------------------
Sound == [fault |-> "none", ok |-> 0]

\* A chunk of n points that fails, or slips away, after some of them.
Damages(n, tail) ==
  [fault : {"throw", "memory"}, ok : 0 .. n - 1] \cup [fault : {"slip"}, ok : 0 .. n]
    \cup IF tail THEN [fault : {"eof"}, ok : 0 .. n - 1] ELSE {}

\* The sums of all earlier elements of a sequence, and last of them all.
Sums(ns) ==
  LET sum[c \in 1 .. Len(ns) + 1] == IF c = 1 THEN 0 ELSE sum[c-1] + ns[c-1]
  IN sum

\* The chunks of a file; only in the last one can the stream end early.
DamagedChunks(shape, truncated) ==
  LET n == Len(shape.counts)
      All == UNION { Damages(shape.counts[c], TRUE) : c \in 1 .. n } \cup {Sound}
      Hits == { d \in [1 .. n -> All] :
                  LET hit == { c \in 1 .. n : d[c] # Sound } IN
                  /\ \A c \in hit : d[c] \in Damages(shape.counts[c], truncated /\ c = n)
                  /\ Cardinality(hit) <= shape.hits }
  IN { [c \in 1 .. n |->
          [start |-> DataStart + Sums(shape.bytes)[c], bytes |-> shape.bytes[c],
           first |-> Sums(shape.counts)[c], count |-> shape.counts[c],
           ok |-> IF d[c] = Sound THEN shape.counts[c] ELSE d[c].ok,
           fault |-> d[c].fault]] : d \in Hits }

TableOf(shape, readable) ==
  LET n == Len(shape.counts)
  IN [pos |-> DataStart + Sums(shape.bytes)[n + 1], readable |-> readable, trailer |-> FALSE,
      entries |-> [c \in 1 .. n |->
        [bytes |-> shape.bytes[c],
         count |-> IF SetupChunkSize = U32MAX THEN shape.counts[c] ELSE 0]]]

\* A table that is there, torn after some entries, lost, or never written.
DamagedInit ==
  /\ \E shape \in Shapes : LET n == Len(shape.counts) IN
       /\ laszip = shape.laszip
       /\ npoints = Sums(shape.counts)[n + 1]
       /\ \/ /\ table \in { TableOf(shape, m) : m \in 0 .. n }
             /\ fields = [p \in {Base} |-> table.pos]
             /\ chunks \in DamagedChunks(shape, FALSE)
          \/ /\ table = NoTable
             /\ \E q \in {Base, TableOf(shape, 0).pos} : fields = [p \in {Base} |-> q]
             /\ chunks \in DamagedChunks(shape, TRUE)
  /\ ReaderInit
  /\ origin = 0 /\ seen = {} /\ calls = 0

ReadOn ==
  /\ calls < npoints + Extra
  /\ Read
  /\ calls' = calls + 1
  /\ seen' = IF result'.ok THEN seen \cup {result'.point} ELSE seen
  /\ UNCHANGED <<file, origin>>

SeekOn(index) ==
  /\ Seek(index)
  /\ origin' = IF result'.ok THEN index ELSE npoints
  /\ seen' = {} /\ calls' = 0
  /\ UNCHANGED file

SkipOn ==
  /\ SkipPoint
  /\ origin' = IF result'.ok THEN origin ELSE npoints
  /\ UNCHANGED <<file, seen, calls>>

DamagedNext == ReadOn \/ SkipOn \/ \E index \in 0 .. npoints : SeekOn(index)

DamagedSpec == DamagedInit /\ [][DamagedNext]_dvars

------------------------------------------------------------------------------
Variable == SetupChunkSize = U32MAX

\* The entries of the table up to the first that cannot be read or is no size.
GoodEntries ==
  { c \in 1 .. table.readable : \A d \in 1 .. c : AsI32(table.entries[d].bytes) > 0 }

\* The chunks whose starts are known before any point is read: those with a good
\* entry, and the one behind them.
Known ==
  IF table = NoTable \/ ~in_seekable THEN IF Variable THEN 0 ELSE 1
  ELSE IF ~Variable \/ GoodEntries = DOMAIN table.entries THEN Cardinality(GoodEntries) + 1
  ELSE 0

Damaged(c) == chunks[c].fault # "none"

\* Damage is got over if the start of the next chunk is known.
Reachable(c) == Known > 0 /\ ~ \E d \in 1 .. c - 1 : Damaged(d) /\ d >= Known

ReaderTypeOK ==
  /\ reader.readers \in {"none", "raw", "compressed"}
  /\ reader.chunk_size \in 0 .. U32MAX
  /\ reader.chunk_count \in 0 .. U32MAX
  /\ reader.current_chunk \in 0 .. U32MAX
  /\ reader.number_chunks \in 0 .. U32MAX
  /\ DOMAIN reader.chunk_starts = 0 .. reader.tabled_chunks - 1
  /\ reader.tabled_chunks \in 0 .. reader.number_chunks + 1
  /\ p_count \in 0 .. npoints
  /\ seen \subseteq -1 .. npoints - 1

\* Every chunk start in the table, read from the file or entered while reading,
\* is where a chunk begins, whatever was damaged before it, unless damage came
\* up behind which no start is known (read_chunk_table(), read()).
ChunkStartsAreTrue ==
  \A c \in 1 .. Len(chunks) :
    Reachable(c) /\ c <= reader.tabled_chunks => reader.chunk_starts[c-1] = chunks[c].start

\* What the table says of the chunks before the first bad entry is kept (the
\* handler of read_chunk_table() fixes as many chunk starts as possible).
StartsBeforeBadEntryAreTrue ==
  \A c \in 1 .. Len(chunks) :
    c <= Known /\ c <= reader.tabled_chunks => reader.chunk_starts[c-1] = chunks[c].start

\* A point read successfully is the one that current_chunk and chunk_count say
\* it is; anything else comes only out of a damaged chunk, from behind one with
\* no known successor, or from behind the last chunk.
PointsAreWhereTheyAreCounted ==
  calls > 0 /\ result.ok =>
    LET c == reader.current_chunk + 1 IN
    c <= Len(chunks) /\ Reachable(c) =>
      \/ result.point = chunks[c].first + reader.chunk_count - 1
      \/ result.point = Garbage /\ (Damaged(c) \/ reader.chunk_count > chunks[c].count)

\* Reading on after failures never returns a point twice or goes back
\* (the handler of decoding errors in read(), the check against the table).
PointsAscend ==
  [][\A p \in seen : calls' > calls /\ result'.ok /\ result'.point # Garbage => p < result'.point]_dvars

\* Damage costs no point outside of its chunk: when the caller has made a call
\* for every point, and one more for every damaged chunk, it has got them all.
IntactChunksAreRecovered ==
  delta = 0 /\ (calls = npoints + Extra \/ p_count = npoints) =>
    \A c \in 1 .. Len(chunks) : Reachable(c) =>
      \A k \in 0 .. chunks[c].ok - 1 :
        chunks[c].first + k >= origin => chunks[c].first + k \in seen

\* The point read after a successful seek is the one that was sought, or comes
\* out of a damaged chunk (laszip_seek_point()).
SeekLandsOnTarget ==
  calls = 1 /\ result.ok /\ origin < npoints /\ (\A c \in 1 .. Len(chunks) : Reachable(c)) =>
    result.point \in {origin, Garbage}
==============================================================================
