# LASzip in TLA+

A specification of the LASzip library (`src/src`, `src/dll`), model-checked with
TLC and proved in part with TLAPS. Names of variables and operators are those of
the source wherever TLA+ allows it. `PROJECT.json` maps every definition to the
lines it stands for.

## 1. The system

A LAZ file is a LAS header with variable length records (VLRs), one of which is
the *LASzip record* that says how points are compressed; then the *point block*:
8 bytes with the position of the chunk table, chunks of compressed points, the
chunk table. Points are read in order or sought by index.

| component | source | state | operations | talks to |
|---|---|---|---|---|
| chunk layer, writer | `laswritepoint.cpp` | counts, chunk sizes, stream positions | `setup`, `init`, `write`, `chunk`, `done` | items, encoder, byte stream |
| chunk layer, reader | `lasreadpoint.cpp` | chunk starts and totals, current chunk, count in it | `setup`, `init`, `seek`, `read`, `done` | items, decoder, byte stream |
| LASzipper, LASunzipper | `laszipper.cpp`, `lasunzipper.cpp` | count, stream | thin wrappers | chunk layer |
| arithmetic coder | `arithmetic*.cpp` | interval, ring of output bytes, adaptive models | `encode*`, `write*`, `done`, and inverses | byte stream |
| integer compressor | `integercompressor.cpp` | models per context | `compress`, `decompress` | coder |
| items v1, v2 | `las*itemcompressed_v[12].cpp` | last point, medians | `init`, `write`, `read` | integer compressor, coder |
| items v3, v4 (layered) | `las*itemcompressed_v[34].cpp` | four contexts, one stream per layer, changed flags | `init`, `write`, `read`, `chunk_sizes`, `chunk_bytes` | as above |
| LASzip record | `laszip.cpp` | compressor, items, versions, chunk size | `setup`, `check`, `pack`, `unpack` | DLL |
| DLL | `laszip_dll.cpp` | header, point, attributer, inventory, reader or writer | about 60 functions | all of the above |
| spatial index | `lasindex.cpp`, `lasinterval.cpp`, `lasquadtree.cpp` | cells and intervals of point indices | `add`, `complete`, `intersect`, `seek_next`, `read`, `write` | DLL |
| byte streams | `bytestream*.hpp` | buffer, position | `get*`, `put*`, `seek`, `tell` | operating system |
| extra byte attributes | `lasattributer.hpp` | descriptors, offsets | `add`, `remove`, lookups | DLL |

Nothing in the library runs concurrently. What is hard in it:

- **order of calls and partial failure**: the writer puts a chunk, tables it and
  goes on; each step may fail and the caller may call again, stop, or crash;
- **interrupted and damaged files**: the reader goes on without a table, with a torn
  one, and past chunks that cannot be decoded;
- **counts kept in two places**: of the current point in its chunk, of the chunk in the table,
  and of the point in the file (`p_count` in the DLL);
- **widths**: counts are U32 with sentinels, entries are decoded as I32, sums wrap;
- **encoder and decoder in step**: one model updated differently, one byte too few or
  many, and the rest of a chunk is lost.

What makes each component correct:

- writer: the chunks partition the points; the table describes them; a file
  that is not finished can be told from one that is;
- reader: it is a store of points (`PointStore`), on finished and on
  interrupted files; damage stays in its chunk; seeks arrive;
- coder: what is decoded is what was encoded, and the decoder stops at the last byte;
- integer compressor: what is decompressed is what was compressed, at every edge
  of the range, with codes that fit the models;
- items: the reader predicts what the writer predicted; an unchanged layer is not
  stored and reads as unchanged; deselected layers keep the fields;
- LASzip record: the items that `setup` makes pass `check` with the length of the
  points in the header;
- DLL: the header says where the points are and how they are coded, in whatever
  order VLRs, attributes and user data came and went; what is converted to
  compatibility mode is converted back to what it was; counts and box are those of the points;
- spatial index: whatever its intervals merged, reading by it returns exactly the points
  inside, and comes to an end.

## 2. Modules

| module | models | lines |
|---|---|---|
| `PointStore` | the abstract specification: an ordered store of points | – |
| `LazFile` | the point block on the stream: positions, chunks, table | shared by writer and reader |
| `LasWritePoint` | `LASwritePoint`, one action per call and outcome | `laswritepoint.cpp` |
| `LasReadPoint` | `LASreadPoint` and the DLL's `p_count` | `lasreadpoint.cpp`, `laszip_dll.cpp:4864-4969` |
| `LazRoundTrip` | a writer, then a reader on what it left; refines `PointStore` | composition |
| `LazDamage` | a reader on damaged files | composition with an environment |
| `ArithmeticModel` | bit and symbol models | `arithmeticmodel.cpp` |
| `ArithmeticCoder` | encoder and decoder over one stream | `arithmeticencoder.cpp`, `arithmeticdecoder.cpp` |
| `IntegerFolding` | differences folded into a range | `integercompressor.cpp:264-327` |
| `IntegerCompressor` | correctors as codes, through a queue | `integercompressor.cpp` |
| `SymbolStream` | the coder as the items see it: a queue of symbols under models | how items call it |
| `ReturnContexts` | contexts of coordinates by return, medians of the last differences | `laszip_common_v[23].hpp` and the items |
| `GpsSequences` | GPS times in up to four sequences | v2, v3 and v4 of GPSTIME11 and POINT14 |
| `ColourBytes` | colours, byte by byte | v2, v3 and v4 of RGB |
| `WavePackets` | offsets of wave packets | all versions |
| `ItemsV1`, `ItemsV2` | the item compressors that share a stream | `las*itemcompressed_v[12].cpp` |
| `LayeredCodecs` | contexts, layers and the coding that v3 and v4 share | `las*itemcompressed_v[34].cpp` |
| `LayeredWriter3`, `LayeredWriter4`, `LayeredReader3`, `LayeredReader4` | the classes of each file, function by function | the same |
| `PointItems` | a writer, the chunks it makes, a reader that seeks and leaves layers out | composition, with `las{write,read}point.cpp` |
| `LaszipHeader` | header, VLRs, attributes, LASzip items, conversion to compatibility mode and back | `laszip_dll.cpp`, `laszip.cpp`, `lasattributer.hpp` |
| `CompatiblePoints` | raw POINT10 and POINT14, recoding of points for compatibility mode | `laszip_dll.cpp`, `las*itemraw.hpp` |
| `SpatialIndex` | quadtree, intervals, index | `lasquadtree.cpp`, `lasinterval.cpp`, `lasindex.cpp` |
| `LaszipDll` | the object: a writer, then a reader, with its caller | `laszip_dll.cpp` |
| `LasWritePointProofs`, `LazRoundTripProofs` | proofs about the chunk layer: the writer, then writer and reader | – |
| `ArithmeticCoderProofs`, `IntegerFoldingProofs`, `IntegerCompressorProofs` | proofs about the coder and the integer compressor | – |
| `LaszipHeaderProofs`, `LaszipDllProofs` | proofs about headers, VLRs and items; about the DLL | – |
| `Induction` | induction over numbers, for the proofs | – |
| `MC*` | sets given to constants by the `.cfg` files | – |

### Chunk layer

Points are their indices and chunk contents their number of bytes: the coder may
give a chunk any size of `ChunkBytes`. Positions, counts, allocations and the
wrapping of counts are those of the code.

*Writer.* `WriteInChunk`, `WriteStartsChunk`, `WriteFails` are `write()` in a chunk,
at its beginning (after closing the one before), and with a failed allocation;
`Chunk`, `ChunkFails` are `chunk()`; `DoneWithOpenChunk`, `DoneBetweenChunks`,
`DoneUnchunked`, `DoneFails` are `done()`. With a chunk table `done()` goes on, alone, with
`PutTablePosition` (back to the 8 bytes in front of the chunks, and to the end again) and `PutTable`.

A call that closes a chunk and cannot table it (`AddChunkFails`) has put the chunk already and its encoder is
done; `put` is the chunk on the stream that has no entry yet. The next call may close the chunk
again. Without layers that puts nothing more, and the chunk is tabled as it is. With layers the code puts count, sizes and
layers a second time: bytes that the entry covers and no chunk owns. And points written
after the failure go into an encoder without a stream and are lost: `write()` returns TRUE, the entry counts them, and they
are in no chunk. `Overdo` says whether the caller does such things, to which the
code has no objection; `MaxOpenBytes` bounds what is put for a chunk that cannot be tabled.

`Crash` ends the process before the table is begun: of the bytes
put so far any prefix has reached the disk, chunk by chunk, the last one possibly torn
(`NextChunk`, `Cut`). `CrashInTable` ends it between the 8 bytes and the table or within the table; by
then `seek()` has flushed the chunks, if the stream can seek.

*Reader.* The object is one record; its methods are operators from record to
outcome, so that an exception is an outcome that is not `ok` and every handler
is an operator. `Read` and `Seek` are the DLL's calls; `seek()`'s loop over points to
skip is an action per turn (`SkipPoint`), during which nothing else is enabled.
A chunk decodes up to its `ok` points and then shows its `fault`:
end of stream, exception, failed allocation, or nothing at all but a decoder
that ends elsewhere (`slip`).

`LazRoundTrip` maps to `PointStore` by what can be read back: all points of a
finished file, those of the chunks on disk of an interrupted one, none where
chunks of variable size have no table.

### Coder

Widths are constants: a U32 is four digits to the base `Radix`, `BMUnit`, `DMUnit`
and `Scale` stand for 2^13, 2^15 and 2^31, `BufferSize` for half of the ring of
output bytes. An action is a call of the encoder (`Encode`), a turn of the
renormalization loop, `done()` (`Done`, then the loop, then `Flushed` in `Open`),
a call of the decoder, or a turn of its loop. The decoder starts from
new models and is asked for the same kinds of codes as were written.

`overrun` records that a carry came to bytes that had been put out already. The code has no
guard against it; it needs 4096 bytes of 0xFF in a row (two in the
run), and the properties are stated for the other executions.

### Integer compressor

`Fold` and `Unfold` are the arithmetic on I32 that wraps, and `WriteCorrector` and
`ReadCorrector` the split of a corrector into size, high bits and low bits. The coder is
a queue of codes with the alphabets they are coded with; that
a queue is what the coder is, `ArithmeticCoder` shows. Ranges reach half an I32:
the source's own are 2^8, 2^16 and all 32 bits.

### Items

A point is a function from its item types to items, an item a record (or sequence) of the fields
that are coded apart. `SymbolStream` is the interface of the two components above: `Put` and
`Compress` append a symbol under the name of its model, or an integer's distance from its prediction under
that of its context, and a decoder that asks (`Ask`, `Decompress`) under another name is out of step. Model names are the source's
variables with their indices, so that writer and reader agree exactly if every choice of
a context does. `Fit` is 2^31: differences below it are integers, others are coded raw.

*Versions 1 and 2* (`ItemsV1`, `ItemsV2`): per item `WriterInit…`, `Write…`, `ReaderInit…`,
`Read…`, translated from the two files one by one. All items share one stream, so that an
item that takes a symbol too many breaks the next one.

*Versions 3 and 4*: `LayeredWriter3` to `LayeredReader4` have one definition for each
function of each class: constructor (`…_new`), destructor, `createAndInitModelsAndCompressors`
(`…_create`), `init`, `write` or `read`, `chunk_sizes`, `chunk_bytes`. What is the same text in
both versions is in `LayeredCodecs`; what differs is how `context` goes from item to item:
version 3 changes it only with the channel and keeps the last item of the *old* context
when the new one exists already (`Enter`), version 4 does neither. Sizes of layers count as 0 or not,
which is what the reader tests.

*`PointItems`* is `LASwritePoint` and `LASreadPoint` without their byte positions: `WriteFirstPoint` (raw,
starts all items), `WriteNextPoint`, `EndChunk` (sizes of all layers of all items, then
their bytes), `OpenReader` with the layers that are requested, `Read`, `Seek`
(back to the start of the chunk or on from where it is, into the reader's own
`seek_point`), `CloseReader`.

### DLL and spatial index

`dll` is the structure `laszip_dll_struct`; each API function is an operator from it to its
next value, with `error` set on the paths that return 1, or an action where files or the caller
are concerned. `OpenWriter` is one call with all it prepares: extended counters, the
point (`PreparePoint`: old, native or compatibility mode), items, header and record in
the file, box and tree of the index. `OpenReader` reads the header back,
checks the items, converts a header in compatibility mode back (`Upgraded`).

The object keeps its state from writer to reader, or `laszip_clean()` comes between
(`BetweenFiles`): stale attributes, starts and modes are part of the model. A *job* says what the
caller does: a header, up to two calls that change it, points, whether it makes an
inventory and an index, where it seeks, which rectangles it asks for. The caller reads in
any order and may stop in the middle of a query. A refused call ends the job.

`SpatialIndex` has the tree and its cells, the intervals with the
merging at `complete()` (four cells with few points become one; the closest intervals of a
cell are joined until few enough are left, where equal gaps may be taken in any order, which is the hash
table's), the file, and queries. `Query` and `seek_next()` keep the
state that the code keeps, what an earlier query left included.

Rules for a caller that the code has and no check enforces; the jobs keep to them:

- `laszip_write_indexed_point()` neither checks nor recodes a point and
  `laszip_read_inside_point()` does not fill the extended fields in: no index in compatibility mode;
- a header that `laszip_open_writer()` refused, or opened in compatibility mode, is converted already and
  must be set again before the next attempt;
- `laszip_add_attribute()` does not make points longer, `laszip_set_point_type_and_size()` does: points are
  written only where both agree (the two are called one without the other in files without points);
- points lie in the header's box if there is an index: what lies outside is in no rectangle's cells;
- a length of points that is too short for their type is only warned about, and a compressed file with it
  cannot be opened (`FileDescribesItself` leaves it out).

Peculiarities that the model keeps and the properties leave room for: `laszip_remove_vlr()` of a VLR without
data does not take its 54 bytes from the offset (`lost`; `open_writer` refuses the header later);
the extended counters of a header in compatibility mode are those at `open_writer`, which the
inventory does not reach; undocumented extra bytes come back documented; the OGC WKT bit comes
back with a WKT VLR only; a reader that goes on behind the last
point of a compressed file decodes the bytes it finds there into points that nobody wrote. There may be up to
`Behind` of them, at any of the places in `Strange` (`MayGoOn`, `PastTheEnd`); `laszip_read_inside_point()` without an index
tests them like any other and returns those inside, so that a caller without an index may get points
that are not of the file: `InsideReadsAreExact` says that they come after all points wanted, and never with
an index. Their other fields are left out.

## 3. Runs

Every property of a passing run is also broken on purpose, by one of the
operators introduced as "Fault:" in the place of the one they stand next to
(`mutants` in `PROJECT.json`). Apart from that the Fault operators are used nowhere.

| run | checks | result |
|---|---|---|
| `write` | `WriterTypeOK`, `TableDescribesChunks`, `InterruptionIsVisible` | hold |
| `roundtrip` | `ChunksPartitionPoints`, `FixedChunksAreFull`, `FinishedFileIsNeverRefused`, `ReadsBackWhatWasWritten` (refinement of `PointStore`), `SeekArrives` (liveness) | hold |
| `damage` | `ReaderTypeOK`, `ChunkStartsAreTrue`, `PointsAreWhereTheyAreCounted`, `IntactChunksAreRecovered`, `SeekLandsOnTarget`, `PointsAscend` | hold |
| `coder` | `TypeOK`, `BitsHaveRoom`, `DecodesWhatWasEncoded`, `EndsWithTheStream`, `EncoderReturns` (liveness) | hold |
| `integers` | `TypeOK`, `DecompressesWhatWasCompressed`, `CodesFitTheirAlphabets` | hold |
| `items` | `StreamsEndWithTheChunk`, `PointsComeBack`, `LayersAreStoredWhenTheyVary`, `ModelsAreFreed` | hold |
| `dll` | `TypeOK`, `OffsetFollowsTheRecords`, `FileDescribesItself`, `HeaderComesBack`, `PointsComeBack`, `CountsComeBack`, `InsideReadsAreExact`, `InsideReadingEnds` (liveness) | hold |
| `bad_entry` | `StartsBeforeBadEntryAreTrue` | violated: finding 1 |
| `stale_count` | `SeekLandsOnTarget` | violated: finding 2 |
| `empty_chunk` | `FinishedFileIsNeverRefused` | violated: finding 3 |
| `wavepacket` | `PointsComeBack` | violated: finding 4 |
| `compat_class` | `PointsComeBack` | violated: finding 5 |

**Bounds, and why they are enough.**

- `write`: a U32 of two bits (`U32MAX = 3`), so that counts reach their width; five points,
  two tabled chunks, tables that grow with every chunk (`InitialAlloc = 1`), and a
  chunk of 5 bytes that is more than the U32 holds. Chunk sizes 0 (variable), 1 and 2
  make chunks that close at once, in the middle, and by `chunk()` only. The caller also
  repeats calls that put layers again and writes into an encoder that is done (`Overdo`); the table and the
  signs of an interruption must stand that. `MaxOpenBytes = 6` has room for a large and a small copy of a chunk, or
  six small ones.
- `roundtrip`: four points in up to three chunks, so that a seek can go back and forth over
  a whole chunk and into a last one that is not full; every crash; streams that can and cannot
  seek. A stream without chunks is read up to `MaxTaken` points. Every chunk of a table that is full
  may first fail to be tabled; the caller repeats the call only where that puts nothing again, and writes no more before it has
  succeeded (`Overdo = FALSE`; with layers it can only leave the file). Of other callers neither a whole partition nor a round trip can be asked: with `Overdo = TRUE`
  TLC finds `FinishedFileIsNeverRefused` violated. After layers that were put twice the entry leads
  behind both copies and the reader is at the end of the first, which it takes for damage (`lasreadpoint.cpp:476`).
- `damage`: three chunks with up to two of them damaged in every way at every point, tables torn
  after each entry, lost or never written. `Extra` is as many further calls as damaged chunks.
  In `damage` the caller reads on after a failure; seeks after a failure
  are `stale_count`'s question.
- `coder`: bytes of two bits and a ring of four bytes, so that the ring turns several times and carries
  run through its end; ten bits or symbols, after which the models have been
  updated twice and halved; six symbols with a decoder's table; all kinds mixed.
  `MaxBytes` stops an encoder that would go on for ever, and is more than any
  program puts out: otherwise `EncoderReturns` would fail.
- `integers`: all pairs of prediction and value of an I32 of six bits. The
  compressor keeps nothing between values but its models, so that one value is enough
  (`MaxValues = 1`).

- `items`: each kind is a version, one to three items, and three to six values of the
  points that change one field or many, switch the scanner channel and back, and leave
  the range of the integers (`Fit = 16`); chunks of up to three points, two of
  them, one seek: a context is created, left and entered again, across the start of a chunk too. All,
  some or other layers are requested. GPS times have kinds of their own: five times in a chunk,
  with `MULTI = 4`, `MULTI_MINUS = -2`, `MultiLow = 3`, `MULTIMAX = 10` and `MaxExtreme = 1` in the
  place of 500, -10, 10, 512 and 3, so that the edges of the alphabets of multiples are met and all four
  sequences are used and replaced. Wave packets are not sought into here: that is
  `wavepacket`'s question.
- `dll`: headers of LAS 1.2 to 1.5, point types 1, 3 and 6 to 10, with and without VLRs, user data and extra
  bytes; any two of twelve calls on them; returns 1 and 4 to 9 and 15, scan angles and classes at their
  edges, where the old fields begin to be too narrow; files of up to eight points. The index has
  cells of 2 units, `Threshold = 1`, `MinimumPoints = 6` and `IntervalsPerCell = 2` for 100, 1000, 100000
  and 20, so that cells merge, gaps close and intervals are joined; four rectangles
  are inside, across, beside and around the points. `Behind = 2` points may be decoded behind the last one, at
  either of two `Strange` places, each of which is in one of the rectangles. `compat_class` has the one job of finding 5.

`CHECK_DEADLOCK FALSE` where a caller may stop after any call and a program ends. `dll` checks
deadlock: its caller ends in `Stopped`, and before that some call is always possible.

**Fairness.** None for callers, who may stop. `WF_delta(LoopTurns)` is the loop inside
`seek()`; `WF(EncoderRenorm)` and `WF(Open)` are the loops inside a call of the
encoder and the rest of `done()`: code that runs on by itself once it is entered. `WF(ReadInsidePoint)` is the
loop inside `laszip_read_inside_point()`, of which an action is a turn.

### Findings

1. `lasreadpoint.cpp:859`. The handler of a bad table entry sums up chunk starts that the
   loop before it has summed up already; starts of good chunks become wrong.
   Its comment (`:857`) promises to fix as many as possible.
2. `laszip_dll.cpp:4880`. After a failed read, `p_count` lags behind the reader, which has gone
   on to the next chunk. A seek to a point between the two skips forward instead of rewinding,
   succeeds, and the next point is another one.
3. `laswritepoint.cpp:388`. `chunk()` with no point written since the last tables a chunk of 0 bytes, and
   `read_chunk_table()` takes such an entry for damage: a file that was written without an error
   cannot be read.
4. `lasreaditemcompressed_v3.cpp:2098` and its like in version 4. The reader of WAVEPACKET14 writes
   the item only if the chunk has its layer. If all points of a chunk share a
   wave packet there is no layer, and after a seek into the chunk, whose first
   point goes to `seek_point`, the caller's point keeps the packet of another chunk.
   All other items copy their last value.
5. `laszip_dll.cpp:3361`. In compatibility mode a class up to 31 is left to the old field, which
   the check before allows to be zero; the point is stored with class 0.

## 4. Proofs

All proofs are for every value of the constants that the assumptions named here
allow. Every inductive invariant was checked with TLC before it was proved, but for the coder's, which
speaks of a history that no state holds.

| theorem | says | of |
|---|---|---|
| `WriterTypes`, `WriterPartitionsPoints`, `WriterTablesChunks`, `WriterFillsChunks`, `WriterShowsInterruption` | its invariants in `write` and `roundtrip` | `WriterSpec` |
| `RoundTripInvariant` | the inductive invariant of writer and reader | `RoundTripSpec` |
| `ReadsWhatWasWritten` | `ReadsBackWhatWasWritten`: refinement of `PointStore` | `RoundTripSpec` |
| `FinishedFileAnswers` | `FinishedFileIsNeverRefused` | `RoundTripSpec` |
| `BitsAlwaysHaveRoom` | `BitsHaveRoom` | the coder's `Spec` |
| `CoderTypesHold`, `CoderInvHolds` | the inductive invariants of encoder and decoder | the coder's `Spec` |
| `CoderStateIsWellTyped`, `WrittenComesBack`, `StreamIsReadToItsEnd` | `TypeOK`, `DecodesWhatWasEncoded`, `EndsWithTheStream` | the coder's `Spec` |
| `UnfoldUndoesFold`, `UnfoldUndoesFoldOfI32`, `UnfoldUndoesFoldModuloRange` | folded differences come back | operators |
| `CompressorInvariant`, `CompressorTypes`, `CompressorFitsItsModels`, `CompressorLosesNothing` | the invariants of `integers` | the compressor's `Spec` |
| `SetupPassesCheck`, `UpgradedKeepsSlack` | items that `setup` makes pass `check`; offsets survive the undoing of compatibility mode | operators |
| `Invariant`, `OffsetIsThatOfThePoints`, `FilesDescribeThemselves` | `OffsetFollowsTheRecords`, `FileDescribesItself` | the DLL's `Spec` |
| `CountsOfTheInventory`, `InventoryComesBack` | `CountsComeBack` | the DLL's `Spec` |
| `FileHoldsThePoints`, `PointsAreGivenBack` | `PointsComeBack` | the DLL's `Spec`, under `CarefulCaller` and `IndexGivesNumbers` |

**The writer** (`LasWritePointProofs`), under
`CountsStayNarrow`: fewer than `U32MAX` chunks, and no POINTWISE stream
of more than `U32MAX` points (in both cases the code takes the count for a sentinel; the model does
the same). None of the properties is inductive by itself: that a new chunk is tabled rightly
depends on `chunk_start_position` being the end of what was put for the chunks before
it, on the arrays having an entry for each of them, on `chunk_count = 0` exactly when no chunk is open, and on a chunk
in `put` being followed by nothing but copies of its layers.
`WriterInv` adds these (`Modes`, `ChunksTabled`, `OpenPart`, `Signs`; `NoChunks` without a table). The
proof has one lemma per action. `WriterPartitionsPoints` and `WriterFillsChunks` also assume `~Overdo`: where points are lost
in an encoder that is done they are in no chunk, and their chunk is not full. The other three theorems hold with either value.

**Writer and reader** (`LazRoundTripProofs`), under `NothingOverflows`, each part of which is where the code
behaves otherwise, or where the caller is not the one meant:

- a chunk stays below 2^31 bytes, and so do the points of a
  chunk whose number is tabled (entries are decoded as I32: `AsI32`);
- the table can grow by one more step without reaching `U32MAX`, the number that means "not read yet";
- a stream without chunks is not read through so often that its count, which a rewind does not reset,
  reaches `U32MAX`;
- the point block does not begin at position 0, which means "not yet positioned";
- no empty chunks (finding 3), no layers put twice and no points written into an encoder that is done (`~Overdo`), and no
  call of the reader after one that failed (finding 2).

`RoundTripSpec` then implements `PointStore`: initial states map to initial states, and each of the writer's
steps is an `Append` or none, the opening a `Finish`, a read a `Read` or `Refuse`, a seek that arrives
a `Seek`, and the turns of its loop are none but for the last. The argument:

1. `FileInv` says of a file what `WriterInv` does not: chunks are whole, but for the last one of an interrupted
   file; the open chunk is not yet on the stream, or is put but not tabled; and once the 8 bytes are
   put, all chunks are there, whether the table is, in part, or not. `FileStep`
   shows it for every action, `Crash` and `CrashInTable` included.
2. From it follow facts about what is on the disk, with no reader involved: chunks ascend in positions
   and points (`FileFacts`), a position is the start of one chunk at most (`ChunkIsFound`), the readable points are
   the intact ones (`ReadableFacts`), and chunks of fixed size are where division expects them (`FixedPlaces`).
3. `At(r, n, left)` says that the reader is in front of point `n`: in a chunk, at its start, between two, in a
   stream without chunks that may or may not have been tabled like one, or new. It is what all the reader's fields
   have to do with each other: `Standing` is the decoder's place, `StartsAreTrue` and `SizesAreTrue` the table's.
4. `TableDecoded` shows that the running sums give the true starts and totals: by induction over the
   entries, as the code's loop is a recursive function.
5. `ReadAnswers`: from `At(r, n, ..)`, `read()` returns point `n` and the reader is at `n + 1`, or it returns none,
   there is none to be read, and the file was interrupted or cannot be sought in. `SeekLands`: from any place `seek()`
   is in front of the point, or in front of an earlier one with just the difference left to be skipped.
6. `IInv` keeps `At` over the calls (`Arrived`), and one lemma per action (`WritingStores`, `OpeningKeepsSome`,
   `ReadingReads`, `SeekingSeeks`, `SkippingSeeks`) shows both `IInv'` and the step of the store.

**The coder** (`ArithmeticCoderProofs`), for every radix, ring, width of the models, and programs of any calls in any order.
`TableAssumption` is about the decoder's table: it reaches to the end of the shortest interval because
there are at most 2^11 symbols (`arithmeticmodel.cpp:99`). The argument:

1. Models. The distribution of a symbols' model rises from 0 and ends below the whole with a part for the last symbol
   (`IsDistribution`): that counts sum up to `total_count` after every update and halving is
   `SymbolUpdateKeepsInv`. The search by table or bisection finds the one symbol whose part a value is in (`SymbolAtFinds`).
2. Calls. The part for a call lies in the interval (`PartsFit`), and a value in the part for a call is decoded to
   that call (`DecodedIsEncoded`). Whatever the value is, what is not taken for corrupt is a call, and
   its part begins at the value or before (`DecodedIsACall`), so that types hold after an overrun, too.
3. Digits. Bytes put out and bytes pending in the ring are the digits of one number, however the ring has turned
   (`Numbers`, `RenormRing`); a carry that ends among the pending bytes adds one to it (`CarryAddsOne`). With `base` below them they are the
   beginning of the interval, to which `Narrow` adds the offset (`NarrowAdds`) and which a turn of the loop multiplies (`RenormShifts`).
4. History. The intervals of the encoder are a sequence of stages: each is the part of the one before for the
   next call, or the same with a digit more (`History`). The number that `done()` chooses, with the zeros behind it, is in the last
   stage (`ChosenIsWithin`); by induction backwards it is in all of them (`WithinAll`).
5. Decoder. It is in a stage of that history, with its length and models, and `value` is how far the
   stream's number is above the stage's beginning (`DecoderAt`). So what it decodes is the call that led to the next
   stage (`DecodeGoesOn`), there is a byte whenever it needs one (`DecoderRenormGoesOn`), and when all calls are
   decoded it is in the last stage, with the last byte read.

`BitsHaveRoom` has its own proof, for bit models of at least 68 units
(the code's have 8192). It rests on `BitModelInv`: the zeros counted are always fewer than the bits that will have been
counted at the next update; the rounding of both halves could make them equal, and
the code's one extra count is what prevents it (`UpdateKeepsInv`). 68 units are the room for the 64 bits
of the longest cycle between updates. The round trip needs less, and so no such bound: a part may be empty as long as
nothing is coded into it for ever, which is a question of liveness (`EncoderReturns`).

**Folding** (`IntegerFoldingProofs`): for ranges up to half an I32 (the corrector also lies within
`corr_min` and `corr_max`), for differences that overflow, and, with and without a sign, modulo the range.

**The integer compressor** (`IntegerCompressorProofs`), for every width of 2 bits and more, every range, number of
bits and `bits_high`, and any values in a row. The splitting of a corrector needs facts about powers of two (`TwoTo`
is a function, so that they follow by induction) and about `BitLength`; `ReadUndoesWrite` then takes
one corrector through `WriteCorrector` and `ReadCorrector`, whatever codes follow. The invariant says that the queue is
the concatenation of the codes of all values that are not yet read; a sequence of the tails of that
concatenation states this without recursion (`AreTails`).

**The DLL** (`LaszipHeaderProofs`, `LaszipDllProofs`), for every set of jobs. `JobsAssumption` says of a job what the code
relies on: its header's offset is right to begin with, it is not one of compatibility mode and is of LAS 1.4 or
later if its point type is,
`laszip_add_vlr` is not used for the two VLRs that the library makes itself, and the points are any that
the fields of `laszip_point` have room for. The offset of the header need not be
inductive: `laszip_remove_vlr()` of a VLR without data leaves 54 bytes. What is invariant is the difference,
`Slack`, which is 54 for each such VLR (`lost`); the writer opens only if it is zero. Of each header operation a
lemma says what it does to `Slack`: replacing and removing VLRs, adding attributes, and the
preparation of the point with the conversions to and from compatibility mode, which change VLRs, counters and lengths together.
They rest on sums over sequences (`SumOfConcat`, `SumOfReplaced`) and on VLR ids being
unique. `FileDescribesItself` also needs that the items made from the point fit its length
(`SetupPassesCheck`, for every point type, number of extra bytes and requested version) and
that the VLR of compatibility mode never stands without that of the extra bytes (`CompatibilityHasExtraBytes`).

For `CountsComeBack` the invariant `CountInv` follows the counters from call to call: the inventory is the tally
(`IsTally`: number, returns as cardinalities, extent) of all points but the one that is written and not yet counted,
which is still in the object; `UpdatedFile` puts it into a header whose version and point type are the object's
(`WriterInv`); and neither `ReadBack` nor `Upgraded` touches what the reader takes the counters from. A recoded file
keeps the extended counters in a VLR, as they were before, and the property excepts them.

For `PointsComeBack` there are two premises. `CarefulCaller` is what the code takes of its callers without
checking it, and only of those who write points of the new types:

- a caller of compatibility mode describes no more extra bytes than points have, and under none of the five names
  that the library uses itself (the library puts its own values behind those that are described);
- it makes no spatial index, as `laszip_write_indexed_point()` does not recode points;
- a point says that it is one of the new types; its old flags and class agree with the extended ones
  (`laszip_write_point()` checks that, `laszip_write_indexed_point()` does not); and, where it is recoded, a class
  up to 31 is in the old field, too. Without the last the property fails: finding 5.

Of the jobs of `dll`, all that write points are of such callers; some without points are not, and need not be.
`IndexGivesNumbers` (the intervals that a query of the index has left are pairs of numbers) is a conjunct of `TypeOK` and stays
with TLC: what merges intervals are folds. The argument:

1. One point. `DistilledFields` says what recoding leaves in the old fields and puts into the extra bytes, and
   `RecodedComesBack` that `Instilled` after `LoadPOINT10` after `StorePOINT10` after `Distilled` gives the same
   point, for all values of all fields: the rest of a scan angle fits two bytes (`RestOfAngle`), old return numbers
   and what is left of them fit half a byte each (`RestOfReturns`), and so on.
2. Where the rest is. The attributes for it go behind those that describe the extra bytes there are, which
   are completed first (`DescribedBytes`); `get_attribute_start()` then finds each at its place
   (`StartsOfOldPoints`), in the writer's list as in the VLR that the reader makes its list of, and the point's
   last item has room for it (`RoomForOldPoints`).
3. The file. What `laszip_prepare_point_for_write()` makes of the header says that points are recoded and where
   (`RecodedHeader`), it still does in the file (`WrittenHeaderSaysSo`), and a file of points that are not recoded never does
   (`ReadableFile`). `GivesBack` says of an item of the file that a reader makes the given point of it, whatever its
   own point was before; `PointIsGivenBack` shows it for every kind of file.
4. The calls. `PointInv` says that every item of the file gives its point back, that a writer recodes if and
   only if the file says so, to where it says, and that a reader takes the points for what they are. One lemma per
   action. `UpdatedFile` changes nothing by which points are told, `HeaderTellsPoints` takes the reader from the
   header to its mode, and reading, seeking and the index only move its place (`StillReads`).

**Induction.** `Induction` derives it from the well-foundedness of the numbers, with a set in
the place of the predicate, so that the proofs about running sums, powers of two, sums over sequences and histories can cite it.

**Only model-checked**: liveness (`SeekArrives`, `EncoderReturns`, `InsideReadingEnds`); damaged files and the reader after a failure
(`damage`); the items, whose agreement is about streams of any
length; of the DLL its `TypeOK`, headers that come back, and the index.

## 5. Not modelled

- I/O errors of `put*`, `get*` and `seek` other than the end of the stream; the writer's failures are failed
  allocations. In `LaszipDll` the files are always there and as they were written.
- Crashes of the system: when the process ends, what `seek()` flushed is on the disk and of the rest a prefix;
  blocks are not reordered. The 8 bytes in front of the chunks are put at once.
- What becomes of points that are written into an encoder that is done, other than that they are lost: when
  its ring is full it calls a stream that is not there. `ChunksPartitionPoints` and the refinement exclude them.
- Contents of points, in the chunk layer; values of symbols and corrections in the items, which the
  coder and the integer compressor take care of; sizes of layers beyond 0 or not. BYTE14 has two bytes.
- `pack()` and `unpack()` of the LASzip record: byte by byte copies of the items, with no state.
- Of the DLL: `destroy`, `get_point_count`, integer overflow checks, `auto_offset`, coordinates as
  doubles, `preserve_generating_software`, `set_chunk_size`, `has_spatial_index`, the `open_*_stream` functions,
  `create_laszip_vlr`, EVLRs, and memory management: `set_header` writes the number of VLRs before it frees the
  old ones, and a second `open_reader` overwrites the pointer to them. `decompress_selective` is the mask of `PointItems`.
  Coordinates are whole numbers (scale 1, offset 0), counters far below 2^32, and products with 0.006 exact.
- Of the index: tilings, circles, levels below the leaves, appended LAX data, coordinates as floats.
- Scales, offsets and ranges of extra byte attributes.
- `check_end()`, which nothing calls; the coder's tables of initial counts, which no caller passes.
- Byte streams: bytes of files and of memory.
- Names, messages, strings, Unicode paths; `laszip_api.c`, which loads the library
  and forwards; `src/unused`, `src/example`.

## 6. Plan

What is left, in this order:

1. **Proofs about the reader on damaged files**: `ReaderTypeOK` and `ChunkStartsAreTrue` from an invariant like `At` that
   lets chunks be damaged.
2. **Proofs about items**: one step of a v1 or v2 reader undoes the step of the writer, for every item
   and state; in the layered versions, contexts of writer and reader stay equal.
3. **Proofs about the DLL**: `HeaderComesBack`, of which `DowngradedSaysSo` and `UpgradedKeepsSlack` are parts.
4. **Proofs about intervals**: after `add` and merging they stay disjoint and ascending and cover what they did.
5. **Array byte streams** and `pack`/`unpack`, if the runs leave room.
