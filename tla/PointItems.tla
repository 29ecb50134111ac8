------------------------------ MODULE PointItems ------------------------------
(***************************************************************************)
(* Points through the item compressors of their version and back: a writer *)
(* that cuts them into chunks, the chunks, and a reader that takes the     *)
(* layers it was asked for and seeks.  A point is a function from its item *)
(* types to items.  A chunk is the raw items of its first point, the sizes *)
(* of its layers (0 or not) and the streams of those that have any; in     *)
(* versions 1 and 2 all items share one stream.                            *)
(***************************************************************************)
EXTENDS Integers, Sequences, SequencesExt, FiniteSets, TLC

CONSTANTS
  Fit, MULTI, MULTI_MINUS, MultiLow, MaxExtreme, MULTIMAX, MultiV1, MaxExtremeV1,
  Kinds             \* [version, items, points, blank, masks, length, chunks, seeks, into]

ASSUME FitAssumption == Fit \in Nat \ {0}

\* The multiples of the last difference that a GPS time can be coded as.
ASSUME MultiplesAssumption ==
  /\ {MULTI, MultiLow} \subseteq Nat \ {0, 1}
  /\ -MULTI_MINUS \in Nat \ {0}
  /\ MULTIMAX \in Nat /\ MULTIMAX > 4
  /\ MultiV1 \in Seq(Nat) /\ Len(MultiV1) = 2

\* How many extreme differences in a row start another sequence.
ASSUME ExtremesAssumption == {MaxExtreme, MaxExtremeV1} \subseteq Nat

V1 == INSTANCE ItemsV1
V2 == INSTANCE ItemsV2
W3 == INSTANCE LayeredWriter3
W4 == INSTANCE LayeredWriter4
R3 == INSTANCE LayeredReader3
R4 == INSTANCE LayeredReader4

VARIABLES
  kind,             \* what is compressed, and how
  phase,            \* writing, reading, closed
  writers,          \* the item compressors
  stream,           \* versions 1 and 2: the symbols of the chunk so far
  chunk,            \* the points of the chunk so far
  written,          \* history: the points of the chunks that are finished
  file,             \* the chunks
  mask,             \* the layers that are requested
  readers,          \* the item decompressors
  thread,           \* versions 1 and 2: the stream that is read
  next,             \* the chunk and place of the next point
  seeks,            \* how many seeks are left
  seek_point,       \* where points go that a seek passes
  point,            \* where the caller's points go
  at                \* chunk and place of the point that is there

vars == <<kind, phase, writers, stream, chunk, written, file, mask, readers, thread, next, seeks,
          seek_point, point, at>>

written_vars == <<kind, writers, stream, chunk, written, file>>
read_vars    == <<mask, readers, thread, next, seeks, seek_point, point, at>>

Layered == kind.version >= 3

ItemIds == DOMAIN kind.items

\* WAVEPACKET13 has version 1 among items of version 2.
OfVersion1(type) == kind.version = 1 \/ type = "WAVEPACKET13"

Init ==
  /\ kind \in Kinds
  /\ phase = "writing"
  /\ writers = [i \in ItemIds |-> CASE kind.version = 3 -> W3!New(kind.items[i])
                                    [] kind.version = 4 -> W4!New(kind.items[i])
                                    [] OTHER -> <<>>]
  /\ stream = <<>> /\ chunk = <<>> /\ written = <<>> /\ file = <<>>
  /\ mask = {} /\ readers = <<>> /\ thread = V1!Reading(<<>>)
  /\ next = <<1, 1>> /\ seeks = kind.seeks
  /\ seek_point = kind.blank /\ point = kind.blank /\ at = <<>>

Total(chunks) == FoldLeft(LAMBDA sum, c : sum + Len(c), 0, chunks)

Room == Total(written) + Len(chunk) < kind.length

---------------------------------------------------------------------------
\* LASwritePoint::write() at the start of a chunk: the point goes out raw and
\* starts every item compressor; POINT14 chooses the context of the others.
ChunkContext(p) == IF Layered THEN p["POINT14"].ch ELSE 0

WriteFirstPoint(p) ==
  /\ phase = "writing" /\ Room
  /\ chunk = <<>> /\ Len(written) < kind.chunks
  /\ chunk' = <<p>>
  /\ writers' = [i \in ItemIds |->
       LET type == kind.items[i] IN
       CASE kind.version = 3 -> W3!Init(type, writers[i], p[type], ChunkContext(p))
         [] kind.version = 4 -> W4!Init(type, writers[i], p[type], ChunkContext(p))
         [] ~Layered /\ OfVersion1(type) -> V1!WriterInit(type, p[type])
         [] OTHER -> V2!WriterInit(type, p[type])]
  /\ stream' = <<>>
  /\ UNCHANGED <<kind, phase, written, file, read_vars>>

WriteLayered(p) ==
  /\ \E context \in {IF kind.version = 3 THEN W3!POINT14_context(writers[1], p["POINT14"])
                     ELSE W4!POINT14_context(writers[1], p["POINT14"])} :
       writers' = [i \in ItemIds |->
          LET type == kind.items[i] IN
          IF kind.version = 3 THEN W3!Write(type, writers[i], p[type], context)
          ELSE W4!Write(type, writers[i], p[type], context)]
  /\ UNCHANGED stream

WriteShared(p) ==
  \E w \in {[i \in ItemIds |->
               LET type == kind.items[i] IN
               IF OfVersion1(type) THEN V1!Write(type, writers[i], p[type])
               ELSE V2!Write(type, writers[i], p[type])]} :
     /\ writers' = [i \in ItemIds |-> w[i].state]
     /\ stream' = stream \o FlattenSeq([i \in ItemIds |-> w[i].symbols])

WriteNextPoint(p) ==
  /\ phase = "writing" /\ Room
  /\ chunk # <<>>
  /\ IF Layered THEN WriteLayered(p) ELSE WriteShared(p)
  /\ chunk' = Append(chunk, p)
  /\ UNCHANGED <<kind, phase, written, file, read_vars>>

\* The end of a chunk: the sizes of all layers of all items, then their bytes.
ChunkOf(objects) ==
  LET all(f(_)) == FlattenSeq([i \in ItemIds |-> f(i)])
      sizes(i) == IF kind.version = 3 THEN W3!ChunkSizes(kind.items[i], objects[i])
                  ELSE W4!ChunkSizes(kind.items[i], objects[i])
      bytes(i) == IF kind.version = 3 THEN W3!ChunkBytes(kind.items[i], objects[i])
                  ELSE W4!ChunkBytes(kind.items[i], objects[i])
  IN IF Layered THEN [sizes |-> all(sizes), bytes |-> all(bytes)]
     ELSE [sizes |-> <<>>, bytes |-> <<stream>>]

EndChunk ==
  /\ phase = "writing"
  /\ chunk # <<>>
  /\ file' = Append(file, ChunkOf(writers))
  /\ written' = Append(written, chunk)
  /\ chunk' = <<>> /\ stream' = <<>>
  /\ UNCHANGED <<kind, phase, writers, read_vars>>

\* The writer is deleted, a reader is made.
OpenReader(requested) ==
  /\ phase = "writing"
  /\ chunk = <<>> /\ written # <<>>
  /\ phase' = "reading"
  /\ writers' = [i \in ItemIds |-> CASE kind.version = 3 -> W3!Delete(kind.items[i], writers[i])
                                     [] kind.version = 4 -> W4!Delete(kind.items[i], writers[i])
                                     [] OTHER -> writers[i]]
  /\ mask' = requested
  /\ readers' = [i \in ItemIds |-> CASE kind.version = 3 -> R3!New(kind.items[i], requested)
                                     [] kind.version = 4 -> R4!New(kind.items[i], requested)
                                     [] OTHER -> <<>>]
  /\ UNCHANGED <<kind, stream, chunk, written, file, thread, next, seeks, seek_point, point, at>>

---------------------------------------------------------------------------
\* LASreadPoint::read() with the state of the reader, rd = [readers, thread,
\* next], into a buffer: [rd, buffer].  The first point of a chunk is raw.
TakeAllSizes(objects, sizes) ==
  FoldLeft(LAMBDA acc, i :
             LET t == IF kind.version = 3 THEN R3!TakeChunkSizes(kind.items[i], acc.objects[i], acc.rest)
                      ELSE R4!TakeChunkSizes(kind.items[i], acc.objects[i], acc.rest)
             IN [objects |-> [acc.objects EXCEPT ![i] = t.object], rest |-> t.rest],
           [objects |-> objects, rest |-> sizes], [i \in ItemIds |-> i]).objects

InitAll(objects, p, bytes) ==
  FoldLeft(LAMBDA acc, i :
             LET type == kind.items[i]
                 t == IF kind.version = 3
                      THEN R3!Init(type, acc.objects[i], p[type], ChunkContext(p), acc.rest)
                      ELSE R4!Init(type, acc.objects[i], p[type], ChunkContext(p), acc.rest)
             IN [objects |-> [acc.objects EXCEPT ![i] = t.object], rest |-> t.rest],
           [objects |-> objects, rest |-> bytes], [i \in ItemIds |-> i]).objects

ReadFirst(rd) ==
  LET c == rd.next[1]
      p == written[c][1]
      reset == [i \in ItemIds |-> IF OfVersion1(kind.items[i]) THEN V1!ReaderInit(kind.items[i], p[kind.items[i]])
                                  ELSE V2!ReaderInit(kind.items[i], p[kind.items[i]])]
  IN [rd |-> [readers |-> IF Layered
                          THEN InitAll(TakeAllSizes(rd.readers, file[c].sizes), p, file[c].bytes)
                          ELSE reset,
              thread  |-> IF Layered THEN rd.thread ELSE V1!Reading(file[c].bytes[1]),
              next    |-> <<c, 2>>],
      buffer |-> p]

ReadLayered(rd, buffer) ==
  LET gathered(r) ==
        [rd |-> [rd EXCEPT !.readers = [i \in ItemIds |-> r[i].object], !.next[2] = @ + 1],
         buffer |-> [t \in Range(kind.items) |-> r[CHOOSE i \in ItemIds : kind.items[i] = t].item]]
      items(head) ==
        gathered([i \in ItemIds |->
          LET type == kind.items[i] IN
          CASE i = 1 -> head
            [] i > 1 /\ kind.version = 3 -> R3!Read(type, rd.readers[i], buffer[type], head.context)
            [] OTHER -> R4!Read(type, rd.readers[i], buffer[type], head.context)])
  IN items(IF kind.version = 3 THEN R3!POINT14_read(rd.readers[1]) ELSE R4!POINT14_read(rd.readers[1]))

ReadShared(rd, buffer) ==
  LET got(acc, i, r) == [rd |-> [acc.rd EXCEPT !.readers[i] = r.state, !.thread = r.thread],
                         buffer |-> [acc.buffer EXCEPT ![kind.items[i]] = r.item]]
      read(acc, i) ==
        LET type == kind.items[i]
        IN got(acc, i, IF OfVersion1(type) THEN V1!Read(type, acc.rd.readers[i], acc.rd.thread)
                       ELSE V2!Read(type, acc.rd.readers[i], acc.rd.thread))
  IN FoldLeft(read, [rd |-> [rd EXCEPT !.next[2] = @ + 1], buffer |-> buffer], [i \in ItemIds |-> i])

ReadInto(rd, buffer) ==
  IF rd.next[2] = 1 THEN ReadFirst(rd) ELSE IF Layered THEN ReadLayered(rd, buffer) ELSE ReadShared(rd, buffer)

\* At the end of a chunk comes the next.
Advanced(rd) ==
  IF rd.next[2] > Len(written[rd.next[1]]) THEN [rd EXCEPT !.next = <<@[1] + 1, 1>>] ELSE rd

Reader == [readers |-> readers, thread |-> thread, next |-> next]

Becomes(rd) == readers' = rd.readers /\ thread' = rd.thread /\ next' = rd.next

Read ==
  /\ phase = "reading"
  /\ Advanced(Reader).next[1] <= Len(written)
  /\ \E r \in {ReadInto(Advanced(Reader), point)} : Becomes(r.rd) /\ point' = r.buffer
  /\ at' = Advanced(Reader).next
  /\ UNCHANGED <<phase, written_vars, mask, seeks, seek_point>>

\* LASreadPoint::seek() to a place i of chunk c: back to the start of the
\* chunk, unless it is ahead in the chunk that is read, and reading up to i.
Skip(rd, buffer, n) ==
  FoldLeft(LAMBDA acc, k : ReadInto(acc.rd, acc.buffer), [rd |-> rd, buffer |-> buffer], [k \in 1 .. n |-> k])

Seek(c, i) ==
  /\ phase = "reading" /\ seeks > 0
  /\ c \in DOMAIN written /\ i \in DOMAIN written[c]
  /\ i \in kind.into
  /\ LET ahead == c = next[1] /\ next[2] \in 2 .. i
         rd == IF ahead THEN Reader ELSE [Reader EXCEPT !.next = <<c, 1>>]
     IN \E r \in {Skip(rd, seek_point, i - rd.next[2])} : Becomes(r.rd) /\ seek_point' = r.buffer
  /\ seeks' = seeks - 1
  /\ at' = <<>>
  /\ UNCHANGED <<phase, written_vars, mask, point>>

CloseReader ==
  /\ phase = "reading"
  /\ Advanced(Reader).next[1] > Len(written)
  /\ phase' = "closed"
  /\ readers' = [i \in ItemIds |-> CASE kind.version = 3 -> R3!Delete(kind.items[i], readers[i])
                                     [] kind.version = 4 -> R4!Delete(kind.items[i], readers[i])
                                     [] OTHER -> readers[i]]
  /\ UNCHANGED <<written_vars, mask, thread, next, seeks, seek_point, point, at>>

Next ==
  \/ \E p \in kind.points : WriteFirstPoint(p) \/ WriteNextPoint(p)
  \/ EndChunk
  \/ \E requested \in kind.masks : OpenReader(requested)
  \/ Read
  \/ \E c \in 1 .. kind.chunks, i \in 1 .. kind.length : Seek(c, i)
  \/ CloseReader

Spec == Init /\ [][Next]_vars
---------------------------------------------------------------------------
\* The layer that a field of a POINT14 is coded in.
LayerOf(field) ==
  CASE field \in {"ch", "n", "r", "x", "y"} -> "xy"
    [] field = "class"  -> "classification"
    [] field = "angle"  -> "scan_angle"
    [] field = "user"   -> "user_data"
    [] field = "source" -> "point_source"
    [] field = "gps"    -> "gps_time"
    [] OTHER -> field

\* An item, and the part of it that is coded in a layer.
InLayer(type, item, layer) ==
  CASE type = "POINT14"  -> [f \in {g \in DOMAIN item : LayerOf(g) = layer} |-> item[f]]
    [] type = "RGBNIR14" -> IF layer = "nir" THEN item[4] ELSE SubSeq(item, 1, 3)
    [] type = "BYTE14"   -> IF layer = "byte0" THEN item[1] ELSE item[2]
    [] OTHER -> item

LayersOf(i) == IF Layered THEN Range(readers[i].layers) ELSE {}

\* What a layer holds for the reader: the point's own, if it was requested,
\* otherwise that of the first point of the chunk.
Owner(c, k, layer) == IF layer \in mask \cup {"xy"} THEN written[c][k] ELSE written[c][1]

Expected(c, k) ==
  IF ~Layered THEN point = written[c][k]
  ELSE \A i \in ItemIds : \A layer \in LayersOf(i) :
         LET type == kind.items[i]
         IN InLayer(type, point[type], layer) = InLayer(type, Owner(c, k, layer)[type], layer)

\* Every point comes out as it went in, whatever was read or sought before;
\* layers that were not requested keep the value of their chunk's first point.
PointsComeBack == at # <<>> => Expected(at[1], at[2])

\* Decoders never ask for a symbol under other models than it was coded with,
\* and after the last point of a chunk the streams that were taken are used up.
EndOfChunk == phase = "reading" /\ next[1] <= Len(written) /\ next[2] > Len(written[next[1]])

StreamsEndWithTheChunk ==
  /\ thread.inStep
  /\ EndOfChunk => thread.left = <<>>
  /\ Layered => \A i \in DOMAIN readers : \A layer \in LayersOf(i) :
       /\ readers[i].streams[layer].inStep
       /\ EndOfChunk => readers[i].streams[layer].left = <<>>

\* The layers after the first two have bytes in a chunk exactly if its points
\* differ there (and colours also if they are not grey): what the sizes say is
\* what the reader relies on when it does not decode a layer.
AlwaysStored(type, points) ==
  CASE type = "POINT14" -> {"xy", "z"}
    [] type \in {"RGB14", "RGBNIR14"} ->
         {l \in {"rgb"} : \E k \in 2 .. Len(points) : \E b \in 2 .. 3 : points[k][type][b] # points[k][type][1]}
    [] OTHER -> {}

SizesExpected(points) ==
  FlattenSeq([i \in ItemIds |->
    LET type == kind.items[i]
        layers == readers[i].layers
    IN [j \in DOMAIN layers |->
          \/ layers[j] \in AlwaysStored(type, points)
          \/ \E k \in DOMAIN points :
               InLayer(type, points[k][type], layers[j]) # InLayer(type, points[1][type], layers[j])]])

LayersAreStoredWhenTheyVary ==
  phase = "reading" /\ Layered => \A c \in DOMAIN file : file[c].sizes = SizesExpected(written[c])

\* The models that were allocated for the contexts of all chunks are freed.
ModelsAreFreed ==
  Layered => /\ phase # "writing" => \A i \in ItemIds : writers[i].live = 0
             /\ phase = "closed" => \A i \in ItemIds : readers[i].live = 0
==============================================================================
