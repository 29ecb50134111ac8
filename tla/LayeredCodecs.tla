----------------------------- MODULE LayeredCodecs -----------------------------
(***************************************************************************)
(* What the item compressors of versions 3 and 4 have in common.  Each     *)
(* item is coded in layers with streams of their own, and for each of four *)
(* scanner channels with a context of its own, created when the channel is *)
(* first met, from the item before it.  A POINT14 is [ch, n, r, x, y, z,   *)
(* class, flags, intensity, angle, user, source, gps]; an object of the    *)
(* writer or of the reader is described at NewWriter and NewReader.        *)
(***************************************************************************)
EXTENDS ColourBytes, ReturnContexts, WavePackets, GpsSequences, FiniteSets, Functions

Channels == 0 .. 3

At(f, i, initial) == IF i \in DOMAIN f THEN f[i] ELSE initial

BYTE14Layer == <<"byte0", "byte1">>

PointLayers == <<"xy", "z", "classification", "flags", "intensity", "scan_angle",
                 "user_data", "point_source", "gps_time">>

\* The context of a channel: the last item and what its models have seen.
Unused == [unused |-> TRUE]

PointContext(item) ==
  [unused |-> FALSE, last |-> item, first |-> item, gps_change |-> FALSE,
   x |-> <<>>, y |-> <<>>, z |-> <<>>, intensity |-> <<>>, gps |-> FirstTime(item.gps)]

ItemContext(item) == [unused |-> FALSE, last |-> item]

PacketContext(item) == [unused |-> FALSE, last |-> item, diff |-> 0, sym |-> 0]

\* The situation of a point, which chooses medians, predictions and models.
LastReturn(ctx) ==
  Flag(ctx.last.r = 1, 0) + Flag(ctx.last.r >= ctx.last.n, 1) + Flag(ctx.gps_change, 2)

Returns(n, r, gps) ==
  [m |-> 2 * ReturnMap6(n, r) + Flag(gps, 0), l |-> ReturnLevel8(n, r),
   cpr |-> Flag(r = 1, 1) + Flag(r >= n, 0), gps |-> Flag(gps, 0), single |-> Flag(n = 1, 0)]

Slot(s) == 2 * s.cpr + s.gps

MedianX(ctx, s) == At(ctx.x, s.m, StreamingMedian5)
MedianY(ctx, s) == At(ctx.y, s.m, StreamingMedian5)
PredictZ(ctx, s) == At(ctx.z, s.l, ctx.first.z)
PredictIntensity(ctx, s) == At(ctx.intensity, Slot(s), ctx.first.intensity)

\* The sizes of the correctors of x, and of x and y, choose the contexts of y and z.
SizeX(ctx, s, p) == K(p.x - ctx.last.x - Median(MedianX(ctx, s)))

ContextY(ctx, s, p) ==
  s.single + (IF SizeX(ctx, s, p) < 20 THEN U32_ZERO_BIT_0(SizeX(ctx, s, p)) ELSE 20)

ContextZ(ctx, s, p) ==
  LET k == (SizeX(ctx, s, p) + K(p.y - ctx.last.y - Median(MedianY(ctx, s)))) \div 2
  IN s.single + (IF k < 18 THEN U32_ZERO_BIT_0(k) ELSE 18)

ClassModel(c, s, class) == <<"classification", c, 2 * (class % 32) + Flag(s.cpr = 3, 0)>>

\* How the return number changed: not, by +1, by -1 (modulo 16), otherwise.
ReturnStep(r, last_r) ==
  CASE r = last_r -> 0
    [] r # last_r /\ r = (last_r + 1) % 16 -> 1
    [] r # last_r /\ r = (last_r + 15) % 16 -> 2
    [] OTHER -> 3

ChangedValues(current, last, p) ==
  Flag(p.ch # current, 6) + Flag(p.source # last.source, 5) + Flag(p.gps # last.gps, 4)
  + Flag(p.angle # last.angle, 3) + Flag(p.n # last.n, 2) + ReturnStep(p.r, last.r)

\* The layer of changes, channel and returns, under the models of context c.
WriteReturns(c, mask, last, p) ==
  LET gps == Bit(mask, 4)
  IN Opt(Bit(mask, 2), Put(<<"number_of_returns", c, last.n>>, p.n))
     \o Opt(mask % 4 = 3 /\ gps, Put(<<"return_number", c, last.r>>, p.r))
     \o Opt(mask % 4 = 3 /\ ~gps, Put(<<"return_number_gps_same", c>>, (p.r - last.r - 2) % 16))

WriteXY(c, ctx, s, p) ==
  Compress(<<"ic_dX", c, s.single>>, Median(MedianX(ctx, s)), p.x - ctx.last.x)
  \o Compress(<<"ic_dY", c, ContextY(ctx, s, p)>>, Median(MedianY(ctx, s)), p.y - ctx.last.y)

\* The other layers.
WriteZ(c, ctx, s, p) == Compress(<<"ic_Z", c, ContextZ(ctx, s, p)>>, PredictZ(ctx, s), p.z)

WriteAttributes(c, ctx, s, mask, p) ==
  LET last == ctx.last IN
  [classification |-> Put(ClassModel(c, s, last.class), p.class),
   flags          |-> Put(<<"flags", c, last.flags>>, p.flags),
   intensity      |-> Compress(<<"ic_intensity", c, s.cpr>>, PredictIntensity(ctx, s), p.intensity),
   scan_angle     |-> Opt(Bit(mask, 3), Compress(<<"ic_scan_angle", c, s.gps>>, last.angle, p.angle)),
   user_data      |-> Put(<<"user_data", c, last.user \div 4>>, p.user),
   point_source   |-> Opt(Bit(mask, 5), Compress(<<"ic_point_source_ID", c>>, last.source, p.source))]

\* Fault: the layer of flags is never counted as changed.
FlagsNeverChange(mask, last, p) ==
  {l \in {"classification", "intensity", "scan_angle", "user_data", "point_source", "gps_time"} :
     CASE l = "classification" -> p.class # last.class
       [] l = "intensity"      -> p.intensity # last.intensity
       [] l = "scan_angle"     -> Bit(mask, 3)
       [] l = "user_data"      -> p.user # last.user
       [] l = "point_source"   -> Bit(mask, 5)
       [] l = "gps_time"       -> Bit(mask, 4)}

ChangedAttributes(mask, last, p) ==
  {l \in {"classification", "flags", "intensity", "scan_angle", "user_data", "point_source", "gps_time"} :
     CASE l = "classification" -> p.class # last.class
       [] l = "flags"          -> p.flags # last.flags
       [] l = "intensity"      -> p.intensity # last.intensity
       [] l = "scan_angle"     -> Bit(mask, 3)
       [] l = "user_data"      -> p.user # last.user
       [] l = "point_source"   -> Bit(mask, 5)
       [] l = "gps_time"       -> Bit(mask, 4)}

\* What both ends remember of a point in the context of its channel.
Remember(ctx, s, p, coded) ==
  [ctx EXCEPT !.last = p, !.gps_change = (s.gps = 1),
              !.x = (s.m :> AddToMedian(MedianX(ctx, s), p.x - ctx.last.x)) @@ @,
              !.y = (s.m :> AddToMedian(MedianY(ctx, s), p.y - ctx.last.y)) @@ @,
              !.z = IF "z" \in coded THEN (s.l :> p.z) @@ @ ELSE @,
              !.intensity = IF "intensity" \in coded THEN (Slot(s) :> p.intensity) @@ @ ELSE @]

\* The reader's side of the layer of changes, channel and returns.
ReadReturns(c, last, start) ==
  LET step(a) == a.mask % 4
      n(a) == Got(a, "n", AskIf(Bit(a.mask, 2), a.thread, <<"number_of_returns", c, last.n>>, last.n))
      same(a) == LET sym == Ask(a.thread, <<"return_number_gps_same", c>>)
                 IN [sym EXCEPT !.value = (last.r + @ + 2) % 16]
      r(a) == CASE step(a) = 0 -> a
                [] step(a) = 1 -> [a EXCEPT !.item.r = (last.r + 1) % 16]
                [] step(a) = 2 -> [a EXCEPT !.item.r = (last.r + 15) % 16]
                [] step(a) = 3 /\ Bit(a.mask, 4) -> Got(a, "r", Ask(a.thread, <<"return_number", c, last.r>>))
                [] step(a) = 3 /\ ~Bit(a.mask, 4) -> Got(a, "r", same(a))
  IN r(n(start))

ReadXY(c, ctx, s, start) ==
  LET x(a) == Took(a, "x", Decompress(a.thread, <<"ic_dX", c, s.single>>, Median(MedianX(ctx, s))))
      y(a) == Took(a, "y", Decompress(a.thread, <<"ic_dY", c, ContextY(ctx, s, a.item)>>, Median(MedianY(ctx, s))))
  IN y(x(start))

\* What the streams of the other layers say of a point with the coordinates of p.
ReadAttributes(c, ctx, s, mask, p, streams) ==
  LET last == ctx.last IN
  [z |-> Decompress(streams["z"], <<"ic_Z", c, ContextZ(ctx, s, p)>>, PredictZ(ctx, s)),
   classification |-> Ask(streams["classification"], ClassModel(c, s, last.class)),
   flags |-> Ask(streams["flags"], <<"flags", c, last.flags>>),
   intensity |-> Decompress(streams["intensity"], <<"ic_intensity", c, s.cpr>>, PredictIntensity(ctx, s)),
   scan_angle |-> DecompressIf(Bit(mask, 3), streams["scan_angle"], <<"ic_scan_angle", c, s.gps>>, last.angle),
   user_data |-> Ask(streams["user_data"], <<"user_data", c, last.user \div 4>>),
   point_source |-> DecompressIf(Bit(mask, 5), streams["point_source"], <<"ic_point_source_ID", c>>, last.source)]

(***************************************************************************)
(* Objects.  The writer's: the context that is current, those that are in  *)
(* use, which layers changed in this chunk, their streams, the contexts    *)
(* with models of their own and how many sets of models were allocated.    *)
(* The reader's has the layers that are requested and those that have      *)
(* bytes in this chunk as well, and streams that are read.                 *)
(***************************************************************************)
NewWriter(layers) ==
  [layers |-> layers, current |-> 0, contexts |-> [c \in Channels |-> Unused], changed |-> {},
   streams |-> [l \in Range(layers) |-> <<>>], models |-> {}, live |-> 0]

NewReader(layers, requested) ==
  [layers |-> layers, requested |-> requested \cap Range(layers), sized |-> {},
   current |-> 0, contexts |-> [c \in Channels |-> Unused], changed |-> {},
   streams |-> [l \in Range(layers) |-> Reading(<<>>)], models |-> {}, live |-> 0]

\* Fault: models are allocated again for every chunk.
CreatedAnew(o, c, groups, context) ==
  LET models == {<<g, c>> : g \in groups}
  IN [o EXCEPT !.contexts[c] = context, !.models = @ \cup models, !.live = @ + Cardinality(models)]

\* A context: its models are allocated once for all chunks.  Groups of models
\* are allocated only when they are needed.
Created(o, c, groups, context) ==
  LET models == {<<g, c>> : g \in groups}
  IN [o EXCEPT !.contexts[c] = context, !.models = @ \cup models,
               !.live = @ + Cardinality(models \ o.models)]

\* The destructor frees the models of the contexts that have them.
Destroyed(o) == [o EXCEPT !.models = {}, !.live = @ - Cardinality(o.models)]

\* The start of a chunk for the writer.
Emptied(o, c) ==
  [o EXCEPT !.contexts = [i \in Channels |-> Unused], !.changed = {}, !.current = c,
            !.streams = [l \in DOMAIN @ |-> <<>>]]

\* The sizes of a chunk's layers, empty or not, and the layers that are not.
Sizes(o, always) == [i \in DOMAIN o.layers |-> o.layers[i] \in o.changed \cup always]

Bytes(o, always) ==
  LET put == SelectSeq(o.layers, LAMBDA l : l \in o.changed \cup always)
  IN [i \in DOMAIN put |-> o.streams[put[i]]]

\* The reader takes the sizes of its layers, and the bytes of those that have
\* any; what is not requested is skipped.
TakeSizes(o, sizes) ==
  [object |-> [o EXCEPT !.sized = {o.layers[i] : i \in {j \in DOMAIN o.layers : sizes[j]}}],
   rest |-> SubSeq(sizes, Len(o.layers) + 1, Len(sizes))]

TakeBytes(o, c, bytes) ==
  LET stored == SelectSeq(o.layers, LAMBDA l : l \in o.sized)
      place(l) == CHOOSE i \in DOMAIN stored : stored[i] = l
      taken == {l \in o.sized \cap o.requested : place(l) <= Len(bytes)}
  IN [object |-> [o EXCEPT !.contexts = [i \in Channels |-> Unused], !.current = c, !.changed = taken,
                           !.streams = [l \in DOMAIN @ |-> Reading(IF l \in taken THEN bytes[place(l)] ELSE <<>>)]],
      rest |-> SubSeq(bytes, Len(stored) + 1, Len(bytes))]

Extended(streams, symbols) == [l \in DOMAIN streams |-> streams[l] \o symbols[l]]

\* POINT14 turns to the channel of its point.
Turned(o, c, create(_, _, _)) ==
  LET there == IF c # o.current /\ o.contexts[c].unused THEN create(o, c, o.contexts[o.current].last) ELSE o
  IN [there EXCEPT !.current = c]

\* The layers of a point, all of them; first is the model of the mask of changes.
WriteInContext(o, current, first, ctx, p, writeTime(_, _, _)) ==
  LET c == o.current
      switch == Opt(c # current, Put(<<"scanner_channel", current>>, (c - current - 1) % 4))
      symbols(mask, s, time) ==
        WriteAttributes(c, ctx, s, mask, p)
        @@ ("xy" :> Put(first, mask) \o switch \o WriteReturns(c, mask, ctx.last, p) \o WriteXY(c, ctx, s, p))
        @@ ("z" :> WriteZ(c, ctx, s, p))
        @@ ("gps_time" :> time.symbols)
      coded(mask, s, time) ==
        [o EXCEPT !.contexts[c] = [Remember(ctx, s, p, {"z", "intensity"}) EXCEPT !.gps = time.gps],
                  !.changed = @ \cup ChangedAttributes(mask, ctx.last, p),
                  !.streams = Extended(@, symbols(mask, s, time))]
      masked(mask) == coded(mask, Returns(p.n, p.r, Bit(mask, 4)),
                            IF Bit(mask, 4) THEN writeTime(c, ctx, p) ELSE [gps |-> ctx.gps, symbols |-> <<>>])
  IN masked(ChangedValues(current, ctx.last, p))

WritePoint(o, p, create(_, _, _), writeTime(_, _, _)) ==
  LET first == <<"changed_values", o.current, LastReturn(o.contexts[o.current])>>
      turned(there) == WriteInContext(there, o.current, first, there.contexts[p.ch], p, writeTime)
  IN turned(Turned(o, p.ch, create))

\* The reader: the channel of the point, the first layer, then from the others
\* what they have and were requested for.
ReadChannel(o, head) ==
  LET diff == AskIf(Bit(head.value, 6), head, <<"scanner_channel", o.current>>, 3)
  IN Item(diff, head.value, (o.current + diff.value + 1) % 4)

ReadTimed(o, a, time) ==
  LET c == o.current
  IN IF Bit(a.mask, 4) /\ "gps_time" \in o.changed
     THEN [o EXCEPT !.contexts[c].gps = time.gps, !.contexts[c].last.gps = time.gps.time[time.gps.last],
                    !.streams["gps_time"] = time.thread]
     ELSE o

ReadLayers(o, ctx, s, a, read) ==
  LET c == o.current
      value(l, unchanged) == IF l \in o.changed THEN read[l].value ELSE unchanged
      last == ctx.last
      item == [a.item EXCEPT
                 !.z = value("z", last.z), !.class = value("classification", last.class),
                 !.flags = value("flags", last.flags), !.intensity = value("intensity", last.intensity),
                 !.angle = value("scan_angle", last.angle), !.user = value("user_data", last.user),
                 !.source = value("point_source", last.source)]
  IN [o EXCEPT !.contexts[c] = Remember(ctx, s, item, o.changed),
               !.streams = [l \in DOMAIN @ |-> CASE l = "xy" -> a.thread
                                                 [] l \in (DOMAIN read) \cap o.changed -> read[l]
                                                 [] OTHER -> @[l]]]

ReadInContext(o, ctx, start, readTime(_, _, _)) ==
  LET c == o.current
      timed(a, object) == ReadTimed(object, a, readTime(c, ctx, o.streams["gps_time"]))
      layers(a, s) == timed(a, ReadLayers(o, ctx, s, a, ReadAttributes(c, ctx, s, a.mask, a.item, o.streams)))
      situated(a, s) == layers(ReadXY(c, ctx, s, a), s)
      returned(a) == situated(a, Returns(a.item.n, a.item.r, Bit(a.mask, 4)))
  IN returned(ReadReturns(c, ctx.last, start))

ReadPoint(o, create(_, _, _), readTime(_, _, _)) ==
  LET old == o.contexts[o.current]
      head == Ask(o.streams["xy"], <<"changed_values", o.current, LastReturn(old)>>)
      inside(there, a) ==
        ReadInContext(there, there.contexts[a.item],
                      [a EXCEPT !.item = [there.contexts[a.item].last EXCEPT !.ch = a.item]], readTime)
      turned(a) == inside(Turned(o, a.item, create), a)
  IN turned(ReadChannel(o, head))
==============================================================================
