---------------------------- MODULE LayeredWriter3 ---------------------------
(***************************************************************************)
(* The layered item compressors of version 3: one definition per function  *)
(* of the classes LASwriteItemCompressed_*_v3.  context is the variable    *)
(* that LASwritePoint hands from item to item of a point, 0 for the first. *)
(* POINT14 sets it only when the channel changes.  The other items turn to *)
(* the models of the context they are handed, and to its last item only if *)
(* the context is new: otherwise the last item of the old context goes on. *)
(***************************************************************************)
EXTENDS LayeredCodecs

\* The context of a point's item, and the context whose last item it is coded from.
Enter(o, context, create(_, _, _), use(_, _)) ==
  LET new == context # o.current /\ o.contexts[context].unused
      there == IF new THEN create(o, context, o.contexts[o.current].last) ELSE o
  IN use([there EXCEPT !.current = context], IF new THEN context ELSE o.current)

\* POINT14 -------------------------------------------------------------------
POINT14_new == NewWriter(PointLayers)

POINT14_delete(o) == Destroyed(o)

POINT14_create(o, c, item) == Created(o, c, {"point"}, PointContext(item))

POINT14_init(o, item) == POINT14_create(Emptied(o, item.ch), item.ch, item)

POINT14_write_gps_time(c, ctx, item) == WriteTime(0, c, ctx.gps, item.gps)

POINT14_write(o, item) == WritePoint(o, item, POINT14_create, POINT14_write_gps_time)

\* The context that write() leaves for the other items.
POINT14_context(o, item) == IF item.ch # o.current THEN item.ch ELSE 0

POINT14_chunk_sizes(o) == Sizes(o, {"xy", "z"})

POINT14_chunk_bytes(o) == Bytes(o, {"xy", "z"})

\* RGB14 ---------------------------------------------------------------------
RGB14_new == NewWriter(<<"rgb">>)

RGB14_delete(o) == Destroyed(o)

RGB14_create(o, c, item) == Created(o, c, {"rgb"}, ItemContext(item))

RGB14_init(o, item, context) == RGB14_create(Emptied(o, context), context, item)

RGB14_write(o, item, context) ==
  LET write(there, from) ==
        LET last == there.contexts[from].last
        IN [there EXCEPT !.contexts[from].last = item,
                         !.streams["rgb"] = @ \o WriteRGB(context, last, item),
                         !.changed = IF ByteMask(last, item) # 0 THEN @ \cup {"rgb"} ELSE @]
  IN Enter(o, context, RGB14_create, write)

RGB14_chunk_sizes(o) == Sizes(o, {})

RGB14_chunk_bytes(o) == Bytes(o, {})

\* RGBNIR14: an item is <<red, green, blue, near infrared>> -------------------
RGBNIR14_new == NewWriter(<<"rgb", "nir">>)

RGBNIR14_delete(o) == Destroyed(o)

RGBNIR14_create(o, c, item) == Created(o, c, {"rgb", "nir"}, ItemContext(item))

RGBNIR14_init(o, item, context) == RGBNIR14_create(Emptied(o, context), context, item)

RGBNIR14_write(o, item, context) ==
  LET rgb(i) == SubSeq(i, 1, 3)
      changed(last) == {l \in {"rgb", "nir"} : IF l = "rgb" THEN ByteMask(rgb(last), rgb(item)) # 0
                                               ELSE NirMask(last[4], item[4]) # 0}
      write(there, from) ==
        LET last == there.contexts[from].last
        IN [there EXCEPT !.contexts[from].last = item,
                         !.streams["rgb"] = @ \o WriteRGB(context, rgb(last), rgb(item)),
                         !.streams["nir"] = @ \o WriteNIR(context, last[4], item[4]),
                         !.changed = @ \cup changed(last)]
  IN Enter(o, context, RGBNIR14_create, write)

RGBNIR14_chunk_sizes(o) == Sizes(o, {})

RGBNIR14_chunk_bytes(o) == Bytes(o, {})

\* WAVEPACKET14 --------------------------------------------------------------
WAVEPACKET14_new == NewWriter(<<"wavepacket">>)

WAVEPACKET14_delete(o) == Destroyed(o)

WAVEPACKET14_create(o, c, item) == Created(o, c, {"wavepacket"}, PacketContext(item))

WAVEPACKET14_init(o, item, context) == WAVEPACKET14_create(Emptied(o, context), context, item)

WAVEPACKET14_write(o, item, context) ==
  LET coded(there, from, w) ==
        [there EXCEPT !.contexts[context].diff = w.state.diff, !.contexts[context].sym = w.state.sym,
                      !.contexts[from].last = item,
                      !.streams["wavepacket"] = @ \o w.symbols,
                      !.changed = IF item # there.contexts[from].last THEN @ \cup {"wavepacket"} ELSE @]
      write(there, from) ==
        LET state == [there.contexts[context] EXCEPT !.last = there.contexts[from].last]
        IN coded(there, from, WriteWavePacket(context, state, item))
  IN Enter(o, context, WAVEPACKET14_create, write)

WAVEPACKET14_chunk_sizes(o) == Sizes(o, {})

WAVEPACKET14_chunk_bytes(o) == Bytes(o, {})

\* BYTE14: a layer per byte ----------------------------------------------------
BYTE14_new == NewWriter(BYTE14Layer)

BYTE14_delete(o) == Destroyed(o)

BYTE14_create(o, c, item) == Created(o, c, {"bytes"}, ItemContext(item))

BYTE14_init(o, item, context) == BYTE14_create(Emptied(o, context), context, item)

BYTE14_write(o, item, context) ==
  LET put(last, i) == Put(<<"byte", context, i>>, U8_FOLD(item[i] - last[i]))
      write(there, from) ==
        LET last == there.contexts[from].last
        IN [there EXCEPT !.contexts[from].last = item,
                         !.streams["byte0"] = @ \o put(last, 1), !.streams["byte1"] = @ \o put(last, 2),
                         !.changed = @ \cup {BYTE14Layer[i] : i \in {j \in DOMAIN item : item[j] # last[j]}}]
  IN Enter(o, context, BYTE14_create, write)

BYTE14_chunk_sizes(o) == Sizes(o, {})

BYTE14_chunk_bytes(o) == Bytes(o, {})

\* The virtual functions of an item.
New(type) ==
  CASE type = "POINT14" -> POINT14_new
    [] type = "RGB14" -> RGB14_new
    [] type = "RGBNIR14" -> RGBNIR14_new
    [] type = "WAVEPACKET14" -> WAVEPACKET14_new
    [] type = "BYTE14" -> BYTE14_new

Delete(type, o) ==
  CASE type = "POINT14" -> POINT14_delete(o)
    [] type = "RGB14" -> RGB14_delete(o)
    [] type = "RGBNIR14" -> RGBNIR14_delete(o)
    [] type = "WAVEPACKET14" -> WAVEPACKET14_delete(o)
    [] type = "BYTE14" -> BYTE14_delete(o)

Init(type, o, item, context) ==
  CASE type = "POINT14" -> POINT14_init(o, item)
    [] type = "RGB14" -> RGB14_init(o, item, context)
    [] type = "RGBNIR14" -> RGBNIR14_init(o, item, context)
    [] type = "WAVEPACKET14" -> WAVEPACKET14_init(o, item, context)
    [] type = "BYTE14" -> BYTE14_init(o, item, context)

Write(type, o, item, context) ==
  CASE type = "POINT14" -> POINT14_write(o, item)
    [] type = "RGB14" -> RGB14_write(o, item, context)
    [] type = "RGBNIR14" -> RGBNIR14_write(o, item, context)
    [] type = "WAVEPACKET14" -> WAVEPACKET14_write(o, item, context)
    [] type = "BYTE14" -> BYTE14_write(o, item, context)

ChunkSizes(type, o) ==
  CASE type = "POINT14" -> POINT14_chunk_sizes(o)
    [] type = "RGB14" -> RGB14_chunk_sizes(o)
    [] type = "RGBNIR14" -> RGBNIR14_chunk_sizes(o)
    [] type = "WAVEPACKET14" -> WAVEPACKET14_chunk_sizes(o)
    [] type = "BYTE14" -> BYTE14_chunk_sizes(o)

ChunkBytes(type, o) ==
  CASE type = "POINT14" -> POINT14_chunk_bytes(o)
    [] type = "RGB14" -> RGB14_chunk_bytes(o)
    [] type = "RGBNIR14" -> RGBNIR14_chunk_bytes(o)
    [] type = "WAVEPACKET14" -> WAVEPACKET14_chunk_bytes(o)
    [] type = "BYTE14" -> BYTE14_chunk_bytes(o)
==============================================================================
