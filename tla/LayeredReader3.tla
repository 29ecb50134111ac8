---------------------------- MODULE LayeredReader3 ---------------------------
(***************************************************************************)
(* The layered item decompressors of version 3: one definition per         *)
(* function of the classes LASreadItemCompressed_*_v3.  context is the     *)
(* variable that LASreadPoint hands from item to item of a point, 0 for    *)
(* the first.                                                              *)
(* POINT14 sets it only when the channel changes.  The other items turn to *)
(* the models of the context they are handed, and to its last item only if *)
(* the context is new: otherwise the last item of the old context goes on. *)
(***************************************************************************)
EXTENDS LayeredCodecs

\* The context of a point's item, and the context whose last item it is decoded from.
Enter(o, context, create(_, _, _), use(_, _)) ==
  LET new == context # o.current /\ o.contexts[context].unused
      there == IF new THEN create(o, context, o.contexts[o.current].last) ELSE o
  IN use([there EXCEPT !.current = context], IF new THEN context ELSE o.current)

\* A chunk's layers and the first context.
Started(o, c, item, bytes, create(_, _, _)) ==
  LET begun(t) == [object |-> create(t.object, c, item), rest |-> t.rest] IN begun(TakeBytes(o, c, bytes))

\* POINT14 -------------------------------------------------------------------
POINT14_new(requested) == NewReader(PointLayers, requested \cup {"xy"})

POINT14_delete(o) == Destroyed(o)

POINT14_create(o, c, item) == Created(o, c, {"point"}, PointContext(item))

POINT14_chunk_sizes(o, sizes) == TakeSizes(o, sizes)

POINT14_init(o, item, bytes) == Started(o, item.ch, item, bytes, POINT14_create)

POINT14_read_gps_time(c, ctx, d) == ReadTime(0, c, ctx.gps, d)

POINT14_read(o) ==
  LET read(r) == [object |-> r, item |-> r.contexts[r.current].last,
                  context |-> IF r.current # o.current THEN r.current ELSE 0]
  IN read(ReadPoint(o, POINT14_create, POINT14_read_gps_time))

\* RGB14 ---------------------------------------------------------------------
RGB14_new(requested) == NewReader(<<"rgb">>, requested)

RGB14_delete(o) == Destroyed(o)

RGB14_create(o, c, item) == Created(o, c, {"rgb"}, ItemContext(item))

RGB14_chunk_sizes(o, sizes) == TakeSizes(o, sizes)

RGB14_init(o, item, context, bytes) == Started(o, context, item, bytes, RGB14_create)

RGB14_read(o, context) ==
  LET decoded(there, from, r) ==
        [object |-> [there EXCEPT !.contexts[from].last = r.colour, !.streams["rgb"] = r.thread],
         item |-> r.colour]
      read(there, from) ==
        LET last == there.contexts[from].last
        IN IF "rgb" \in o.changed THEN decoded(there, from, ReadRGB(context, last, o.streams["rgb"]))
           ELSE [object |-> there, item |-> last]
  IN Enter(o, context, RGB14_create, read)

\* RGBNIR14: an item is <<red, green, blue, near infrared>> -------------------
RGBNIR14_new(requested) == NewReader(<<"rgb", "nir">>, requested)

RGBNIR14_delete(o) == Destroyed(o)

RGBNIR14_create(o, c, item) == Created(o, c, o.requested, ItemContext(item))

RGBNIR14_chunk_sizes(o, sizes) == TakeSizes(o, sizes)

RGBNIR14_init(o, item, context, bytes) == Started(o, context, item, bytes, RGBNIR14_create)

RGBNIR14_read(o, context) ==
  LET decoded(there, from, rgb, nir) ==
        [object |-> [there EXCEPT !.contexts[from].last = Append(rgb.colour, nir.nir),
                                  !.streams["rgb"] = rgb.thread, !.streams["nir"] = nir.thread],
         item |-> Append(rgb.colour, nir.nir)]
      read(there, from) ==
        LET rgb == SubSeq(there.contexts[from].last, 1, 3)
            nir == there.contexts[from].last[4]
        IN decoded(there, from,
                   IF "rgb" \in o.changed THEN ReadRGB(context, rgb, o.streams["rgb"])
                   ELSE [colour |-> rgb, thread |-> o.streams["rgb"]],
                   IF "nir" \in o.changed THEN ReadNIR(context, nir, o.streams["nir"])
                   ELSE [nir |-> nir, thread |-> o.streams["nir"]])
  IN Enter(o, context, RGBNIR14_create, read)

\* WAVEPACKET14: an item whose layer does not change is left as it is ---------
WAVEPACKET14_new(requested) == NewReader(<<"wavepacket">>, requested)

WAVEPACKET14_delete(o) == Destroyed(o)

WAVEPACKET14_create(o, c, item) == Created(o, c, o.requested, PacketContext(item))

WAVEPACKET14_chunk_sizes(o, sizes) == TakeSizes(o, sizes)

WAVEPACKET14_init(o, item, context, bytes) == Started(o, context, item, bytes, WAVEPACKET14_create)

WAVEPACKET14_read(o, context, item) ==
  LET decoded(there, from, r) ==
        [object |-> [there EXCEPT !.contexts[context].diff = r.state.diff,
                                  !.contexts[context].sym = r.state.sym,
                                  !.contexts[from].last = r.item,
                                  !.streams["wavepacket"] = r.thread],
         item |-> r.item]
      read(there, from) ==
        LET state == [there.contexts[context] EXCEPT !.last = there.contexts[from].last]
        IN IF "wavepacket" \in o.changed
           THEN decoded(there, from, ReadWavePacket(context, state, o.streams["wavepacket"]))
           ELSE [object |-> there, item |-> item]
  IN Enter(o, context, WAVEPACKET14_create, read)

\* BYTE14: a layer per byte ----------------------------------------------------
BYTE14_new(requested) == NewReader(BYTE14Layer, requested)

BYTE14_delete(o) == Destroyed(o)

BYTE14_create(o, c, item) == Created(o, c, {"bytes"}, ItemContext(item))

BYTE14_chunk_sizes(o, sizes) == TakeSizes(o, sizes)

BYTE14_init(o, item, context, bytes) == Started(o, context, item, bytes, BYTE14_create)

BYTE14_read(o, context) ==
  LET ask(last, i) ==
        LET a == Ask(o.streams[BYTE14Layer[i]], <<"byte", context, i>>)
        IN IF BYTE14Layer[i] \in o.changed THEN [a EXCEPT !.value = U8_FOLD(last[i] + @)]
           ELSE [o.streams[BYTE14Layer[i]] EXCEPT !.value = last[i]]
      decoded(there, from, a, b) ==
        [object |-> [there EXCEPT !.contexts[from].last = <<a.value, b.value>>,
                                  !.streams["byte0"] = a, !.streams["byte1"] = b],
         item |-> <<a.value, b.value>>]
      read(there, from) ==
        LET last == there.contexts[from].last IN decoded(there, from, ask(last, 1), ask(last, 2))
  IN Enter(o, context, BYTE14_create, read)

\* The virtual functions of an item.
New(type, requested) ==
  CASE type = "POINT14" -> POINT14_new(requested)
    [] type = "RGB14" -> RGB14_new(requested)
    [] type = "RGBNIR14" -> RGBNIR14_new(requested)
    [] type = "WAVEPACKET14" -> WAVEPACKET14_new(requested)
    [] type = "BYTE14" -> BYTE14_new(requested)

Delete(type, o) ==
  CASE type = "POINT14" -> POINT14_delete(o)
    [] type = "RGB14" -> RGB14_delete(o)
    [] type = "RGBNIR14" -> RGBNIR14_delete(o)
    [] type = "WAVEPACKET14" -> WAVEPACKET14_delete(o)
    [] type = "BYTE14" -> BYTE14_delete(o)

TakeChunkSizes(type, o, sizes) ==
  CASE type = "POINT14" -> POINT14_chunk_sizes(o, sizes)
    [] type = "RGB14" -> RGB14_chunk_sizes(o, sizes)
    [] type = "RGBNIR14" -> RGBNIR14_chunk_sizes(o, sizes)
    [] type = "WAVEPACKET14" -> WAVEPACKET14_chunk_sizes(o, sizes)
    [] type = "BYTE14" -> BYTE14_chunk_sizes(o, sizes)

Init(type, o, item, context, bytes) ==
  CASE type = "POINT14" -> POINT14_init(o, item, bytes)
    [] type = "RGB14" -> RGB14_init(o, item, context, bytes)
    [] type = "RGBNIR14" -> RGBNIR14_init(o, item, context, bytes)
    [] type = "WAVEPACKET14" -> WAVEPACKET14_init(o, item, context, bytes)
    [] type = "BYTE14" -> BYTE14_init(o, item, context, bytes)

Read(type, o, item, context) ==
  CASE type = "POINT14" -> POINT14_read(o)
    [] type = "RGB14" -> RGB14_read(o, context)
    [] type = "RGBNIR14" -> RGBNIR14_read(o, context)
    [] type = "WAVEPACKET14" -> WAVEPACKET14_read(o, context, item)
    [] type = "BYTE14" -> BYTE14_read(o, context)
==============================================================================
