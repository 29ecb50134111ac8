-------------------------------- MODULE ItemsV1 --------------------------------
(***************************************************************************)
(* The item compressors of version 1: the state each keeps (o), what its   *)
(* write() puts into the one stream of the chunk, and what its read()      *)
(* takes from it.  A POINT10 is [x, y, z, intensity, bits, class, angle,   *)
(* user, source], bits being the byte of return number, number of returns  *)
(* and scan direction.  Models for single values of a field are created    *)
(* when they are first used and stand for that value here.                 *)
(***************************************************************************)
EXTENDS ColourBytes, ReturnContexts, WavePackets

CONSTANTS
  MULTIMAX,         \* LASZIP_GPSTIME_MULTIMAX, 512
  MultiV1,          \* multiples below these (10 and 50) have contexts of their own
  MaxExtremeV1      \* as MaxExtreme, of version 1

\* POINT10 -------------------------------------------------------------------
WriterInitPOINT10(item) == [last |-> item, x |-> <<0, 0, 0>>, y |-> <<0, 0, 0>>]

ReaderInitPOINT10(item) == [last |-> item, x |-> <<0, 0, 0>>, y |-> <<0, 0, 0>>]

ChangedPOINT10(last, item) ==
  Flag(last.intensity # item.intensity, 5) + Flag(last.bits # item.bits, 4)
  + Flag(last.class # item.class, 3) + Flag(last.angle # item.angle, 2)
  + Flag(last.user # item.user, 1) + Flag(last.source # item.source, 0)

\* The sizes of the correctors of x, and of x and y, choose the contexts.
SizeX(o, item) == K(item.x - o.last.x - Median3(o.x))

SizeXY(o, item) == (SizeX(o, item) + K(item.y - o.last.y - Median3(o.y))) \div 2

WritePOINT10(o, item) ==
  LET last == o.last
      dx == item.x - last.x
      dy == item.y - last.y
      put(bit, symbols) == Opt(Bit(ChangedPOINT10(last, item), bit), symbols)
  IN [state |-> [last |-> item, x |-> Append(Tail(o.x), dx), y |-> Append(Tail(o.y), dy)],
      symbols |-> Compress(<<"ic_dx">>, Median3(o.x), dx)
                  \o Compress(<<"ic_dy", Least(SizeX(o, item), 19)>>, Median3(o.y), dy)
                  \o Compress(<<"ic_z", Least(SizeXY(o, item), 19)>>, last.z, item.z)
                  \o Put(<<"changed_values">>, ChangedPOINT10(last, item))
                  \o put(5, Compress(<<"ic_intensity">>, last.intensity, item.intensity))
                  \o put(4, Put(<<"bit_byte", last.bits>>, item.bits))
                  \o put(3, Put(<<"classification", last.class>>, item.class))
                  \o put(2, Compress(<<"ic_scan_angle", Flag(SizeXY(o, item) < 3, 0)>>, last.angle, item.angle))
                  \o put(1, Put(<<"user_data", last.user>>, item.user))
                  \o put(0, Compress(<<"ic_point_source">>, last.source, item.source))]

\* The reader: coordinates first, then what the mask says changed.
ReadCoordinatesV1(o, start) ==
  LET x(a) == Took(a, "x", Decompress(a.thread, <<"ic_dx">>, Median3(o.x)))
      y(a) == Took(a, "y", Decompress(a.thread, <<"ic_dy", Least(SizeX(o, a.item), 19)>>, Median3(o.y)))
      z(a) == Got(a, "z", Decompress(a.thread, <<"ic_z", Least(SizeXY(o, a.item), 19)>>, o.last.z))
  IN z(y(x(start)))

ReadAttributesV1(o, start) ==
  LET last == o.last
      ask(a, bit, field, model) == Got(a, field, AskIf(Bit(a.mask, bit), a.thread, model, last[field]))
      integer(a, bit, field, model) == Got(a, field, DecompressIf(Bit(a.mask, bit), a.thread, model, last[field]))
      angle(a) == integer(a, 2, "angle", <<"ic_scan_angle", Flag(SizeXY(o, a.item) < 3, 0)>>)
      intensity == integer(start, 5, "intensity", <<"ic_intensity">>)
      bits  == ask(intensity, 4, "bits", <<"bit_byte", last.bits>>)
      class == ask(bits, 3, "class", <<"classification", last.class>>)
      user  == ask(angle(class), 1, "user", <<"user_data", last.user>>)
  IN integer(user, 0, "source", <<"ic_point_source">>)

ReadPOINT10(o, d) ==
  LET masked(a) == LET mask == Ask(a.thread, <<"changed_values">>) IN Item(mask, mask.value, a.item)
      read(a) == [state |-> [last |-> a.item, x |-> Append(Tail(o.x), a.item.x - o.last.x),
                             y |-> Append(Tail(o.y), a.item.y - o.last.y)],
                  item |-> a.item, thread |-> a.thread]
  IN read(ReadAttributesV1(o, masked(ReadCoordinatesV1(o, Item(d, 0, o.last)))))

\* GPSTIME11: one sequence --------------------------------------------------
WriterInitGPSTIME11(item) == [last |-> item, diff |-> 0, extreme |-> 0]

ReaderInitGPSTIME11(item) == [last |-> item, diff |-> 0, extreme |-> 0]

\* Quotient and a half, towards zero, as a cast to an integer does.
RoundedV1(a, b) == IF (a < 0) = (b < 0) THEN (2 * Magnitude(a) + Magnitude(b)) \div (2 * Magnitude(b)) ELSE 0

MultipleV1(diff, base) == Least(RoundedV1(diff, base), MULTIMAX - 3)

PredictionV1(multi, base) == IF multi = 0 THEN Quotient(base, 4) ELSE multi * base

ContextV1(multi) ==
  CASE multi = 1 -> 1
    [] multi = 0 -> 2
    [] multi > 1 /\ multi < MultiV1[1] -> 3
    [] multi >= MultiV1[1] /\ multi < MultiV1[2] -> 4
    [] OTHER -> 5

AfterMultipleV1(o, multi, diff) ==
  LET extreme == multi \in {0, MULTIMAX - 3}
      full == extreme /\ o.extreme = MaxExtremeV1
  IN [last |-> o.last + diff,
      diff |-> IF multi = 1 \/ full THEN diff ELSE o.diff,
      extreme |-> IF multi = 1 \/ full THEN 0 ELSE IF extreme THEN o.extreme + 1 ELSE o.extreme]

WriteGPSTIME11(o, item) ==
  LET diff  == item - o.last
      multi == MultipleV1(diff, o.diff)
      model == IF o.diff = 0 THEN <<"gpstime_0diff">> ELSE <<"gpstime_multi">>
  IN CASE diff = 0 -> [state |-> o, symbols |-> Put(model, IF o.diff = 0 THEN 0 ELSE MULTIMAX - 1)]
       [] diff # 0 /\ ~Fits(diff) ->
            [state |-> [o EXCEPT !.last = item],
             symbols |-> Put(model, IF o.diff = 0 THEN 2 ELSE MULTIMAX - 2) \o Put(<<"raw">>, item)]
       [] diff # 0 /\ Fits(diff) /\ o.diff = 0 ->
            [state |-> [o EXCEPT !.last = item, !.diff = diff],
             symbols |-> Put(model, 1) \o Compress(<<"ic_gpstime", 0>>, 0, diff)]
       [] OTHER ->
            [state |-> AfterMultipleV1(o, multi, diff),
             symbols |-> Put(model, multi)
                         \o Compress(<<"ic_gpstime", ContextV1(multi)>>, PredictionV1(multi, o.diff), diff)]

ReadGPSTIME11(o, d) ==
  LET read(state, thread) == [state |-> state, item |-> state.last, thread |-> thread]
      raw(t) == read([o EXCEPT !.last = t.value], t)
      first(t) == read([o EXCEPT !.last = @ + t.value, !.diff = t.value], t)
      multiple(multi, t) == read(AfterMultipleV1(o, multi, t.value), t)
      announced(sym) ==
        CASE o.diff = 0 /\ sym.value = 1 -> first(Decompress(sym, <<"ic_gpstime", 0>>, 0))
          [] sym.value = (IF o.diff = 0 THEN 2 ELSE MULTIMAX - 2) -> raw(Ask(sym, <<"raw">>))
          [] o.diff # 0 /\ sym.value < MULTIMAX - 2 ->
               multiple(sym.value, Decompress(sym, <<"ic_gpstime", ContextV1(sym.value)>>,
                                              PredictionV1(sym.value, o.diff)))
          [] OTHER -> read(o, sym)
  IN announced(Ask(d, IF o.diff = 0 THEN <<"gpstime_0diff">> ELSE <<"gpstime_multi">>))

\* RGB12, WAVEPACKET13, BYTE ---------------------------------------------------
WriterInitRGB12(item) == [last |-> item]

ReaderInitRGB12(item) == [last |-> item]

WriteRGB12(o, item) == [state |-> [last |-> item], symbols |-> WriteRGB1(o.last, item)]

ReadRGB12(o, d) ==
  LET read(r) == [state |-> [last |-> r.colour], item |-> r.colour, thread |-> r.thread]
  IN read(ReadRGB1(o.last, d))

WriterInitWAVEPACKET13(item) == FirstPacket(item)

ReaderInitWAVEPACKET13(item) == FirstPacket(item)

WriteWAVEPACKET13(o, item) == WriteWavePacket(0, o, item)

ReadWAVEPACKET13(o, d) == ReadWavePacket(0, o, d)

WriterInitBYTE(item) == [last |-> item]

ReaderInitBYTE(item) == [last |-> item]

WriteBYTE(o, item) ==
  [state |-> [last |-> item],
   symbols |-> [i \in 1 .. Len(item) |-> Compress(<<"ic_byte", i>>, o.last[i], item[i])[1]]]

\* BYTE of two bytes, as the runs use it, is read byte by byte.
ReadBYTE(o, d) ==
  LET byte(a, i) == Got(a, i, Decompress(a.thread, <<"ic_byte", i>>, o.last[i]))
      read(a) == [state |-> [last |-> a.item], item |-> a.item, thread |-> a.thread]
  IN read(byte(byte(Item(d, 0, o.last), 1), 2))

\* The virtual functions of an item.
WriterInit(type, item) ==
  CASE type = "POINT10" -> WriterInitPOINT10(item)
    [] type = "GPSTIME11" -> WriterInitGPSTIME11(item)
    [] type = "RGB12" -> WriterInitRGB12(item)
    [] type = "WAVEPACKET13" -> WriterInitWAVEPACKET13(item)
    [] type = "BYTE" -> WriterInitBYTE(item)

Write(type, o, item) ==
  CASE type = "POINT10" -> WritePOINT10(o, item)
    [] type = "GPSTIME11" -> WriteGPSTIME11(o, item)
    [] type = "RGB12" -> WriteRGB12(o, item)
    [] type = "WAVEPACKET13" -> WriteWAVEPACKET13(o, item)
    [] type = "BYTE" -> WriteBYTE(o, item)

ReaderInit(type, item) ==
  CASE type = "POINT10" -> ReaderInitPOINT10(item)
    [] type = "GPSTIME11" -> ReaderInitGPSTIME11(item)
    [] type = "RGB12" -> ReaderInitRGB12(item)
    [] type = "WAVEPACKET13" -> ReaderInitWAVEPACKET13(item)
    [] type = "BYTE" -> ReaderInitBYTE(item)

Read(type, o, d) ==
  CASE type = "POINT10" -> ReadPOINT10(o, d)
    [] type = "GPSTIME11" -> ReadGPSTIME11(o, d)
    [] type = "RGB12" -> ReadRGB12(o, d)
    [] type = "WAVEPACKET13" -> ReadWAVEPACKET13(o, d)
    [] type = "BYTE" -> ReadBYTE(o, d)
==============================================================================
