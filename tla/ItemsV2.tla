-------------------------------- MODULE ItemsV2 --------------------------------
(***************************************************************************)
(* The item compressors of version 2, as those of version 1 in ItemsV1     *)
(* (WAVEPACKET13 has no version 2): POINT10 predicts by the return, and    *)
(* GPSTIME11 by four sequences.                                            *)
(***************************************************************************)
EXTENDS ColourBytes, ReturnContexts, GpsSequences

\* A value per context, initially the same in all.
At(f, i, initial) == IF i \in DOMAIN f THEN f[i] ELSE initial

\* The byte of returns and scan direction.
ReturnNumber(bits)    == bits % 8
NumberOfReturns(bits) == (bits \div 8) % 8
ScanDirection(bits)   == (bits \div 64) % 2

\* POINT10 -------------------------------------------------------------------
NoPoint == <<>>          \* no context used so far

WriterInitPOINT10(item) ==
  [last |-> item, x |-> NoPoint, y |-> NoPoint, intensity |-> NoPoint, height |-> NoPoint]

\* Fault: the reader starts with the intensity of the first point.
IntensityOfFirstPointKept(item) ==
  [last |-> item, x |-> NoPoint, y |-> NoPoint, intensity |-> NoPoint, height |-> NoPoint]

\* The reader starts with an intensity of zero, as the contexts do.
ReaderInitPOINT10(item) ==
  [last |-> [item EXCEPT !.intensity = 0],
   x |-> NoPoint, y |-> NoPoint, intensity |-> NoPoint, height |-> NoPoint]

\* The contexts of a point with these bits.
Situation(o, bits) ==
  LET n == NumberOfReturns(bits)
      m == ReturnMap(n, ReturnNumber(bits))
      l == ReturnLevel(n, ReturnNumber(bits))
  IN [m |-> m, l |-> l, single |-> Flag(n = 1, 0),
      x |-> At(o.x, m, StreamingMedian5), y |-> At(o.y, m, StreamingMedian5),
      intensity |-> At(o.intensity, m, 0), height |-> At(o.height, l, 0)]

\* The sizes of the correctors of x, and of x and y, choose the contexts of y and z.
SizeX(o, s, item) == K(item.x - o.last.x - Median(s.x))

ContextY(o, s, item) ==
  s.single + (IF SizeX(o, s, item) < 20 THEN U32_ZERO_BIT_0(SizeX(o, s, item)) ELSE 20)

ContextZ(o, s, item) ==
  LET k == (SizeX(o, s, item) + K(item.y - o.last.y - Median(s.y))) \div 2
  IN s.single + (IF k < 18 THEN U32_ZERO_BIT_0(k) ELSE 18)

\* What both ends remember of a point.
Remember(o, s, item, intensityCoded) ==
  [last |-> item,
   x |-> (s.m :> AddToMedian(s.x, item.x - o.last.x)) @@ o.x,
   y |-> (s.m :> AddToMedian(s.y, item.y - o.last.y)) @@ o.y,
   intensity |-> IF intensityCoded THEN (s.m :> item.intensity) @@ o.intensity ELSE o.intensity,
   height |-> (s.l :> item.z) @@ o.height]

ChangedPOINT10(s, last, item) ==
  Flag(last.bits # item.bits, 5) + Flag(s.intensity # item.intensity, 4)
  + Flag(last.class # item.class, 3) + Flag(last.angle # item.angle, 2)
  + Flag(last.user # item.user, 1) + Flag(last.source # item.source, 0)

WritePOINT10(o, item) ==
  LET last == o.last
      s  == Situation(o, item.bits)
      mask == ChangedPOINT10(s, last, item)
      put(bit, symbols) == Opt(Bit(mask, bit), symbols)
  IN [state |-> Remember(o, s, item, Bit(mask, 4)),
      symbols |-> Put(<<"changed_values">>, mask)
                  \o put(5, Put(<<"bit_byte", last.bits>>, item.bits))
                  \o put(4, Compress(<<"ic_intensity", Least(s.m, 3)>>, s.intensity, item.intensity))
                  \o put(3, Put(<<"classification", last.class>>, item.class))
                  \o put(2, Put(<<"scan_angle", ScanDirection(item.bits)>>, U8_FOLD(item.angle - last.angle)))
                  \o put(1, Put(<<"user_data", last.user>>, item.user))
                  \o put(0, Compress(<<"ic_point_source">>, last.source, item.source))
                  \o Compress(<<"ic_dx", s.single>>, Median(s.x), item.x - last.x)
                  \o Compress(<<"ic_dy", ContextY(o, s, item)>>, Median(s.y), item.y - last.y)
                  \o Compress(<<"ic_z", ContextZ(o, s, item)>>, s.height, item.z)]

\* The reader: what the mask says changed, under the contexts that the bits tell.
ReadAttributes(o, s, start) ==
  LET last == o.last
      ask(a, bit, field, model) == Got(a, field, AskIf(Bit(a.mask, bit), a.thread, model, last[field]))
      integer(a, bit, field, model, pred) ==
        Got(a, field, DecompressIf(Bit(a.mask, bit), a.thread, model, pred))
      intensity == IF start.mask = 0 THEN start
                   ELSE integer(start, 4, "intensity", <<"ic_intensity", Least(s.m, 3)>>, s.intensity)
      class == ask(intensity, 3, "class", <<"classification", last.class>>)
      angle(a) ==
        LET diff == AskIf(Bit(a.mask, 2), a.thread, <<"scan_angle", ScanDirection(a.item.bits)>>, 0)
        IN Got(a, "angle", [diff EXCEPT !.value = U8_FOLD(last.angle + @)])
      user  == ask(angle(class), 1, "user", <<"user_data", last.user>>)
  IN integer(user, 0, "source", <<"ic_point_source">>, last.source)

ReadCoordinates(o, s, start) ==
  LET x(a) == Took(a, "x", Decompress(a.thread, <<"ic_dx", s.single>>, Median(s.x)))
      y(a) == Took(a, "y", Decompress(a.thread, <<"ic_dy", ContextY(o, s, a.item)>>, Median(s.y)))
      z(a) == Got(a, "z", Decompress(a.thread, <<"ic_z", ContextZ(o, s, a.item)>>, s.height))
  IN z(y(x(start)))

ReadPOINT10(o, d) ==
  LET masked(mask) == Item(mask, mask.value, o.last)
      bits(a) == Got(a, "bits", AskIf(Bit(a.mask, 5), a.thread, <<"bit_byte", o.last.bits>>, o.last.bits))
      read(a, s) == [state |-> Remember(o, s, a.item, Bit(a.mask, 4)), item |-> a.item, thread |-> a.thread]
      situated(a, s) == read(ReadCoordinates(o, s, ReadAttributes(o, s, a)), s)
      all(a) == situated(a, Situation(o, a.item.bits))
  IN all(bits(masked(Ask(d, <<"changed_values">>))))

\* GPSTIME11 -----------------------------------------------------------------
WriterInitGPSTIME11(item) == FirstTime(item)

ReaderInitGPSTIME11(item) == FirstTime(item)

WriteGPSTIME11(o, item) ==
  LET w == WriteTime(1, 0, o, item) IN [state |-> w.gps, symbols |-> w.symbols]

ReadGPSTIME11(o, d) ==
  LET read(r) == [state |-> r.gps, item |-> r.gps.time[r.gps.last], thread |-> r.thread]
  IN read(ReadTime(1, 0, o, d))

\* RGB12 and BYTE ------------------------------------------------------------
WriterInitRGB12(item) == [last |-> item]

ReaderInitRGB12(item) == [last |-> item]

WriteRGB12(o, item) == [state |-> [last |-> item], symbols |-> WriteRGB(0, o.last, item)]

ReadRGB12(o, d) ==
  LET read(r) == [state |-> [last |-> r.colour], item |-> r.colour, thread |-> r.thread]
  IN read(ReadRGB(0, o.last, d))

WriterInitBYTE(item) == [last |-> item]

ReaderInitBYTE(item) == [last |-> item]

WriteBYTE(o, item) ==
  [state |-> [last |-> item],
   symbols |-> [i \in 1 .. Len(item) |-> Put(<<"byte", i>>, U8_FOLD(item[i] - o.last[i]))[1]]]

\* BYTE of two bytes, as the runs use it, is read byte by byte.
ReadBYTE(o, d) ==
  LET byte(a, i) == LET diff == Ask(a.thread, <<"byte", i>>)
                    IN Got(a, i, [diff EXCEPT !.value = U8_FOLD(o.last[i] + @)])
      read(a) == [state |-> [last |-> a.item], item |-> a.item, thread |-> a.thread]
  IN read(byte(byte(Item(d, 0, o.last), 1), 2))

\* The virtual functions of an item.
WriterInit(type, item) ==
  CASE type = "POINT10" -> WriterInitPOINT10(item)
    [] type = "GPSTIME11" -> WriterInitGPSTIME11(item)
    [] type = "RGB12" -> WriterInitRGB12(item)
    [] type = "BYTE" -> WriterInitBYTE(item)

Write(type, o, item) ==
  CASE type = "POINT10" -> WritePOINT10(o, item)
    [] type = "GPSTIME11" -> WriteGPSTIME11(o, item)
    [] type = "RGB12" -> WriteRGB12(o, item)
    [] type = "BYTE" -> WriteBYTE(o, item)

ReaderInit(type, item) ==
  CASE type = "POINT10" -> ReaderInitPOINT10(item)
    [] type = "GPSTIME11" -> ReaderInitGPSTIME11(item)
    [] type = "RGB12" -> ReaderInitRGB12(item)
    [] type = "BYTE" -> ReaderInitBYTE(item)

Read(type, o, d) ==
  CASE type = "POINT10" -> ReadPOINT10(o, d)
    [] type = "GPSTIME11" -> ReadGPSTIME11(o, d)
    [] type = "RGB12" -> ReadRGB12(o, d)
    [] type = "BYTE" -> ReadBYTE(o, d)
==============================================================================
