------------------------------ MODULE ColourBytes ------------------------------
(***************************************************************************)
(* Red, green and blue of 16 bits, coded byte by byte: a mask of the bytes *)
(* that changed, the changes of red, and the distance of green and blue    *)
(* from what the changes so far predict.  A grey colour is its red.  c is  *)
(* the scanner channel; versions 2, 3 and 4 code alike.                    *)
(***************************************************************************)
EXTENDS SymbolStream

\* The low (0) and the high (1) byte of a channel.
Byte(v, h) == IF h = 0 THEN v % 256 ELSE v \div 256

Grey(colour) == colour[1] = colour[2] /\ colour[2] = colour[3]

ByteChanged(last, colour, i, h) == Byte(last[i], h) # Byte(colour[i], h)

ByteMask(last, colour) ==
  LET bit(i, h) == Flag(ByteChanged(last, colour, i, h), 2 * (i - 1) + h)
  IN bit(1, 0) + bit(1, 1) + bit(2, 0) + bit(2, 1) + bit(3, 0) + bit(3, 1) + Flag(~Grey(colour), 6)

Used(c)        == <<"rgb_bytes_used", c>>
RgbDiff(c, i, h) == <<"rgb_diff", c, 2 * (i - 1) + h>>

\* A byte is predicted from the last colour's and from the channels before it.
Predict(last, byte(_, _), i, h) ==
  LET change(j) == byte(j, h) - Byte(last[j], h)
  IN CASE i = 1 -> Byte(last[1], h)
       [] i = 2 -> U8_CLAMP(change(1) + Byte(last[2], h))
       [] i = 3 -> U8_CLAMP(Quotient(change(1) + change(2), 2) + Byte(last[3], h))

WriteRGB(c, last, colour) ==
  LET byte(i, h) == Byte(colour[i], h)
      put(i, h) == Opt(ByteChanged(last, colour, i, h),
                       Put(RgbDiff(c, i, h), U8_FOLD(byte(i, h) - Predict(last, byte, i, h))))
  IN Put(Used(c), ByteMask(last, colour)) \o put(1, 0) \o put(1, 1)
     \o Opt(~Grey(colour), put(2, 0) \o put(3, 0) \o put(2, 1) \o put(3, 1))

\* The reader gathers the bytes; a byte that did not change is the last one's.
Bytes6(last) == [b \in (1 .. 3) \X {0, 1} |-> Byte(last[b[1]], b[2])]

Colour(bytes, channels) == [i \in 1 .. 3 |-> bytes[channels[i], 0] + 256 * bytes[channels[i], 1]]

ReadRGBByte(c, last, a, i, h) ==
  LET byte(j, k) == a.item[j, k]
      diff == Ask(a.thread, RgbDiff(c, i, h))
  IN IF Bit(a.mask, 2 * (i - 1) + h)
     THEN Got(a, <<i, h>>, [diff EXCEPT !.value = U8_FOLD(@ + Predict(last, byte, i, h))])
     ELSE a

ReadRGBBytes(c, last, mask) ==
  LET byte(a, i, h) == ReadRGBByte(c, last, a, i, h)
      red == byte(byte(Item(mask, mask.value, Bytes6(last)), 1, 0), 1, 1)
      all == byte(byte(byte(byte(red, 2, 0), 3, 0), 2, 1), 3, 1)
      colour(a, channels) == [colour |-> Colour(a.item, channels), thread |-> a.thread]
  IN IF Bit(mask.value, 6) THEN colour(all, <<1, 2, 3>>) ELSE colour(red, <<1, 1, 1>>)

ReadRGB(c, last, d) == ReadRGBBytes(c, last, Ask(d, Used(c)))

\* Near infrared: one channel of two bytes.
NirUsed(c)    == <<"nir_bytes_used", c>>
NirDiff(c, h) == <<"nir_diff", c, h>>

NirMask(last, nir) == Flag(Byte(last, 0) # Byte(nir, 0), 0) + Flag(Byte(last, 1) # Byte(nir, 1), 1)

WriteNIR(c, last, nir) ==
  LET put(h) == Opt(Byte(last, h) # Byte(nir, h),
                    Put(NirDiff(c, h), U8_FOLD(Byte(nir, h) - Byte(last, h))))
  IN Put(NirUsed(c), NirMask(last, nir)) \o put(0) \o put(1)

ReadNIRBytes(c, last, mask) ==
  LET byte(a, h) == IF Bit(a.mask, h)
                    THEN LET diff == Ask(a.thread, NirDiff(c, h))
                         IN Got(a, h, [diff EXCEPT !.value = U8_FOLD(@ + Byte(last, h))])
                    ELSE a
      nir(a) == [nir |-> a.item[0] + 256 * a.item[1], thread |-> a.thread]
  IN nir(byte(byte(Item(mask, mask.value, [h \in {0, 1} |-> Byte(last, h)]), 0), 1))

ReadNIR(c, last, d) == ReadNIRBytes(c, last, Ask(d, NirUsed(c)))

\* Version 1: the six bytes by their distance from the last ones.
WriteRGB1(last, colour) ==
  LET put(i, h) == Opt(ByteChanged(last, colour, i, h),
                       Compress(<<"ic_rgb", 2 * (i - 1) + h>>, Byte(last[i], h), Byte(colour[i], h)))
      mask == ByteMask(last, colour) % 64
  IN Put(<<"byte_used">>, mask) \o put(1, 0) \o put(1, 1) \o put(2, 0) \o put(2, 1) \o put(3, 0) \o put(3, 1)

ReadRGB1Bytes(last, mask) ==
  LET byte(a, i, h) ==
        LET bit == 2 * (i - 1) + h
        IN IF Bit(a.mask, bit) THEN Got(a, <<i, h>>, Decompress(a.thread, <<"ic_rgb", bit>>, Byte(last[i], h))) ELSE a
      channel(a, i) == byte(byte(a, i, 0), i, 1)
      colour(a) == [colour |-> Colour(a.item, <<1, 2, 3>>), thread |-> a.thread]
  IN colour(channel(channel(channel(Item(mask, mask.value, Bytes6(last)), 1), 2), 3))

ReadRGB1(last, d) == ReadRGB1Bytes(last, Ask(d, <<"byte_used">>))
==============================================================================
