------------------------------ MODULE WavePackets ------------------------------
(***************************************************************************)
(* The waveform packet of a point: the offset of the waveform in another   *)
(* file, which often follows from the last offset and packet size, the     *)
(* index of the waveform's description and four numbers more.  c is the    *)
(* scanner channel (0 in version 1).  A packet is [index, offset, size,    *)
(* line], the state of its coder [last, diff, sym].                        *)
(***************************************************************************)
EXTENDS SymbolStream

FirstPacket(item) == [last |-> item, diff |-> 0, sym |-> 0]

\* How the offset follows from the last packet: 0 same, 1 behind it, 2 near it, 3 not.
OffsetSymbol(last, item) ==
  LET diff == item.offset - last.offset
  IN CASE diff = 0 -> 0
       [] diff # 0 /\ Fits(diff) /\ diff = AsI32(last.size) -> 1
       [] diff # 0 /\ Fits(diff) /\ diff # AsI32(last.size) -> 2
       [] OTHER -> 3

OffsetModel(c, sym) == <<"offset_diff", c, sym>>
Line(c, i) == <<IF i = 1 THEN "ic_return_point" ELSE "ic_xyz", c, i>>

WriteWavePacket(c, w, item) ==
  LET sym  == OffsetSymbol(w.last, item)
      diff == item.offset - w.last.offset
      line(i) == Compress(Line(c, i), w.last.line[i], item.line[i])
  IN [state |-> [last |-> item, sym |-> sym, diff |-> IF sym = 2 THEN diff ELSE w.diff],
      symbols |-> Put(<<"packet_index", c>>, item.index) \o Put(OffsetModel(c, w.sym), sym)
                  \o Opt(sym = 2, Compress(<<"ic_offset_diff", c>>, w.diff, diff))
                  \o Opt(sym = 3, Put(<<"raw", c>>, item.offset))
                  \o Compress(<<"ic_packet_size", c>>, w.last.size, item.size)
                  \o line(1) \o line(2) \o line(3) \o line(4)]

ReadOffset(c, w, a, sym) ==
  LET diff == Decompress(sym, <<"ic_offset_diff", c>>, w.diff)
      raw  == Ask(sym, <<"raw", c>>)
      found(d, offset) == [a EXCEPT !.thread = d, !.item.offset = offset, !.sym = sym.value,
                                    !.diff = IF sym.value = 2 THEN d.value ELSE @]
  IN CASE sym.value = 0 -> found(sym, w.last.offset)
       [] sym.value = 1 -> found(sym, w.last.offset + w.last.size)
       [] sym.value = 2 -> found(diff, w.last.offset + diff.value)
       [] OTHER -> found(raw, raw.value)

ReadWavePacket(c, w, d) ==
  LET start == Item(d, 0, w.last) @@ [sym |-> w.sym, diff |-> w.diff]
      index(a)  == Got(a, "index", Ask(a.thread, <<"packet_index", c>>))
      offset(a) == ReadOffset(c, w, a, Ask(a.thread, OffsetModel(c, w.sym)))
      size(a)   == Got(a, "size", Decompress(a.thread, <<"ic_packet_size", c>>, w.last.size))
      number(a, i) ==
        LET l == Decompress(a.thread, Line(c, i), w.last.line[i])
        IN [a EXCEPT !.thread = l, !.item.line[i] = l.value]
      read(a) == [state |-> [last |-> a.item, sym |-> a.sym, diff |-> a.diff], item |-> a.item, thread |-> a.thread]
  IN read(number(number(number(number(size(offset(index(start))), 1), 2), 3), 4))
==============================================================================
