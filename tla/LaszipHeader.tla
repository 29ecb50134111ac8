---------------------------- MODULE LaszipHeader ----------------------------
(***************************************************************************)
(* The header of laszip_dll with its variable length records (VLRs), the   *)
(* LASzip record that is put into a compressed file, and the conversion of *)
(* a LAS 1.4 or 1.5 header to the "compatibility mode" and back.           *)
(*                                                                         *)
(* A header has: minor, format, length (of a point), size, offset (of the  *)
(* points), in_header and after (the bytes of user data in and after the   *)
(* header), vlrs, wkt (a bit of global_encoding), count, by, extended (the *)
(* extended counters), box and gps (the largest and smallest time).  A VLR *)
(* is its id, length and data; that of the extra bytes holds attributes,   *)
(* each a name and a size.  Counters stay far below 2^32.                  *)
(***************************************************************************)
EXTENDS Integers, Sequences, SequencesExt, FiniteSetsExt

Sum(s) ==
  LET UpTo[n \in 0..Len(s)] == IF n = 0 THEN 0 ELSE UpTo[n-1] + s[n]
  IN UpTo[Len(s)]

-----------------------------------------------------------------------------
(* LASattributer: attributes follow each other in the extra bytes. *)

SizeOf(attributes) == Sum([i \in DOMAIN attributes |-> attributes[i].size])
IndicesOf(attributes, name) == {i \in DOMAIN attributes : attributes[i].name = name}
StartOf(attributes, name) ==
  IF IndicesOf(attributes, name) = {} THEN -1
  ELSE SizeOf(SubSeq(attributes, 1, Min(IndicesOf(attributes, name)) - 1))
WithoutAttribute(attributes, name) ==
  IF IndicesOf(attributes, name) = {} THEN attributes
  ELSE RemoveAt(attributes, Min(IndicesOf(attributes, name)))

-----------------------------------------------------------------------------
(* VLRs *)

ExtraBytesVLR == "LASF_Spec 4"
CompatibilityVLR == "lascompatible 22204"
LASzipVLR == "laszip encoded 22204"
WktVLR == "LASF_Projection 2112"

VlrBytes(vlrs) == Sum([i \in DOMAIN vlrs |-> 54 + vlrs[i].length])
Where(h, id) == {i \in DOMAIN h.vlrs : h.vlrs[i].id = id}
HasVlr(h, id) == Where(h, id) # {}
Vlr(h, id) == h.vlrs[Min(Where(h, id))]

\* Fault: a VLR that is there is not replaced.
AppendedVlr(h, id, length, data) ==
  [h EXCEPT !.vlrs = Append(@, [id |-> id, length |-> length, data |-> data]),
            !.offset = @ + 54 + length]

\* laszip_add_vlr(): in place of the one there is, or behind all others.
WithVlr(h, id, length, data) ==
  LET vlr == [id |-> id, length |-> length, data |-> data]
  IN IF HasVlr(h, id)
     THEN [h EXCEPT !.vlrs[Min(Where(h, id))] = vlr,
                    !.offset = @ - Vlr(h, id).length + length]
     ELSE [h EXCEPT !.vlrs = Append(@, vlr), !.offset = @ + 54 + length]

WithAttributes(h, attributes) ==
  WithVlr(h, ExtraBytesVLR, 192 * Len(attributes), attributes)

\* Fault: the offset still counts the header of the VLR.
WithoutVlrData(h, id) ==
  [h EXCEPT !.vlrs = RemoveAt(@, Min(Where(h, id))), !.offset = @ - Vlr(h, id).length]

\* laszip_remove_vlr(): the offset forgets about a VLR only if it has data.
WithoutVlr(h, id) ==
  [h EXCEPT !.vlrs = RemoveAt(@, Min(Where(h, id))),
            !.offset = @ - (IF Vlr(h, id).length = 0 THEN 0 ELSE 54 + Vlr(h, id).length)]

-----------------------------------------------------------------------------
(* What the fields of a header may hold: any sizes, right or wrong. *)

AreAttributes(attributes) ==
  /\ attributes \in Seq(Range(attributes))
  /\ \A i \in DOMAIN attributes : attributes[i].size \in Nat

\* The VLR of the extra bytes has a descriptor of 192 bytes for each attribute.
IsVlr(v) ==
  /\ v = [id |-> v.id, length |-> v.length, data |-> v.data]
  /\ v.length \in Nat
  /\ v.id = ExtraBytesVLR => AreAttributes(v.data) /\ v.length = 192 * Len(v.data)

AreVlrs(vlrs) ==
  vlrs \in Seq(Range(vlrs)) /\ \A i \in DOMAIN vlrs : IsVlr(vlrs[i])

HeaderFields ==
  {"minor", "format", "length", "size", "offset", "in_header", "after", "vlrs", "wkt",
   "count", "by", "extended", "box", "gps"}

IsHeader(h) ==
  /\ DOMAIN h = HeaderFields
  /\ h.minor \in 0..5 /\ h.format \in 0..10 /\ h.length \in Int
  /\ h.size \in Int /\ h.offset \in Int /\ h.after \in Int
  /\ AreVlrs(h.vlrs)

-----------------------------------------------------------------------------
(* LASzip *)

\* The bytes of a point of each format without extra bytes.
PointSize(format) == <<20, 28, 26, 34, 57, 63, 30, 36, 38, 59, 67>>[format + 1]
ExtraBytes(format, length) == length - PointSize(format)

\* setup(): with compatible, points of LAS 1.4 are old ones with extra bytes.
Items(format, length, compatible) ==
  LET point14 == format > 5 /\ ~compatible
      rgb == format \in {2, 3, 5, 7, 8, 10}
      nir == format \in {8, 10}
      extra == Max({ExtraBytes(format, length), 0})
                 + (IF format > 5 /\ compatible THEN IF nir THEN 7 ELSE 5 ELSE 0)
      Kind(old, new) == IF point14 THEN new ELSE old
      If(there, type, size) == IF there THEN <<[type |-> type, size |-> size]>> ELSE <<>>
  IN If(TRUE, Kind("POINT10", "POINT14"), Kind(20, 30))
     \o If(~point14 /\ format \notin {0, 2}, "GPSTIME11", 8)
     \o If(rgb, Kind("RGB12", IF nir THEN "RGBNIR14" ELSE "RGB14"),
                IF point14 /\ nir THEN 8 ELSE 6)
     \o If(format \in {4, 5, 9, 10}, Kind("WAVEPACKET13", "WAVEPACKET14"), 29)
     \o If(extra > 0, Kind("BYTE", "BYTE14"), extra)

Types(items) == {items[i].type : i \in DOMAIN items}
Items14 == {"POINT14", "RGB14", "RGBNIR14", "WAVEPACKET14", "BYTE14"}

\* get_default_version() and request_version().
DefaultVersion(format, minor) == IF format <= 5 THEN 2 ELSE IF minor >= 5 THEN 4 ELSE 3
WithVersions(items, requested) ==
  [i \in DOMAIN items |->
     [type |-> items[i].type, size |-> items[i].size,
      version |-> IF items[i].type = "WAVEPACKET13" THEN 1
                  ELSE IF items[i].type \in Items14 THEN Max({3, requested})
                  ELSE Min({2, requested})]]

\* check_item() and check_items().
FitsItem(item) ==
  /\ item.size = CASE item.type = "POINT10" -> 20 [] item.type = "GPSTIME11" -> 8
                   [] item.type \in {"RGB12", "RGB14"} -> 6 [] item.type = "RGBNIR14" -> 8
                   [] item.type = "POINT14" -> 30
                   [] item.type \in {"WAVEPACKET13", "WAVEPACKET14"} -> 29
                   [] OTHER -> Max({1, item.size})
  /\ item.version \in CASE item.type = "WAVEPACKET13" -> {0, 1}
                         [] item.type = "WAVEPACKET14" -> {0, 3, 4}
                         [] item.type \in Items14 -> {0, 2, 3, 4}
                         [] OTHER -> {0, 1, 2}
FitItems(items, length) ==
  /\ \A i \in DOMAIN items : FitsItem(items[i])
  /\ length = Sum([i \in DOMAIN items |-> items[i].size])
  /\ \/ \A i \in DOMAIN items : items[i].type \in Items14
     \/ \A i \in DOMAIN items : items[i].type \notin Items14
  /\ IsInjective([i \in DOMAIN items |-> items[i].type])

-----------------------------------------------------------------------------
(* Writing a header *)

FixedSize(minor) == IF minor >= 5 THEN 393 ELSE IF minor = 4 THEN 375
                    ELSE IF minor = 3 THEN 235 ELSE 227

\* laszip_prepare_header_for_write(): the old counters are zero or agree with
\* the extended ones; they are filled in one by one until one does not.
AgreeUpTo(h, r) ==
  h.count \in {0, h.extended.count} /\ \A q \in 1..r : h.by[q] \in {0, h.extended.by[q]}

CountersAgree(h) == h.format <= 5 /\ h.minor > 3 => AgreeUpTo(h, 5)

WithOldCounters(h) ==
  CASE h.format > 5 -> [h EXCEPT !.count = 0, !.by = [r \in 1..5 |-> 0]]
    [] h.format <= 5 /\ h.minor > 3 ->
         [h EXCEPT !.count = IF AgreeUpTo(h, 0) THEN h.extended.count ELSE @,
                   !.by = [r \in 1..5 |-> IF AgreeUpTo(h, r) THEN h.extended.by[r] ELSE @[r]]]
    [] OTHER -> h

\* laszip_prepare_vlrs_for_write()
OffsetIsRight(h) == VlrBytes(h.vlrs) + h.size + h.after = h.offset

\* laszip_write_header(): the LASzip VLR is in the file, not in the header;
\* starts_at counts the bytes that are put before the points.
WrittenHeader(h, items, compress) ==
  LET vlr == [id |-> LASzipVLR, length |-> 34 + 6 * Len(items), data |-> items]
      vlrs == IF compress THEN Append(h.vlrs, vlr) ELSE h.vlrs
      in_header == h.size - FixedSize(h.minor)
  IN [header |-> [h EXCEPT !.in_header = in_header, !.vlrs = vlrs,
                           !.offset = IF compress THEN @ + 54 + vlr.length ELSE @],
      starts_at |-> FixedSize(h.minor) + in_header + VlrBytes(vlrs) + h.after]

-----------------------------------------------------------------------------
(* laszip_prepare_point_for_write() in compatibility mode *)

\* A header of LAS 1.2 or 1.3, shorter by what the later one has more.
Shortened(h, minor, less) ==
  LET fewer == (IF h.minor >= 4 THEN less ELSE 0) + (IF h.minor >= 5 THEN 18 ELSE 0)
  IN [h EXCEPT !.size = @ - fewer, !.offset = @ - fewer, !.minor = minor]

WithCompatibility(h, minor_orig) ==
  WithVlr(h, CompatibilityVLR, IF minor_orig >= 5 THEN 174 ELSE 156,
    [version |-> IF minor_orig = 5 THEN 4 ELSE 3, extended |-> h.extended,
     gps |-> IF minor_orig >= 5 THEN h.gps ELSE <<>>])

Downgraded(h) ==
  LET old == IF h.format <= 8 THEN Shortened(h, 2, 148) ELSE Shortened(h, 3, 140)
  IN WithCompatibility([old EXCEPT !.count = h.extended.count,
                                   !.by = [r \in 1..5 |-> h.extended.by[r]],
                                   !.wkt = FALSE, !.length = @ - 2 + 5], h.minor)

ScanAngle == [name |-> "LAS 1.4 scan angle", size |-> 2]
ExtendedReturns == [name |-> "LAS 1.4 extended returns", size |-> 1]
Classification == [name |-> "LAS 1.4 classification", size |-> 1]
FlagsAndChannel == [name |-> "LAS 1.4 flags and channel", size |-> 1]
NIRBand == [name |-> "LAS 1.4 NIR band", size |-> 2]

\* Fault: extra bytes that no attribute describes are forgotten.
Undescribed(attributes, h, existing) == attributes

\* The extra bytes there are are described first, one by one if need be.
Described(attributes, h, existing) ==
  IF existing = 0 \/ SizeOf(attributes) >= existing THEN attributes
  ELSE LET known == IF HasVlr(h, ExtraBytesVLR) THEN Vlr(h, ExtraBytesVLR).data ELSE attributes
       IN known \o [i \in 1..Max({0, existing - SizeOf(known)}) |->
                      [name |-> "unknown", size |-> 1]]

ForOldPoints(attributes, format) ==
  attributes \o <<ScanAngle, ExtendedReturns, Classification, FlagsAndChannel>>
             \o (IF format \in {8, 10} THEN <<NIRBand>> ELSE <<>>)

Starts(attributes) ==
  [scan_angle |-> StartOf(attributes, ScanAngle.name),
   returns |-> StartOf(attributes, ExtendedReturns.name),
   classification |-> StartOf(attributes, Classification.name),
   flags |-> StartOf(attributes, FlagsAndChannel.name),
   nir |-> StartOf(attributes, NIRBand.name)]

\* Fault: colours and wave packets together become wave packets.
OldFormatOfWavePackets(format) ==
  IF format = 6 THEN 1 ELSE IF format <= 8 THEN 3 ELSE 4

OldFormat(format) == IF format = 6 THEN 1 ELSE IF format <= 8 THEN 3 ELSE format - 5

-----------------------------------------------------------------------------
(* laszip_read_header() *)

\* The header without the LASzip VLR, and the user data behind the VLRs.
ReadBack(header) ==
  LET h == IF HasVlr(header, LASzipVLR) THEN WithoutVlr(header, LASzipVLR) ELSE header
  IN [h EXCEPT !.in_header = h.size - FixedSize(h.minor),
               !.after = h.offset - VlrBytes(h.vlrs) - h.size]

\* Whether a header is one of compatibility mode.
IsCompatible(h) ==
  /\ h.minor < 4 /\ h.format \in {1, 3, 4, 5}
  /\ HasVlr(h, CompatibilityVLR) /\ Vlr(h, CompatibilityVLR).length \in {156, 174}

NewFormat(format, nir) ==
  IF format = 1 THEN 6 ELSE (IF format = 3 THEN 7 ELSE 9) + (IF nir = -1 THEN 0 ELSE 1)

\* Fault: whatever comes back is LAS 1.4.
LengthenedTo14(h, version, more) ==
  [h EXCEPT !.size = @ + more, !.offset = @ + more, !.minor = 4]

Lengthened(h, version, more) ==
  LET added == more + (IF version = 4 THEN 18 ELSE 0)
  IN [h EXCEPT !.size = @ + added, !.offset = @ + added, !.minor = IF version = 4 THEN 5 ELSE 4]

WithoutOldPoints(attributes) ==
  LET without_nir     == WithoutAttribute(attributes, NIRBand.name)
      without_flags   == WithoutAttribute(without_nir, FlagsAndChannel.name)
      without_class   == WithoutAttribute(without_flags, Classification.name)
      without_returns == WithoutAttribute(without_class, ExtendedReturns.name)
  IN WithoutAttribute(without_returns, ScanAngle.name)

WithTheRest(h, attributes) ==
  IF attributes = <<>> THEN WithoutVlr(h, ExtraBytesVLR) ELSE WithAttributes(h, attributes)

Upgraded(h, start) ==
  LET kept == Vlr(h, CompatibilityVLR).data
      bare == WithTheRest(WithoutVlr(h, CompatibilityVLR),
                          WithoutOldPoints(Vlr(h, ExtraBytesVLR).data))
      new == Lengthened(bare, kept.version, IF h.minor < 3 THEN 148 ELSE 140)
  IN [new EXCEPT !.extended = kept.extended,
                 !.gps = IF kept.version = 4 THEN kept.gps ELSE @,
                 !.wkt = @ \/ HasVlr(bare, WktVLR),
                 !.format = NewFormat(@, start.nir), !.length = @ + 2 - 5]
=============================================================================
