------------------------------ MODULE LaszipDll ------------------------------
(***************************************************************************)
(* The laszip object of the DLL: one object that writes a file through     *)
(* laszip_open_writer(), then reads it through laszip_open_reader(), with  *)
(* or without laszip_clean() between the two, and with the spatial index   *)
(* that may lie beside the file.  The streams of points are those of       *)
(* LasWritePoint and LasReadPoint, here sequences of stored items.         *)
(***************************************************************************)
EXTENDS LaszipHeader, CompatiblePoints, SpatialIndex

CONSTANTS Jobs,     \* what a caller sets out to do; see Caller below
          Behind,   \* bound: how many reads may succeed behind the last point
          Strange   \* where what they return may lie

(***************************************************************************)
(* What is taken of callers: the header they set is one whose offset is    *)
(* right, and of LAS 1.4 or later if it has one of its point types; the    *)
(* VLR of the extra bytes is made by laszip_add_attribute(), or in the     *)
(* header already, and that of compatibility mode by the object; a point   *)
(* is what laszip_point has room for.                                      *)
(***************************************************************************)
IsCall(call) ==
  \/ call.name = "laszip_add_attribute" /\ call.attribute.size \in Nat
  \/ call.name = "laszip_set_point_type_and_size" /\ call.more \in Int
  \/ /\ call.name \in {"laszip_set_geokeys", "laszip_set_geodouble_params",
                       "laszip_set_geoascii_params"}
     /\ call.n \in Nat
  \/ /\ call.name = "laszip_add_vlr" /\ call.length \in Nat
     /\ call.id \notin {ExtraBytesVLR, CompatibilityVLR}
  \/ call.name = "laszip_remove_vlr"
  \/ /\ call.name \in {"laszip_request_native_extension",
                       "laszip_request_compatibility_mode"}
     /\ call.request \in BOOLEAN

ASSUME JobsAssumption ==
  \A j \in Jobs :
    /\ IsHeader(j.header) /\ OffsetIsRight(j.header)
    /\ ~HasVlr(j.header, CompatibilityVLR)
    /\ j.header.format > 5 => j.header.minor >= 4
    /\ j.points \in Seq(LaszipPoint) /\ j.inventory \in BOOLEAN
    /\ \A call \in j.calls : IsCall(call)
    /\ j.targets \subseteq Nat

ASSUME BehindAssumption == Behind \in Nat /\ Strange \subseteq [x : Int, y : Int]

None == [none |-> TRUE]

VARIABLES dll,      \* the fields of laszip_dll_struct
          disk,     \* the LAS or LAZ file and the LAX file
          job,      \* the caller's, one of Jobs
          phase,    \* where the caller is: see Caller below
          calls,    \* how many calls it made before it opened the writer
          lost,     \* the VLRs without data that were removed
          before,   \* the header that the writer was opened with
          given,    \* the points that were written
          counted,  \* those of them that are in the inventory
          last,     \* number of the point that was read last, or 0
          query     \* the query whose points are being or were just read

vars == <<dll, disk, job, phase, calls, lost, before, given, counted, last, query>>

NoQuery == [rectangle |-> <<>>, found |-> <<>>, from |-> 0, empty |-> FALSE, done |-> FALSE]

-----------------------------------------------------------------------------
(* laszip_create() and laszip_clean() *)

NoBox == [min_x |-> 0, max_x |-> 0, min_y |-> 0, max_y |-> 0]
NoCounters == [count |-> 0, by |-> [r \in 1..15 |-> 0]]
NewHeader ==
  [minor |-> 2, format |-> 1, length |-> 28, size |-> 227, offset |-> 227, in_header |-> 0,
   after |-> 0, vlrs |-> <<>>, wkt |-> FALSE, count |-> 0, by |-> [r \in 1..5 |-> 0],
   extended |-> NoCounters, box |-> NoBox, gps |-> <<0, 0>>]

NewPoint ==
  [x |-> 0, y |-> 0, gps_time |-> 0, nir |-> 0, scan_angle_rank |-> 0, return_number |-> 0,
   number_of_returns |-> 0, classification |-> 0, flags |-> 0, extended_point_type |-> 0,
   extended_scan_angle |-> 0, extended_return_number |-> 0, extended_number_of_returns |-> 0,
   extended_classification |-> 0, extended_classification_flags |-> 0,
   extended_scanner_channel |-> 0, extra_bytes |-> <<>>]

NewDll ==
  [header |-> NewHeader, attributes |-> <<>>, native |-> TRUE, compat |-> FALSE,
   compatibility_mode |-> FALSE, lax_create |-> FALSE, lax_exploit |-> FALSE,
   start |-> [scan_angle |-> 0, returns |-> 0, classification |-> 0, flags |-> 0, nir |-> 0],
   point |-> NewPoint, writer |-> None, reader |-> None, inventory |-> None, lax |-> None,
   npoints |-> 0, p_count |-> 0, error |-> FALSE]

Refused(d) == [d EXCEPT !.error = TRUE]
Accepted(d) == [d EXCEPT !.error = FALSE]

-----------------------------------------------------------------------------
(* The header *)

\* laszip_set_header(): what older versions do not have stays what it was.
SetHeader(d, h) ==
  [d EXCEPT !.header = [h EXCEPT !.extended = IF h.minor >= 4 THEN @ ELSE d.header.extended,
                                 !.gps = IF h.minor >= 5 THEN @ ELSE d.header.gps],
            !.attributes = IF HasVlr(h, ExtraBytesVLR) THEN Vlr(h, ExtraBytesVLR).data
                           ELSE <<>>]

AddAttribute(d, attribute) ==
  [d EXCEPT !.attributes = Append(@, attribute),
            !.header = WithAttributes(@, Append(d.attributes, attribute))]

SetPointTypeAndSize(d, format, length) == [d EXCEPT !.header.format = format, !.header.length = length]

\* laszip_set_geokeys() and its like: a VLR with as many entries as there are.
SetGeokeys(d, n) ==
  [d EXCEPT !.header = WithVlr(@, "LASF_Projection 34735", 8 + 8 * n, n)]
SetGeodoubleParams(d, n) ==
  [d EXCEPT !.header = WithVlr(@, "LASF_Projection 34736", 8 * n, n)]
SetGeoasciiParams(d, n) ==
  [d EXCEPT !.header = WithVlr(@, "LASF_Projection 34737", n, n)]

AddVlr(d, id, length) == [d EXCEPT !.header = WithVlr(@, id, length, length)]
RemoveVlr(d, id) ==
  IF HasVlr(d.header, id) THEN [d EXCEPT !.header = WithoutVlr(@, id)] ELSE Refused(d)

\* Only one of the two should be on.
RequestNativeExtension(d, request) ==
  [d EXCEPT !.native = request, !.compat = @ /\ ~request]
RequestCompatibilityMode(d, request) ==
  [d EXCEPT !.compat = request, !.native = @ /\ ~request]

CreateSpatialIndex(d, create) == [d EXCEPT !.lax_create = create]
ExploitSpatialIndex(d, exploit) == [d EXCEPT !.lax_exploit = exploit]

Called(d, call) ==
  CASE call.name = "laszip_add_attribute" -> AddAttribute(d, call.attribute)
    [] call.name = "laszip_set_point_type_and_size" ->
         SetPointTypeAndSize(d, d.header.format, d.header.length + call.more)
    [] call.name = "laszip_set_geokeys" -> SetGeokeys(d, call.n)
    [] call.name = "laszip_set_geodouble_params" -> SetGeodoubleParams(d, call.n)
    [] call.name = "laszip_set_geoascii_params" -> SetGeoasciiParams(d, call.n)
    [] call.name = "laszip_add_vlr" -> AddVlr(d, call.id, call.length)
    [] call.name = "laszip_remove_vlr" -> RemoveVlr(d, call.id)
    [] call.name = "laszip_request_native_extension" -> RequestNativeExtension(d, call.request)
    [] call.name = "laszip_request_compatibility_mode" ->
         RequestCompatibilityMode(d, call.request)

-----------------------------------------------------------------------------
(* laszip_open_writer() *)

\* setup_laszip_items() gives the point as many extra bytes as its item has.
SetupItems(d, items) ==
  IF Last(items).type \in {"BYTE", "BYTE14"}
  THEN [d EXCEPT !.point.extra_bytes = [i \in 1..Last(items).size |-> 0]] ELSE d

OldPoint(d) == [d EXCEPT !.point.extended_point_type = 0, !.compatibility_mode = FALSE]
NewPoint14(d) == [d EXCEPT !.point.extended_point_type = 1]
WithCounters32(h) ==
  [h EXCEPT !.count = h.extended.count, !.by = [r \in 1..5 |-> h.extended.by[r]]]

\* One set of attributes is the object's, the VLR's and gives the starts.
WithOldPoints(d, attributes) ==
  LET h == WithAttributes(d.header, attributes)
  IN [d EXCEPT !.attributes = attributes, !.start = Starts(attributes),
               !.header = [h EXCEPT !.format = OldFormat(@)], !.compatibility_mode = TRUE]

Recoded(d, existing) ==
  IF existing > 0 /\ SizeOf(d.attributes) > existing THEN Refused(d)
  ELSE WithOldPoints(d, ForOldPoints(Described(d.attributes, d.header, existing),
                                     d.header.format))

PrepareCompatible(d) ==
  IF ExtraBytes(d.header.format, d.header.length) < 0
  THEN Refused([d EXCEPT !.header = WithCounters32(@)])
  ELSE Recoded([d EXCEPT !.header = Downgraded(@)],
               ExtraBytes(d.header.format, d.header.length))

\* laszip_prepare_point_for_write(): without a request the mode is not touched.
PreparePoint(d, compress) ==
  CASE d.header.format <= 5 -> OldPoint(d)
    [] d.header.format > 5 /\ d.native -> [NewPoint14(d) EXCEPT !.compatibility_mode = FALSE]
    [] d.header.format > 5 /\ d.compat -> PrepareCompatible(NewPoint14(d))
    [] OTHER -> IF compress THEN Refused(NewPoint14(d)) ELSE NewPoint14(d)

\* Points of LAS 1.4 are compressed in layers or not at all.
CanSetup(d, compress) ==
  compress /\ d.header.format > 5 => d.native \/ d.compat

PreparedDll(d, compress) ==
  IF ~CanSetup(d, compress) THEN Refused(d)
  ELSE IF ~CountersAgree(d.header) THEN Refused([d EXCEPT !.header = WithOldCounters(@)])
  ELSE PreparePoint([d EXCEPT !.header = WithOldCounters(@)], compress)

CanWriteHeader(d) == OffsetIsRight(d.header) /\ d.header.size >= FixedSize(d.header.minor)

WriterItems(d, compress) ==
  WithVersions(Items(d.header.format, d.header.length, d.compat),
               IF compress THEN DefaultVersion(d.header.format, d.header.minor) ELSE 0)

Total(h) == IF h.count # 0 THEN h.count ELSE h.extended.count

FileOf(written, items, compress) ==
  [header |-> written.header, starts_at |-> written.starts_at, compressed |-> compress,
   items |-> items, points |-> <<>>]

\* d is the object with its header prepared, items what was set up before.
WithWriter(d, items) ==
  [d EXCEPT !.writer = [items |-> items], !.npoints = Total(d.header), !.p_count = 0,
            !.header.in_header = d.header.size - FixedSize(d.header.minor),
            !.lax = IF d.lax_create THEN Prepare(d.header.box) ELSE None]

OpenWriter(compress) ==
  /\ phase = "header"
  /\ dll.writer = None /\ dll.reader = None
  /\ before' = dll.header
  /\ \E items \in {WriterItems(dll, compress)} :
     \E d \in {PreparedDll(SetupItems(Accepted(dll), items), compress)} :
        \/ /\ d.error \/ ~CanWriteHeader(d)
           /\ dll' = Refused(d)
           /\ phase' = "refused"
           /\ UNCHANGED disk
        \/ /\ ~d.error /\ CanWriteHeader(d)
           /\ dll' = WithWriter(d, items)
           /\ disk' = [las |-> FileOf(WrittenHeader(d.header, items, compress), items, compress),
                       lax |-> None]
           /\ phase' = "write"
  /\ UNCHANGED <<job, calls, lost, given, counted, last, query>>

-----------------------------------------------------------------------------
(* laszip_set_point(), laszip_write_point() and laszip_write_indexed_point() *)

Stored(items, p) ==
  IF "POINT14" \in Types(items) THEN StorePOINT14(p, "RGBNIR14" \in Types(items))
  ELSE StorePOINT10(p)
Loaded(items, p, item) ==
  IF "POINT14" \in Types(items) THEN LoadPOINT14(p, item, "RGBNIR14" \in Types(items))
  ELSE LoadPOINT10(p, item)

\* Only the object may add extra bytes.  How many there are is copied with the
\* fields before it is compared, so that no other number of them is refused.
CanSetPoint(d, p) ==
  d.point.extra_bytes # <<>> /\ p.extra_bytes = <<>> => d.compatibility_mode
SetPoint(d, p) ==
  [d EXCEPT !.point = [p EXCEPT !.extra_bytes = IF @ = <<>> THEN d.point.extra_bytes ELSE @]]

WithRecoding(d) ==
  [d EXCEPT !.point = IF d.compatibility_mode THEN Distilled(@, d.start) ELSE @]

Written(d) == [d EXCEPT !.p_count = @ + 1]
Indexed(d) == [Written(d) EXCEPT !.lax = AddPoint(@, d.point.x, d.point.y, d.p_count)]

\* laszip_write_indexed_point() neither checks nor recodes the point.
PointToWrite(d) == IF job.index THEN d ELSE WithRecoding(d)

WritePoint(p) ==
  /\ phase = "write"
  /\ \/ /\ ~CanSetPoint(dll, p) \/ (~job.index /\ ~IsConsistent(p))
        /\ dll' = Refused(dll)
        /\ phase' = "refused"
        /\ UNCHANGED <<disk, given>>
     \/ /\ CanSetPoint(dll, p) /\ (job.index \/ IsConsistent(p))
        /\ \E d \in {PointToWrite(SetPoint(dll, p))} :
              /\ dll' = IF job.index THEN Indexed(d) ELSE Written(d)
              /\ disk' = [disk EXCEPT !.las.points = Append(@, Stored(d.writer.items, d.point))]
        /\ given' = Append(given, p)
        /\ UNCHANGED phase
  /\ UNCHANGED <<job, calls, lost, before, counted, last, query>>

(* laszip_update_inventory(): counters of the returns start at return 0 *)

NewInventory == [count |-> 0, by |-> [r \in 0..15 |-> 0], box |-> NoBox, gps |-> <<0, 0>>]

Grown(box, p) ==
  [min_x |-> Min({box.min_x, p.x}), max_x |-> Max({box.max_x, p.x}),
   min_y |-> Min({box.min_y, p.y}), max_y |-> Max({box.max_y, p.y})]

AddToInventory(i, p) ==
  LET first == i.count = 0
      r == IF p.extended_point_type # 0 THEN p.extended_return_number ELSE p.return_number
      here == [min_x |-> p.x, max_x |-> p.x, min_y |-> p.y, max_y |-> p.y]
  IN [count |-> i.count + 1, by |-> [i.by EXCEPT ![r] = @ + 1],
      box |-> IF first THEN here ELSE Grown(i.box, p),
      gps |-> IF first THEN <<p.gps_time, p.gps_time>>
              ELSE <<Max({i.gps[1], p.gps_time}), Min({i.gps[2], p.gps_time})>>]

UpdateInventory ==
  /\ phase = "write" /\ counted < Len(given)
  /\ dll' = [dll EXCEPT !.inventory =
                AddToInventory(IF @ = None THEN NewInventory ELSE @, dll.point)]
  /\ counted' = counted + 1
  /\ UNCHANGED <<disk, job, phase, calls, lost, before, given, last, query>>

(* laszip_close_writer() *)

\* Fault: the counter of return r is taken for that of return r + 1.
UpdatedFromZero(file, h, i) ==
  [file EXCEPT !.count = IF h.format <= 5 THEN i.count ELSE @,
               !.by = IF h.format <= 5 THEN [r \in 1..5 |-> i.by[r - 1]] ELSE @,
               !.box = i.box]

\* What the inventory overwrites in the file; h is the object's header.
UpdatedFile(file, h, i) ==
  [file EXCEPT
     !.count = IF h.format <= 5 THEN i.count ELSE @,
     !.by = IF h.format <= 5 THEN [r \in 1..5 |-> i.by[r]] ELSE @,
     !.box = i.box,
     !.extended = IF h.minor >= 4 THEN [count |-> i.count, by |-> [r \in 1..15 |-> i.by[r]]]
                  ELSE @,
     !.gps = IF h.minor >= 5 THEN i.gps ELSE @]

CloseWriter ==
  /\ phase = "write" /\ dll.writer # None
  /\ \E lax \in (IF dll.lax = None THEN {None} ELSE Complete(dll.lax)) :
        disk' = [las |-> IF dll.inventory = None THEN disk.las
                         ELSE [disk.las EXCEPT !.header =
                                 UpdatedFile(@, dll.header, dll.inventory)],
                 lax |-> lax]
  /\ dll' = [dll EXCEPT !.writer = None, !.inventory = None, !.lax = None]
  /\ phase' = "file"
  /\ UNCHANGED <<job, calls, lost, before, given, counted, last, query>>

-----------------------------------------------------------------------------
(* laszip_open_reader() *)

\* What of a file's header the object keeps if the file does not have it.
HeaderOf(d, file) ==
  ReadBack([file.header EXCEPT
              !.extended = IF file.header.minor >= 4 THEN @ ELSE d.header.extended,
              !.gps = IF file.header.minor >= 5 THEN @ ELSE d.header.gps])

ReaderItems(h, file) ==
  IF file.compressed THEN file.items ELSE Items(h.format, h.length, FALSE)

\* The attributes are looked up if there are any, or stay where they were.
StartsIn(d, h) ==
  IF HasVlr(h, ExtraBytesVLR) THEN Starts(Vlr(h, ExtraBytesVLR).data) ELSE d.start
HasAllStarts(start) ==
  -1 \notin {start.scan_angle, start.returns, start.classification, start.flags}

WithHeader(d, h, start) ==
  IF ~(d.compat /\ IsCompatible(h))
  THEN [d EXCEPT !.header = h, !.compatibility_mode = FALSE,
                 !.point.extended_point_type =
                    IF ~(d.compat /\ h.minor < 4) /\ h.format > 5 THEN 1 ELSE @]
  ELSE IF ~HasAllStarts(start)
  THEN [d EXCEPT !.header = h, !.start = start, !.compatibility_mode = FALSE]
  ELSE [d EXCEPT !.header = Upgraded(h, start), !.start = start, !.compatibility_mode = TRUE,
                 !.point.extended_point_type = 1]

WithReader(d, items, lax) ==
  [d EXCEPT !.reader = [items |-> items, at |-> 0],
            !.npoints = Total(d.header), !.p_count = 0,
            !.lax = IF d.lax_exploit /\ lax # None THEN Restored(lax) ELSE None]

OpenReader ==
  /\ phase = "reopen"
  /\ dll.writer = None /\ dll.reader = None
  /\ \E h \in {HeaderOf(dll, disk.las)} :
     \E items \in {ReaderItems(h, disk.las)} :
        \/ /\ disk.las.compressed /\ ~FitItems(items, h.length)
           /\ dll' = Refused([dll EXCEPT !.header = h])
           /\ phase' = "refused"
        \/ /\ disk.las.compressed => FitItems(items, h.length)
           /\ dll' = WithReader(WithHeader(SetupItems(Accepted(dll), items), h,
                                           StartsIn(dll, h)),
                                items, disk.lax)
           /\ phase' = "read"
  /\ UNCHANGED <<disk, job, calls, lost, before, given, counted, last, query>>

-----------------------------------------------------------------------------
(* laszip_read_point() and laszip_seek_point() *)

Points == disk.las.points
AtPoint(d) == d.reader.at < Len(Points)

\* reader->read() of a point that is there.
NextRead(d) ==
  [d EXCEPT !.point = Loaded(d.reader.items, @, Points[d.reader.at + 1]),
            !.reader.at = @ + 1, !.p_count = @ + 1, !.error = FALSE]

WithExtended(d) ==
  [d EXCEPT !.point = IF d.compatibility_mode THEN Instilled(@, d.start) ELSE @]

\* Behind the last point the decoder takes what bytes it finds for further points
\* nobody wrote, until the stream ends.  Where they lie is all that is told apart
\* of them; their other fields, and the recoding of those, are left out.
MayGoOn(d) == disk.las.compressed /\ d.reader.at \in Len(Points)..(Len(Points) + Behind - 1)
PastTheEnd(d, place) ==
  [d EXCEPT !.point.x = place.x, !.point.y = place.y, !.reader.at = @ + 1,
            !.p_count = @ + 1, !.error = FALSE]

ReadPoint ==
  /\ phase = "read"
  /\ \/ /\ AtPoint(dll)
        /\ dll' = WithExtended(NextRead(dll))
        /\ last' = dll.reader.at + 1
     \/ /\ ~AtPoint(dll)
        /\ dll' = Refused(dll)
        /\ UNCHANGED last
     \/ /\ MayGoOn(dll)
        /\ \E place \in Strange : dll' = PastTheEnd(dll, place)
        /\ last' = 0
  /\ query' = NoQuery
  /\ UNCHANGED <<disk, job, phase, calls, lost, before, given, counted>>

\* LASreadPoint::seek() to a later point of the chunk reads as many points as
\* lie between p_count and the target; a file without compression is positioned.
SeekTo(d, target) ==
  [d EXCEPT !.reader.at = IF disk.las.compressed /\ target >= d.p_count
                          THEN @ + (target - d.p_count) ELSE target,
            !.p_count = target]

SeekPoint(target) ==
  /\ phase = "read"
  /\ dll' = Accepted(SeekTo(dll, target))
  /\ last' = 0 /\ query' = NoQuery
  /\ UNCHANGED <<disk, job, phase, calls, lost, before, given, counted>>

-----------------------------------------------------------------------------
(* laszip_inside_rectangle() and laszip_read_inside_point() *)

Inside(p, r) == r.min_x <= p.x /\ p.x < r.max_x /\ r.min_y <= p.y /\ p.y < r.max_y
BoxMisses(box, r) ==
  box.min_x > r.max_x \/ box.min_y > r.max_y \/ box.max_x < r.min_x \/ box.max_y < r.min_y

InsideRectangle(r) ==
  /\ phase = "read" /\ dll.lax_exploit
  /\ dll' = [dll EXCEPT !.lax = IF @ = None THEN @ ELSE Query(@, r), !.error = FALSE]
  /\ query' = [rectangle |-> r, found |-> <<>>, done |-> FALSE,
               from |-> IF dll.lax = None THEN dll.p_count ELSE 0,
               empty |-> IF dll.lax = None THEN BoxMisses(dll.header.box, r)
                         ELSE ~Meets(dll.lax, r)]
  /\ phase' = "inside"
  /\ UNCHANGED <<disk, job, calls, lost, before, given, counted, last>>

\* What the loop of laszip_read_inside_point() makes of a point it has read.
Found(p, number) ==
  [query EXCEPT !.found = IF Inside(p, query.rectangle) THEN Append(@, number) ELSE @]

\* LASindex::seek_next(), which ignores what reader->seek() returns.
Sought(d) ==
  IF d.lax.at.have THEN [d EXCEPT !.lax = LeaveAt(@, d.p_count)]
  ELSE LET next == TakeNext(d.lax)
       IN [SeekTo(d, next.at.start) EXCEPT !.lax = LeaveAt(next, next.at.start)]

\* A turn of the loop with an index; a read that fails is simply repeated.
ReadIndexed ==
  /\ dll.lax # None /\ HasNext(dll.lax)
  /\ \E d \in {Sought(dll)} :
        /\ dll' = IF AtPoint(d) THEN NextRead(d) ELSE d
        /\ query' = IF AtPoint(d) THEN Found(NextRead(d).point, d.p_count + 1) ELSE query
  /\ UNCHANGED phase

\* What the loop without an index may read next: the next point or, where none
\* is left, anything at all.
NextReads(d) ==
  IF AtPoint(d) THEN {NextRead(d)}
  ELSE IF MayGoOn(d) THEN {PastTheEnd(d, place) : place \in Strange} ELSE {}

\* A turn of that loop.  It tests all it reads alike, and never looks at npoints.
ReadOn ==
  /\ dll.lax = None
  /\ \E d \in NextReads(dll) : dll' = d /\ query' = Found(d.point, d.p_count)
  /\ UNCHANGED phase

NoMorePoints ==
  /\ IF dll.lax = None THEN ~AtPoint(dll) ELSE ~HasNext(dll.lax)
  /\ dll' = [dll EXCEPT !.error = dll.lax = None /\ dll.p_count < dll.npoints]
  /\ query' = [query EXCEPT !.done = TRUE]
  /\ phase' = "read"

ReadInsidePoint ==
  /\ phase = "inside"
  /\ ReadIndexed \/ ReadOn \/ NoMorePoints
  /\ last' = 0
  /\ UNCHANGED <<disk, job, calls, lost, before, given, counted>>

CloseReader ==
  /\ phase = "read"
  /\ dll' = [dll EXCEPT !.reader = None, !.lax = None, !.error = FALSE]
  /\ phase' = "closed"
  /\ last' = 0 /\ query' = NoQuery
  /\ UNCHANGED <<disk, job, calls, lost, before, given, counted>>

-----------------------------------------------------------------------------
(***************************************************************************)
(* Caller: a job is a header, the calls the caller may make (at most most  *)
(* of them) before it opens the writer, the points it writes, whether it   *)
(* makes an index and an inventory, the points it may seek and the         *)
(* rectangles it may ask for.  A call that fails ends the job.             *)
(***************************************************************************)
Init ==
  /\ dll = NewDll /\ disk = [las |-> None, lax |-> None]
  /\ job \in Jobs /\ phase = "new" /\ calls = 0 /\ lost = 0
  /\ before = NewHeader /\ given = <<>> /\ counted = 0 /\ last = 0 /\ query = NoQuery

Start ==
  /\ phase = "new"
  /\ dll' = CreateSpatialIndex(SetHeader(dll, job.header), job.index)
  /\ phase' = "header"
  /\ UNCHANGED <<disk, job, calls, lost, before, given, counted, last, query>>

RemovesNothing(call) ==
  call.name = "laszip_remove_vlr" /\ HasVlr(dll.header, call.id)
    /\ Vlr(dll.header, call.id).length = 0

Call(call) ==
  /\ phase = "header" /\ calls < job.most
  /\ dll' = Called(Accepted(dll), call)
  /\ calls' = calls + 1
  /\ lost' = IF RemovesNothing(call) THEN lost + 1 ELSE lost
  /\ UNCHANGED <<disk, job, phase, before, given, counted, last, query>>

\* As many extra bytes as the object's point has, or none for it to fill in.
Fitted(p) ==
  IF dll.compatibility_mode /\ p.extra_bytes = <<>> THEN p
  ELSE [p EXCEPT !.extra_bytes = [i \in 1..Len(dll.point.extra_bytes) |->
                                    IF i <= Len(@) THEN @[i] ELSE 0]]

WriteNext ==
  /\ Len(given) < Len(job.points) /\ (job.inventory => counted = Len(given))
  /\ WritePoint(Fitted(job.points[Len(given) + 1]))

AllWritten == Len(given) = Len(job.points) /\ (job.inventory => counted = Len(given))

\* The reader may be another object than the writer was.
BetweenFiles(clean, compat, exploit) ==
  /\ phase = "file"
  /\ dll' = ExploitSpatialIndex(RequestCompatibilityMode(IF clean THEN NewDll ELSE dll, compat),
                                exploit)
  /\ phase' = "reopen"
  /\ UNCHANGED <<disk, job, calls, lost, before, given, counted, last, query>>

StopReadingInside ==
  /\ phase = "inside"
  /\ phase' = "read" /\ query' = NoQuery
  /\ UNCHANGED <<dll, disk, job, calls, lost, before, given, counted, last>>

Stopped == phase \in {"refused", "closed"} /\ UNCHANGED vars

Next ==
  \/ Start \/ WriteNext \/ (job.inventory /\ UpdateInventory) \/ (AllWritten /\ CloseWriter)
  \/ \E call \in job.calls : Call(call)
  \/ \E compress \in BOOLEAN : OpenWriter(compress)
  \/ \E clean, compat \in BOOLEAN, exploit \in {FALSE, job.rectangles # {}} :
        BetweenFiles(clean, compat, exploit)
  \/ OpenReader \/ ReadPoint \/ ReadInsidePoint \/ StopReadingInside \/ CloseReader
  \/ \E target \in job.targets : SeekPoint(target)
  \/ \E r \in job.rectangles : InsideRectangle(r)
  \/ Stopped

Spec == Init /\ [][Next]_vars /\ WF_vars(ReadInsidePoint)

-----------------------------------------------------------------------------
(* Properties *)

\* What a query of the spatial index has still to give are numbers of points.
IndexGivesNumbers == dll.lax # None => dll.lax.queue \in Seq(Nat \X Nat)

\* The object is a reader or a writer or neither, its counters are numbers,
\* and every VLR is there once.
TypeOK ==
  /\ dll.reader = None \/ dll.writer = None
  /\ dll.p_count \in 0..(Len(given) + Behind) /\ dll.npoints \in Nat
  /\ dll.header.format \in 0..10 /\ dll.header.minor \in 0..5
  /\ IsInjective([i \in DOMAIN dll.header.vlrs |-> dll.header.vlrs[i].id])
  /\ lost \in 0..calls /\ counted \in 0..Len(given) /\ last \in 0..Len(given)
  /\ IndexGivesNumbers

\* Through all that adds, replaces and removes VLRs, and the conversions to
\* compatibility mode and back, the offset remains where the points will be:
\* behind header, VLRs and user data, and 54 bytes for each VLR without data
\* that laszip_remove_vlr() took out.
OffsetFollowsTheRecords ==
  phase # "new" =>
    dll.header.offset =
      dll.header.size + VlrBytes(dll.header.vlrs) + dll.header.after + 54 * lost

Existing(h) == ExtraBytes(h.format, h.length)

\* The header that laszip_open_writer() puts into a file says where the points
\* begin and how long they are, in compatibility mode, too, where the items
\* were set up for the point type the header no longer has.  (A length too
\* short for the point type is only warned about.)
FileDescribesItself ==
  disk.las # None =>
    /\ disk.las.header.offset = disk.las.starts_at
    /\ disk.las.compressed /\ Existing(before) >= 0 =>
         FitItems(disk.las.items, disk.las.header.length)
    /\ ~disk.las.compressed =>
         Types(disk.las.items)
           = Types(Items(disk.las.header.format, disk.las.header.length, FALSE))

Documented(h) ==
  IF HasVlr(h, ExtraBytesVLR) THEN SizeOf(Vlr(h, ExtraBytesVLR).data) ELSE 0
IsRecoded == disk.las.header.format <= 5 /\ before.format > 5

\* A header that is converted for the file and back again by the reader is
\* what it was: version, sizes, point type, VLRs in their order, and the
\* OGC WKT bit if there is such a VLR.
\* (Extra bytes that were not documented are, afterwards.)
HeaderComesBack ==
  phase = "read" /\ (IsRecoded => dll.compat /\ Documented(before) >= Existing(before)) =>
    /\ dll.header.minor = before.minor /\ dll.header.format = before.format
    /\ dll.header.length = before.length /\ dll.header.size = before.size
    /\ dll.header.offset = before.offset /\ dll.header.vlrs = before.vlrs
    /\ dll.header.after = before.after
    /\ before.wkt = HasVlr(before, WktVLR) => dll.header.wkt = before.wkt

OldFields == {"scan_angle_rank", "return_number", "number_of_returns", "classification"}
NewFields ==
  {"extended_scan_angle", "extended_return_number", "extended_number_of_returns",
   "extended_classification", "extended_classification_flags", "extended_scanner_channel"}
IsSamePoint(p, q, h) ==
  /\ \A f \in {"x", "y", "gps_time", "flags"} : p[f] = q[f]
  /\ \A f \in (IF h.format > 5 THEN NewFields ELSE OldFields) : p[f] = q[f]
  /\ h.format \in {8, 10} => p.nir = q.nir
  /\ p.extra_bytes # <<>> =>
       \A i \in 1..Existing(h) : p.extra_bytes[i] = q.extra_bytes[i]

\* laszip_read_point() returns what was given to laszip_write_point(), of the
\* native point types as of those that are recoded for compatibility mode
\* (unless a reader does not ask for it and sees the old point types).
PointsComeBack ==
  phase = "read" /\ last # 0 /\ (IsRecoded => dll.compat) =>
    IsSamePoint(given[last], dll.point, before)

ReturnOf(p) ==
  IF p.extended_point_type # 0 THEN p.extended_return_number ELSE p.return_number
With(r) == Cardinality({i \in DOMAIN given : ReturnOf(given[i]) = r})

\* With an inventory of all points the header that is read has their number,
\* their returns and their box (the extended counters of a recoded header are
\* those it was written with).
CountsComeBack ==
  phase = "read" /\ job.inventory /\ given # <<>> =>
    /\ dll.npoints = Len(given)
    /\ before.format <= 5 => \A r \in 1..5 : dll.header.by[r] = With(r)
    /\ dll.header.minor >= 4 /\ ~IsRecoded =>
         /\ dll.header.extended.count = Len(given)
         /\ \A r \in 1..15 : dll.header.extended.by[r] = With(r)
    /\ dll.header.box.min_x = Min({given[i].x : i \in DOMAIN given})
    /\ dll.header.box.max_x = Max({given[i].x : i \in DOMAIN given})

\* Numbers of the points that lie in the rectangle of the query, in order.
Wanted ==
  SetToSortSeq({i \in (query.from + 1)..Len(given) : Inside(given[i], query.rectangle)}, <)

\* laszip_read_inside_point() returns the points of the rectangle, each once and
\* in order, with a spatial index as without (then from the point on where the
\* reader is), before it returns anything else; what else it returns lies behind
\* the last point of a compressed file that is read without an index; and
\* laszip_inside_rectangle() calls the rectangle empty only if it is.
InsideReadsAreExact ==
  phase = "read" /\ query.done =>
    /\ IsPrefix(Wanted, query.found)
    /\ \A i \in (Len(Wanted) + 1)..Len(query.found) :
         query.found[i] > Len(given) /\ disk.las.compressed /\ dll.lax = None
    /\ query.empty => Wanted = <<>>

\* laszip_read_inside_point() comes to an end.
InsideReadingEnds == phase = "inside" ~> phase = "read"
=============================================================================
