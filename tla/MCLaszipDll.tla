---------------------------- MODULE MCLaszipDll ----------------------------
(***************************************************************************)
(* Jobs for a caller of laszip_dll: headers of several versions and point  *)
(* types, with and without VLRs, user data and extra bytes; points whose   *)
(* extended fields do and do not fit into the old ones; small files with a *)
(* spatial index of few cells.                                             *)
(***************************************************************************)
EXTENDS LaszipDll

Size(minor) == FixedSize(minor)
Header(minor, format, more, vlrs) ==
  [NewHeader EXCEPT !.minor = minor, !.format = format, !.length = PointSize(format) + more,
                    !.size = Size(minor) + 2, !.in_header = 2, !.after = 3, !.vlrs = vlrs,
                    !.offset = Size(minor) + 2 + VlrBytes(vlrs) + 3,
                    !.wkt = \E i \in DOMAIN vlrs : vlrs[i].id = WktVLR,
                    !.box = [min_x |-> 0, max_x |-> 3, min_y |-> 0, max_y |-> 3]]

Some(id, length) == [id |-> id, length |-> length, data |-> length]
Attribute(size) == [name |-> "range", size |-> size]
Extra(size) == [id |-> ExtraBytesVLR, length |-> 192, data |-> <<Attribute(size)>>]

Old(x, y) ==
  [NewPoint EXCEPT !.x = x, !.y = y, !.gps_time = x, !.return_number = 1,
                   !.number_of_returns = 2, !.classification = 2, !.flags = 5,
                   !.scan_angle_rank = -7]
\* Return r of n, a scan angle, a class, flags and a scanner channel.
New(r, n, angle, class, flags) ==
  [NewPoint EXCEPT !.x = 1, !.y = 2, !.gps_time = 3, !.nir = 700, !.extended_point_type = 1,
                   !.flags = flags % 8, !.classification = IF class < 32 THEN class ELSE 0,
                   !.extended_return_number = r, !.extended_number_of_returns = n,
                   !.extended_scan_angle = angle, !.extended_classification = class,
                   !.extended_classification_flags = flags,
                   !.extended_scanner_channel = r % 4]
WithExtra(p, bytes) == [p EXCEPT !.extra_bytes = bytes]

Job(header, points) ==
  [header |-> header, most |-> 0, calls |-> {}, points |-> points, index |-> FALSE,
   inventory |-> FALSE, targets |-> {}, rectangles |-> {}]

Request(name) == [name |-> name, request |-> TRUE]
Compatible == Request("laszip_request_compatibility_mode")
Requests ==
  {Compatible, Request("laszip_request_native_extension"),
   [name |-> "laszip_request_native_extension", request |-> FALSE]}

HeaderCalls ==
  Requests \cup
  {[name |-> "laszip_add_attribute", attribute |-> Attribute(2)],
   [name |-> "laszip_set_point_type_and_size", more |-> 1],
   [name |-> "laszip_set_geokeys", n |-> 1], [name |-> "laszip_set_geodouble_params", n |-> 2],
   [name |-> "laszip_set_geoascii_params", n |-> 5],
   [name |-> "laszip_add_vlr", id |-> "me 1", length |-> 0],
   [name |-> "laszip_add_vlr", id |-> "me 1", length |-> 7],
   [name |-> "laszip_remove_vlr", id |-> "me 1"],
   [name |-> "laszip_remove_vlr", id |-> WktVLR]}

VlrsOf(n) ==
  CASE n = 0 -> <<>> [] n = 1 -> <<Some("me 1", 4), Some(WktVLR, 9)>>
    [] n = 2 -> <<Extra(2), Some("me 1", 4)>>

\* What can be done to a header; the files have no points.
HeaderJobs ==
  {[Job(h, <<>>) EXCEPT !.most = 2, !.calls = HeaderCalls] :
     h \in {Header(2, 1, 0, VlrsOf(1)), Header(4, 8, 0, VlrsOf(1)), Header(4, 6, 0, VlrsOf(0)),
            Header(5, 10, 2, VlrsOf(2)), Header(4, 7, 2, VlrsOf(0)),
            Header(5, 9, 0, VlrsOf(1))}}

\* Headers no file is written with in one mode or in any, and one whose file
\* cannot be read.
BadJobs ==
  {[Job(h, <<New(1, 1, 0, 2, 0)>>) EXCEPT !.most = 1, !.calls = Requests] :
     h \in {[Header(4, 3, 0, <<>>) EXCEPT !.count = 7],
            [Header(4, 1, 0, <<>>) EXCEPT !.by = [r \in 1..5 |-> r \div 5]],
            [Header(4, 6, 0, <<>>) EXCEPT !.size = 300, !.offset = 303],
            Header(4, 6, 1, VlrsOf(2)), Header(4, 6, -2, <<>>)}}

\* Every combination of a field that fits and one that does not.
Returns == {1, 4, 5, 6, 7, 8, 9, 15}
NewPoints ==
  {New(r, n, 250, 2, 8) : r \in Returns, n \in Returns}
  \cup {New(2, 9, a, 41, 5) : a \in {-30000, -15001, -84, -83, 83, 250, 21250, 30000}}
  \cup {New(1, 1, 0, c, f) : c \in {0, 5, 31, 32, 255}, f \in {0, 8, 15}}
PointJobs ==
  {[Job(Header(4, 8, 0, <<>>), <<p>>) EXCEPT !.most = 1, !.calls = {Compatible}] :
     p \in NewPoints}
  \cup {[Job(Header(5, 7, 2, v), <<WithExtra(p, <<11, 12>>), p>>)
           EXCEPT !.most = 1, !.calls = {Compatible}] :
          p \in {New(7, 9, -84, 41, 9), New(1, 2, 83, 31, 0)}, v \in {VlrsOf(0), VlrsOf(2)}}
  \cup {Job(Header(2, 1, 0, <<>>), <<Old(0, 1)>>),
        Job(Header(4, 6, 0, <<>>), <<[New(1, 1, 0, 2, 0) EXCEPT !.classification = 3]>>)}

\* Files with an inventory: old and new points, of LAS 1.2 to 1.5.
CountJobs ==
  {[Job(h, <<Old(2, 1), Old(0, 3), Old(3, 3)>>) EXCEPT !.inventory = TRUE, !.targets = {1}] :
     h \in {Header(2, 1, 0, <<>>), [Header(4, 3, 0, <<>>) EXCEPT !.extended.count = 3]}}
  \cup {[Job(h, <<New(1, 9, 0, 2, 0), New(6, 9, 0, 2, 0)>>)
           EXCEPT !.inventory = TRUE, !.most = 1, !.calls = {Compatible}] :
          h \in {Header(4, 6, 0, <<>>), Header(5, 6, 0, <<>>)}}

\* Files with an index, and some without: points in four cells that may become
\* one, and in one apart from them.
Place == <<Old(0, 0), Old(3, 0), Old(1, 2), Old(2, 2), Old(-2, 5)>>
Scattered == [min_x |-> -2, max_x |-> 5, min_y |-> -2, max_y |-> 5]
Rectangle(x, y, width, height) ==
  [min_x |-> x, max_x |-> x + width, min_y |-> y, max_y |-> y + height]
IndexJobs ==
  {[Job([Header(2, 1, 0, <<>>) EXCEPT !.count = Len(s), !.box = Scattered],
        [i \in DOMAIN s |-> Place[s[i]]])
      EXCEPT !.index = TRUE, !.targets = {1},
             !.rectangles = {Rectangle(0, 0, 2, 3), Rectangle(-2, 2, 4, 4),
                             Rectangle(3, 0, 1, 1), Rectangle(9, 0, 3, 3)}] :
     s \in {<<1, 2, 3, 4>>, <<4, 5, 3, 2, 1>>, <<1, 1, 2, 2, 3, 3, 4, 4>>,
            <<1, 4, 1, 4, 1, 5, 1>>, <<2, 5, 2, 3, 2, 5, 3>>, <<5, 5, 1, 5>>}}
NoIndexJobs ==
  {[j EXCEPT !.index = FALSE] : j \in {k \in IndexJobs : Len(k.points) <= 5}}

\* Two places behind the last point, of which each rectangle has one or none.
StrangePlaces == {[x |-> 0, y |-> 0], [x |-> 9, y |-> 2]}

AllJobs == HeaderJobs \cup BadJobs \cup PointJobs \cup CountJobs \cup IndexJobs
           \cup NoIndexJobs

\* A point whose old class is left at 0 although its class would fit there.
ClassJobs ==
  {[Job(Header(4, 6, 0, <<>>), <<[New(1, 1, a, 5, 0) EXCEPT !.classification = 0]>>)
      EXCEPT !.most = 1, !.calls = Requests] : a \in {0, 250, 30000}}
=============================================================================
